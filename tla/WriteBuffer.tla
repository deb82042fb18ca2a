------------------------------ MODULE WriteBuffer ------------------------------
(***************************************************************************)
(* WriteBuffer (src/write_buffer.cpp): a queue of buffers written one at a *)
(* time to a socket by async_write, in an io_service run by one thread.    *)
(* The entry being written stays at the front of the queue until its       *)
(* onWriteDone, which is not told which entry it is for: it calls back the *)
(* first one.                                                              *)
(*                                                                         *)
(* onWriteDone is two steps, OnWriteDone up to the callback of the entry   *)
(* and CallbackReturns from there, because the callback may call Write().  *)
(* It does not call Shutdown(), which would destroy the entry whose        *)
(* callback it is.  The caller keeps its buffer until its write is over.   *)
(***************************************************************************)
EXTENDS Naturals, Sequences, FiniteSets

CONSTANTS
  Entries,  \* the buffers given to Write(), once each
  Parts     \* a buffer goes out in so many pieces

ASSUME PartsNat == Parts \in Nat

VARIABLES
  write_queue, is_write_active,  \* as in the code
  writes,   \* async_writes in progress: the entry, and the frame it began in
  done,     \* the error codes of those finished, whose onWriteDone is queued
  frame,    \* the error code a callback is running with, or "none"
  given,    \* the entries given so far
  stream,   \* what the socket has taken: an entry, once for each part
  told,     \* what each callback has been called with
  torn      \* a write was started with another unfinished, or from a callback
vars == <<write_queue, is_write_active, writes, done, frame, given, stream, told, torn>>

Out(e) == Cardinality({k \in DOMAIN stream : stream[k] = e})

Init ==
  /\ write_queue = <<>> /\ is_write_active = FALSE
  /\ writes = {} /\ done = <<>> /\ frame = "none" /\ given = {}
  /\ stream = <<>> /\ told = [e \in Entries |-> "nothing"] /\ torn = FALSE

\* Mutant: is_write_active is not set.
EnsureWriteUnmarked(active) ==
  \/ /\ active \/ write_queue' = <<>>
     /\ is_write_active' = active /\ UNCHANGED <<writes, torn>>
  \/ /\ ~active /\ write_queue' # <<>>
     /\ is_write_active' = FALSE
     /\ writes' = writes \cup {<<Head(write_queue'), frame'>>}
     /\ torn' = (torn \/ frame' # "none" \/ done' # <<>>)

\* ensureWrite(), `active' being is_write_active when it is called.
EnsureWrite(active) ==
  \/ /\ active \/ write_queue' = <<>>
     /\ is_write_active' = active /\ UNCHANGED <<writes, torn>>
  \/ /\ ~active /\ write_queue' # <<>>
     /\ is_write_active' = TRUE
     /\ writes' = writes \cup {<<Head(write_queue'), frame'>>}
     /\ torn' = (torn \/ frame' # "none" \/ writes # {} \/ done' # <<>>)

Write(e) ==
  /\ e \notin given /\ given' = given \cup {e}
  /\ write_queue' = Append(write_queue, e)
  /\ UNCHANGED <<done, frame, stream, told>>
  /\ EnsureWrite(is_write_active)

Shutdown ==
  /\ frame = "none"
  /\ write_queue' = <<>> /\ is_write_active' = FALSE
  /\ UNCHANGED <<writes, done, frame, given, stream, told, torn>>

\* Up to the callback of the first entry; with an empty queue, all of it.
OnWriteDone ==
  /\ frame = "none" /\ done # <<>> /\ done' = Tail(done)
  /\ is_write_active' = FALSE
  /\ \/ write_queue = <<>> /\ UNCHANGED <<frame, told>>
     \/ /\ write_queue # <<>>
        /\ frame' = Head(done)
        /\ told' = [told EXCEPT ![Head(write_queue)] = Head(done)]
  /\ UNCHANGED <<write_queue, writes, given, stream, torn>>

\* Mutants: the entry is popped only after a success, or not at all; the
\* next write is not started.
CallbackReturnsPopping ==
  /\ frame # "none" /\ frame' = "none"
  /\ UNCHANGED <<done, given, stream, told>>
  /\ \/ /\ frame = "error" /\ is_write_active' = FALSE
        /\ UNCHANGED <<write_queue, writes, torn>>
     \/ /\ frame = "ok" /\ write_queue' = Tail(write_queue)
        /\ EnsureWrite(is_write_active)
CallbackReturnsKeeping ==
  /\ frame # "none" /\ frame' = "none"
  /\ UNCHANGED <<done, given, stream, told>>
  /\ \/ /\ frame = "error" /\ write_queue' = <<>> /\ is_write_active' = FALSE
        /\ UNCHANGED <<writes, torn>>
     \/ /\ frame = "ok" /\ UNCHANGED write_queue
        /\ EnsureWrite(is_write_active)
CallbackReturnsIdle ==
  /\ frame # "none" /\ frame' = "none"
  /\ UNCHANGED <<done, given, stream, told, is_write_active, writes, torn>>
  /\ write_queue' = IF frame = "error" THEN <<>> ELSE Tail(write_queue)

\* The entry is popped; after an error, Shutdown().
CallbackReturns ==
  /\ frame # "none" /\ frame' = "none"
  /\ UNCHANGED <<done, given, stream, told>>
  /\ \/ /\ frame = "error" /\ write_queue' = <<>> /\ is_write_active' = FALSE
        /\ UNCHANGED <<writes, torn>>
     \/ /\ frame = "ok" /\ write_queue' = Tail(write_queue)
        /\ EnsureWrite(is_write_active)

(***************************************************************************)
(* The socket: an async_write goes on in parts until its buffer is empty.  *)
(***************************************************************************)
SocketTakes(w) ==
  /\ Out(w[1]) < Parts /\ stream' = Append(stream, w[1])
  /\ UNCHANGED <<write_queue, is_write_active, writes, done, frame, given, told, torn>>
Ends(w, ec) ==
  /\ writes' = writes \ {w} /\ done' = Append(done, ec)
  /\ UNCHANGED <<write_queue, is_write_active, frame, given, stream, told, torn>>
WriteSucceeds(w) == Out(w[1]) = Parts /\ Ends(w, "ok")
WriteFails(w) == Out(w[1]) < Parts /\ Ends(w, "error")

Handler == OnWriteDone \/ CallbackReturns
Socket == \E w \in writes : SocketTakes(w) \/ WriteSucceeds(w) \/ WriteFails(w)
Next == Shutdown \/ Handler \/ Socket \/ \E e \in Entries : Write(e)
Spec == Init /\ [][Next]_vars

\* The io_service runs, and the peer reads or the socket fails.
FairSpec == Spec /\ WF_vars(Handler) /\ WF_vars(Socket)

-------------------------------------------------------------------------------
Codes == {"ok", "error"}
Frames == Codes \cup {"none"}
TypeOK ==
  /\ write_queue \in Seq(Entries) /\ is_write_active \in BOOLEAN
  /\ writes \subseteq Entries \X Frames /\ done \in Seq(Codes) /\ frame \in Frames
  /\ given \subseteq Entries /\ stream \in Seq(Entries)
  /\ told \in [Entries -> Codes \cup {"nothing"}] /\ torn \in BOOLEAN

(***************************************************************************)
(* The queue is never stuck, whatever the caller does: while it holds an   *)
(* entry, or is_write_active keeps the next Write() from starting one, a   *)
(* write is in progress or an onWriteDone is to run or running.            *)
(***************************************************************************)
NeverStuck ==
  write_queue # <<>> \/ is_write_active => writes # {} \/ done # <<>> \/ frame # "none"

(***************************************************************************)
(* An entry's callback is called once, even by an onWriteDone that is late *)
(* and finds another entry at the front: the first entry was never called. *)
(***************************************************************************)
CallbackOnce ==
  [][OnWriteDone /\ write_queue # <<>> => told[Head(write_queue)] = "nothing"]_vars

\* Every entry given is called back, or dropped by a Shutdown() or an error.
EveryWriteEnds ==
  \A e \in Entries : e \in given ~> \A k \in DOMAIN write_queue : write_queue[k] # e

(***************************************************************************)
(* WriteBuffer implements the FIFO.  While a callback runs, its entry is   *)
(* still in write_queue though the FIFO is done with it; after an error so *)
(* are the others.                                                         *)
(***************************************************************************)
queueBar == CASE frame = "none" -> write_queue
              [] frame = "ok" -> Tail(write_queue)
              [] frame = "error" -> <<>>
lostBar == IF is_write_active THEN {} ELSE {w[1] : w \in writes}
F == INSTANCE WriteFifo WITH queue <- queueBar, lost <- lostBar
Fifo == F!Spec
===============================================================================
