------------------------------- MODULE WriteFifo -------------------------------
(***************************************************************************)
(* What a WriteBuffer promises its caller: a FIFO of buffers over a byte   *)
(* stream.  Buffers go out one after the other, in the order they were     *)
(* given; a callback is told "ok" when the whole of its buffer has gone    *)
(* out, and not before.  After an error the first buffer is told of it and *)
(* the others are dropped.  The caller may drop the queue; the rest of a   *)
(* buffer that is going out may then still follow.                         *)
(*                                                                         *)
(* The promise is kept as long as the caller does not begin a write while  *)
(* a dropped one is unfinished, nor from inside a callback.  Once it has   *)
(* (`torn') anything may follow.                                           *)
(***************************************************************************)
EXTENDS Naturals, Sequences, FiniteSets

CONSTANTS
  Entries,  \* the buffers
  Parts     \* how many parts of a buffer go out, one at a time

VARIABLES
  queue,   \* the buffers given and not yet done, the first going out
  lost,    \* a dropped buffer that may still be going out
  stream,  \* what has gone out: a buffer is named once for each of its parts
  told,    \* what each callback has been told
  torn
fifo == <<queue, lost, stream, told, torn>>

Out(e) == Cardinality({k \in DOMAIN stream : stream[k] = e})

Init ==
  /\ queue = <<>> /\ lost = {} /\ stream = <<>> /\ torn = FALSE
  /\ told = [e \in Entries |-> "nothing"]

Give(e) ==
  queue' = Append(queue, e) /\ UNCHANGED <<lost, stream, told, torn>>

Send(e) ==
  /\ e \in lost \/ (queue # <<>> /\ e = Head(queue))
  /\ Out(e) < Parts
  /\ stream' = Append(stream, e) /\ UNCHANGED <<queue, lost, told, torn>>

TellFirst(what) ==
  /\ queue # <<>> /\ told[Head(queue)] = "nothing"
  /\ told' = [told EXCEPT ![Head(queue)] = what]
  /\ UNCHANGED <<lost, stream, torn>>
Done == TellFirst("ok") /\ Out(Head(queue)) = Parts /\ queue' = Tail(queue)
Fail == TellFirst("error") /\ queue' = <<>>

Drop ==
  /\ queue' = <<>>
  /\ lost' = lost \/ (queue # <<>> /\ lost' = lost \cup {Head(queue)})
  /\ UNCHANGED <<stream, told, torn>>
Forget == lost' = {} /\ UNCHANGED <<queue, stream, told, torn>>

Next == \/ \E e \in Entries : Give(e) \/ Send(e)
        \/ Done \/ Fail \/ Drop \/ Forget \/ torn'
Spec == Init /\ [][Next]_fifo
===============================================================================
