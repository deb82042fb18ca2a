--------------------------- MODULE WriteBufferProofs ---------------------------
(***************************************************************************)
(* Proofs about WriteBuffer, for any set of buffers in any number of       *)
(* parts: the queue is never stuck, a callback is called once, and the     *)
(* buffer implements the FIFO.                                             *)
(***************************************************************************)
EXTENDS WriteBuffer, SequenceTheorems, TLAPS

\* What is in the queue was given, once, and has not been called back, but
\* for the first entry while its callback runs.
Untold ==
  /\ \A e \in Entries \ given : told[e] = "nothing"
  /\ \A k \in DOMAIN write_queue : write_queue[k] \in given
  /\ \A k, l \in DOMAIN write_queue : write_queue[k] = write_queue[l] => k = l
  /\ \A k \in DOMAIN write_queue : frame = "none" \/ k # 1 => told[write_queue[k]] = "nothing"
  /\ frame # "none" => write_queue # <<>>

Busy == writes # {} \/ done # <<>>
Moving ==
  /\ is_write_active => Busy
  /\ write_queue # <<>> /\ frame = "none" => Busy

\* Until the caller tears it, one write is outstanding at most, and it is the
\* first entry's if is_write_active says so.
OneWrite ==
  \/ writes = {} /\ done = <<>>
  \/ done = <<>> /\ \E w \in Entries \X Frames : writes = {w}
  \/ writes = {} /\ \E ec \in Codes : done = <<ec>>
Active ==
  /\ write_queue # <<>> /\ frame = "none"
  /\ \/ writes = {<<Head(write_queue), "none">>} /\ done = <<>>
     \/ writes = {} /\ done = <<"error">>
     \/ writes = {} /\ done = <<"ok">> /\ Out(Head(write_queue)) = Parts
Whole ==
  ~torn => /\ OneWrite
           /\ is_write_active => Active
           /\ ~is_write_active /\ frame = "none" => write_queue = <<>>
           /\ frame # "none" => writes = {} /\ done = <<>> /\ ~is_write_active

BufferInv == TypeOK /\ Untold /\ Moving /\ Whole

LEMMA QueueOf ==
  ASSUME NEW S, NEW q \in Seq(S)
  PROVE  /\ Len(q) \in Nat /\ DOMAIN q = 1..Len(q)
         /\ \A k \in DOMAIN q : q[k] \in S
         /\ q # <<>> => /\ Head(q) = q[1] /\ 1 \in DOMAIN q /\ Head(q) \in S
                       /\ Tail(q) \in Seq(S) /\ DOMAIN Tail(q) = 1..(Len(q) - 1)
                       /\ \A k \in DOMAIN Tail(q) : /\ k + 1 \in DOMAIN q /\ k \in Nat
                                                    /\ Tail(q)[k] = q[k + 1]
         /\ \A e \in S : /\ Append(q, e) \in Seq(S) /\ Append(q, e) # <<>>
                         /\ DOMAIN Append(q, e) = 1..(Len(q) + 1)
                         /\ Append(q, e)[Len(q) + 1] = e
                         /\ \A k \in DOMAIN q : Append(q, e)[k] = q[k]
                         /\ Head(Append(q, e)) = IF q = <<>> THEN e ELSE Head(q)
<1>1. Len(q) \in Nat /\ DOMAIN q = 1..Len(q) /\ \A k \in DOMAIN q : q[k] \in S
  OBVIOUS
<1>2. ASSUME q # <<>>
      PROVE  /\ Head(q) = q[1] /\ 1 \in DOMAIN q /\ Head(q) \in S
             /\ Tail(q) \in Seq(S) /\ DOMAIN Tail(q) = 1..(Len(q) - 1)
             /\ \A k \in DOMAIN Tail(q) : /\ k + 1 \in DOMAIN q /\ k \in Nat
                                          /\ Tail(q)[k] = q[k + 1]
  <2>1. /\ Head(q) = q[1] /\ Head(q) \in S /\ Tail(q) \in Seq(S)
        /\ Len(q) \in Nat \ {0} /\ DOMAIN Tail(q) = 1..(Len(q) - 1)
        /\ \A k \in 1..(Len(q) - 1) : Tail(q)[k] = q[k + 1]
    BY <1>2, HeadTailProperties, EmptySeq
  <2> QED BY <1>1, <2>1
<1>3. ASSUME NEW e \in S
      PROVE  /\ Append(q, e) \in Seq(S) /\ Append(q, e) # <<>>
             /\ DOMAIN Append(q, e) = 1..(Len(q) + 1)
             /\ Append(q, e)[Len(q) + 1] = e
             /\ \A k \in DOMAIN q : Append(q, e)[k] = q[k]
             /\ Head(Append(q, e)) = IF q = <<>> THEN e ELSE Head(q)
  <2>1. /\ Append(q, e) \in Seq(S) /\ Append(q, e) # <<>>
        /\ DOMAIN Append(q, e) = 1..(Len(q) + 1)
        /\ Append(q, e)[Len(q) + 1] = e
        /\ \A k \in 1..Len(q) : Append(q, e)[k] = q[k]
    BY AppendProperties, EmptySeq
  <2>2. Head(Append(q, e)) = Append(q, e)[1] BY <2>1
  <2>3. CASE q = <<>> BY <2>1, <2>2, <2>3, EmptySeq
  <2>4. CASE q # <<>> BY <1>1, <1>2, <2>1, <2>2, <2>4
  <2> QED BY <1>1, <2>1, <2>3, <2>4
<1> QED BY <1>1, <1>2, <1>3

-------------------------------------------------------------------------------
LEMMA EmptyQueue ==
  DOMAIN <<>> = {} /\ <<>> \in Seq(Entries) /\ <<>> \in Seq(Codes)
  OBVIOUS

LEMMA InitInv == Init => BufferInv
<1> SUFFICES ASSUME Init PROVE BufferInv
  OBVIOUS
<1>1. TypeOK BY EmptyQueue DEF Init, TypeOK, Codes, Frames
<1>2. Untold BY EmptyQueue DEF Init, Untold
<1>3. Moving BY DEF Init, Moving
<1>4. Whole BY DEF Init, Whole, OneWrite
<1> QED BY <1>1, <1>2, <1>3, <1>4 DEF BufferInv

LEMMA EnsureWriteTypes ==
  ASSUME TypeOK, NEW active \in BOOLEAN, EnsureWrite(active), write_queue' \in Seq(Entries),
         frame' \in Frames
  PROVE  is_write_active' \in BOOLEAN /\ writes' \subseteq Entries \X Frames /\ torn' \in BOOLEAN
         /\ is_write_active' = (active \/ write_queue' # <<>>)
         /\ (writes' = writes \/ (writes' # {} /\ is_write_active'))
<1>1. CASE (active \/ write_queue' = <<>>) /\ is_write_active' = active /\ UNCHANGED <<writes, torn>>
  BY <1>1 DEF TypeOK
<1>2. CASE /\ ~active /\ write_queue' # <<>> /\ is_write_active' = TRUE
           /\ writes' = writes \cup {<<Head(write_queue'), frame'>>}
           /\ torn' = (torn \/ frame' # "none" \/ writes # {} \/ done' # <<>>)
  <2>1. Head(write_queue') \in Entries BY <1>2, QueueOf
  <2>2. torn' \in BOOLEAN BY <1>2
  <2>3. <<Head(write_queue'), frame'>> \in Entries \X Frames BY <2>1
  <2>4. writes' \subseteq Entries \X Frames /\ writes' # {} BY <1>2, <2>3 DEF TypeOK
  <2> QED BY <1>2, <2>2, <2>4
<1> QED BY <1>1, <1>2 DEF EnsureWrite

LEMMA WriteInv ==
  ASSUME BufferInv, NEW e \in Entries, Write(e) PROVE BufferInv'
<1>1. /\ TypeOK /\ write_queue \in Seq(Entries) /\ e \notin given /\ given' = given \cup {e}
      /\ write_queue' = Append(write_queue, e) /\ UNCHANGED <<done, frame, stream, told>>
      /\ EnsureWrite(is_write_active) /\ is_write_active \in BOOLEAN
  BY DEF BufferInv, TypeOK, Write
<1>2. /\ write_queue' \in Seq(Entries) /\ write_queue' # <<>>
      /\ Len(write_queue) \in Nat /\ DOMAIN write_queue = 1..Len(write_queue)
      /\ DOMAIN write_queue' = 1..(Len(write_queue) + 1)
      /\ write_queue'[Len(write_queue) + 1] = e
      /\ \A k \in DOMAIN write_queue : write_queue'[k] = write_queue[k]
      /\ Head(write_queue') = IF write_queue = <<>> THEN e ELSE Head(write_queue)
  BY <1>1, QueueOf
<1>3. TypeOK'
  <2>1. frame' \in Frames BY <1>1 DEF TypeOK
  <2> QED BY <1>1, <1>2, <2>1, EnsureWriteTypes DEF TypeOK
<1>4. \A k \in DOMAIN write_queue' : k \in DOMAIN write_queue \/ k = Len(write_queue) + 1
  BY <1>2
<1>5. \A k \in DOMAIN write_queue : k # Len(write_queue) + 1 BY <1>2
<1>6. write_queue = <<>> => Len(write_queue) = 0 BY EmptySeq
<1>7. Untold'
  <2>1. \A k \in DOMAIN write_queue : write_queue[k] # e BY <1>1 DEF BufferInv, Untold
  <2>2. told[e] = "nothing" BY <1>1 DEF BufferInv, Untold
  <2> QED BY <1>1, <1>2, <1>4, <1>5, <1>6, <2>1, <2>2 DEF BufferInv, Untold
<1>8. Moving' BY <1>1, <1>2 DEF BufferInv, Moving, Busy, EnsureWrite
<1>9. Whole'
  <2> SUFFICES ASSUME ~torn' PROVE Whole' BY DEF Whole
  <2>1. ~torn /\ Whole BY <1>1 DEF BufferInv, EnsureWrite, TypeOK
  <2>2. CASE is_write_active /\ UNCHANGED <<is_write_active, writes, torn>>
    BY <1>1, <1>2, <2>1, <2>2 DEF Whole, OneWrite, Active, Out
  <2>3. CASE /\ ~is_write_active /\ is_write_active' = TRUE
             /\ writes' = writes \cup {<<Head(write_queue'), frame'>>}
             /\ torn' = (torn \/ frame' # "none" \/ writes # {} \/ done' # <<>>)
    <3>1. /\ frame = "none" /\ writes' = {<<Head(write_queue'), "none">>} /\ done' = <<>>
          /\ Head(write_queue') \in Entries
      BY <1>1, <1>2, <2>3, QueueOf
    <3>2. writes' \in {{w} : w \in Entries \X Frames} BY <3>1 DEF Frames
    <3>3. OneWrite' BY <3>1, <3>2 DEF OneWrite
    <3> QED BY <1>1, <1>2, <2>3, <3>1, <3>3 DEF Whole, Active
  <2> QED BY <1>1, <1>2, <2>2, <2>3 DEF EnsureWrite
<1> QED BY <1>3, <1>7, <1>8, <1>9 DEF BufferInv

LEMMA ShutdownInv == ASSUME BufferInv, Shutdown PROVE BufferInv'
<1>1. /\ frame = "none" /\ write_queue' = <<>> /\ is_write_active' = FALSE
      /\ UNCHANGED <<writes, done, frame, given, stream, told, torn>>
  BY DEF Shutdown
<1>2. TypeOK' BY <1>1, EmptyQueue DEF BufferInv, TypeOK
<1>3. Untold' BY <1>1, EmptyQueue DEF BufferInv, Untold
<1>4. Moving' BY <1>1 DEF Moving
<1>5. Whole' BY <1>1 DEF BufferInv, Whole, OneWrite
<1> QED BY <1>2, <1>3, <1>4, <1>5 DEF BufferInv

LEMMA OnWriteDoneInv ==
  ASSUME BufferInv, OnWriteDone PROVE BufferInv'
<1>1. /\ TypeOK /\ done \in Seq(Codes) /\ done # <<>> /\ frame = "none"
      /\ write_queue \in Seq(Entries) /\ done' = Tail(done) /\ is_write_active' = FALSE
      /\ UNCHANGED <<write_queue, writes, given, stream, torn>>
  BY DEF BufferInv, TypeOK, OnWriteDone
<1>2. Head(done) \in Codes /\ done' \in Seq(Codes) BY <1>1, QueueOf
<1>3. ~torn => writes = {} /\ done' = <<>>
  <2> SUFFICES ASSUME ~torn PROVE writes = {} /\ done' = <<>> OBVIOUS
  <2>1. writes = {} /\ \E ec \in Codes : done = <<ec>>
    BY <1>1 DEF BufferInv, Whole, OneWrite
  <2> QED BY <1>1, <2>1
<1>4. CASE write_queue = <<>> /\ UNCHANGED <<frame, told>>
  <2>1. TypeOK' BY <1>1, <1>2, <1>4 DEF TypeOK
  <2>2. Untold' BY <1>1, <1>4 DEF BufferInv, Untold
  <2>3. Moving' BY <1>1, <1>4 DEF Moving
  <2>4. Whole' BY <1>1, <1>3, <1>4 DEF Whole, OneWrite
  <2> QED BY <2>1, <2>2, <2>3, <2>4 DEF BufferInv
<1>5. CASE /\ write_queue # <<>> /\ frame' = Head(done)
           /\ told' = [told EXCEPT ![Head(write_queue)] = Head(done)]
  <2>1. /\ Head(write_queue) = write_queue[1] /\ 1 \in DOMAIN write_queue
        /\ Head(write_queue) \in Entries
    BY <1>1, <1>5, QueueOf
  <2>2. TypeOK' BY <1>1, <1>2, <1>5, <2>1 DEF TypeOK, Frames
  <2>3. \A e \in Entries : e # Head(write_queue) => told'[e] = told[e]
    BY <1>1, <1>5 DEF TypeOK
  <2>4. \A k \in DOMAIN write_queue : write_queue[k] \in Entries BY <1>1, QueueOf
  <2>5. Untold'
    <3>1. \A k \in DOMAIN write_queue : k # 1 => write_queue[k] # Head(write_queue)
      BY <2>1 DEF BufferInv, Untold
    <3>2. \A k \in DOMAIN write_queue : k # 1 => told'[write_queue[k]] = "nothing"
      BY <1>1, <2>3, <2>4, <3>1 DEF BufferInv, Untold
    <3>3. frame' # "none" BY <1>2, <1>5 DEF Codes
    <3>4. \A e \in Entries \ given : told'[e] = "nothing"
      BY <1>1, <2>1, <2>3 DEF BufferInv, Untold
    <3> QED BY <1>1, <1>5, <3>2, <3>3, <3>4 DEF BufferInv, Untold
  <2>6. Moving' BY <1>1, <1>2, <1>5 DEF Moving, Codes
  <2>7. Whole' BY <1>1, <1>2, <1>3, <1>5 DEF Whole, OneWrite, Codes
  <2> QED BY <2>2, <2>5, <2>6, <2>7 DEF BufferInv
<1> QED BY <1>4, <1>5 DEF OnWriteDone

LEMMA CallbackReturnsInv ==
  ASSUME BufferInv, CallbackReturns PROVE BufferInv'
<1>1. /\ TypeOK /\ frame # "none" /\ frame' = "none" /\ write_queue \in Seq(Entries)
      /\ write_queue # <<>> /\ is_write_active \in BOOLEAN
      /\ UNCHANGED <<done, given, stream, told>>
  BY DEF BufferInv, TypeOK, Untold, CallbackReturns
<1>2. CASE /\ frame = "error" /\ write_queue' = <<>> /\ is_write_active' = FALSE
           /\ UNCHANGED <<writes, torn>>
  <2>1. TypeOK' BY <1>1, <1>2, EmptyQueue DEF TypeOK, Frames
  <2>2. Untold' BY <1>1, <1>2, EmptyQueue DEF BufferInv, Untold
  <2>3. Moving' BY <1>2 DEF Moving
  <2>4. Whole' BY <1>1, <1>2 DEF BufferInv, Whole, OneWrite
  <2> QED BY <2>1, <2>2, <2>3, <2>4 DEF BufferInv
<1>3. CASE frame = "ok" /\ write_queue' = Tail(write_queue) /\ EnsureWrite(is_write_active)
  <2>1. /\ write_queue' \in Seq(Entries) /\ Head(write_queue) = write_queue[1]
        /\ DOMAIN write_queue' = 1..(Len(write_queue) - 1) /\ 1 \in DOMAIN write_queue
        /\ \A k \in DOMAIN write_queue' : /\ k + 1 \in DOMAIN write_queue /\ k \in Nat
                                          /\ write_queue'[k] = write_queue[k + 1]
    BY <1>1, <1>3, QueueOf
  <2>2. TypeOK'
    <3>1. frame' \in Frames BY <1>1 DEF Frames
    <3> QED BY <1>1, <1>3, <2>1, <3>1, EnsureWriteTypes DEF TypeOK
  <2>3. \A k \in DOMAIN write_queue' : k + 1 # 1 /\ \A l \in Nat : k + 1 = l + 1 => k = l
    BY <2>1
  <2>4. Untold' BY <1>1, <2>1, <2>3 DEF BufferInv, Untold
  <2>5. Moving'
    <3>1. is_write_active => Busy BY DEF BufferInv, Moving
    <3>2. is_write_active' => Busy'
      BY <1>1, <1>3, <3>1, QueueOf DEF EnsureWrite, Busy
    <3>3. write_queue' # <<>> => is_write_active' BY <1>3 DEF EnsureWrite
    <3> QED BY <3>2, <3>3 DEF Moving
  <2>6. Whole'
    <3> SUFFICES ASSUME ~torn' PROVE Whole' BY DEF Whole
    <3>1. ~torn BY <1>1, <1>3 DEF EnsureWrite, TypeOK
    <3>2. writes = {} /\ done = <<>> /\ ~is_write_active
      BY <1>1, <3>1 DEF BufferInv, Whole
    <3>3. CASE write_queue' = <<>> /\ is_write_active' = FALSE /\ writes' = {}
      BY <1>1, <3>2, <3>3 DEF Whole, OneWrite
    <3>4. CASE write_queue' # <<>> /\ is_write_active' = TRUE /\ writes' = {<<Head(write_queue'), "none">>}
      <4>1. Head(write_queue') \in Entries BY <2>1, <3>4, QueueOf
      <4>2. writes' \in {{w} : w \in Entries \X Frames} BY <3>4, <4>1 DEF Frames
      <4>3. OneWrite' BY <1>1, <3>2, <4>2 DEF OneWrite
      <4> QED BY <1>1, <3>2, <3>4, <4>3 DEF Whole, Active
    <3>5. \/ write_queue' = <<>> /\ is_write_active' = FALSE /\ writes' = {}
          \/ /\ write_queue' # <<>> /\ is_write_active' = TRUE
             /\ writes' = {<<Head(write_queue'), "none">>}
      BY <1>1, <1>3, <3>2 DEF EnsureWrite
    <3> QED BY <3>3, <3>4, <3>5
  <2> QED BY <2>2, <2>4, <2>5, <2>6 DEF BufferInv
<1> QED BY <1>2, <1>3 DEF CallbackReturns

LEMMA SocketTakesInv ==
  ASSUME BufferInv, NEW w \in writes, SocketTakes(w) PROVE BufferInv'
<1>1. /\ TypeOK /\ w[1] \in Entries /\ stream' = Append(stream, w[1])
      /\ UNCHANGED <<write_queue, is_write_active, writes, done, frame, given, told, torn>>
  BY DEF BufferInv, SocketTakes, TypeOK
<1>2. TypeOK' BY <1>1, QueueOf DEF TypeOK
<1>3. Untold' /\ Moving' BY <1>1 DEF BufferInv, Untold, Moving, Busy
<1>4. Whole' BY <1>1 DEF BufferInv, Whole, OneWrite, Active
<1> QED BY <1>2, <1>3, <1>4 DEF BufferInv

LEMMA EndsInv ==
  ASSUME BufferInv, NEW w \in writes, WriteSucceeds(w) \/ WriteFails(w) PROVE BufferInv'
<1>1. PICK ec \in Codes : Ends(w, ec) /\ (ec = "ok" => Out(w[1]) = Parts)
  BY DEF WriteSucceeds, WriteFails, Codes
<1>2. /\ TypeOK /\ writes' = writes \ {w} /\ done' = Append(done, ec)
      /\ UNCHANGED <<write_queue, is_write_active, frame, given, stream, told, torn>>
      /\ done \in Seq(Codes)
  BY <1>1 DEF BufferInv, Ends, TypeOK
<1>3. done' \in Seq(Codes) /\ done' # <<>> BY <1>2, QueueOf
<1>4. TypeOK' BY <1>2, <1>3 DEF TypeOK
<1>5. Untold' /\ Moving' BY <1>2, <1>3 DEF BufferInv, Untold, Moving, Busy
<1>6. Whole'
  <2> SUFFICES ASSUME ~torn PROVE Whole' BY <1>2 DEF Whole
  <2>1. Whole /\ done = <<>> /\ writes = {w} BY <1>2 DEF BufferInv, Whole, OneWrite
  <2>2. writes' = {} /\ done' = <<ec>> BY <1>2, <2>1
  <2>4. is_write_active' => Active'
    <3> SUFFICES ASSUME is_write_active PROVE Active' BY <1>2
    <3>1. write_queue # <<>> /\ frame = "none" /\ w[1] = Head(write_queue)
      BY <2>1 DEF Whole, Active
    <3>2. write_queue' = write_queue /\ frame' = frame /\ stream' = stream BY <1>2
    <3>3. ec = "ok" => Out(Head(write_queue)) = Parts BY <1>1, <3>1
    <3>4. ec = "ok" \/ ec = "error" BY DEF Codes
    <3> QED BY <2>2, <3>1, <3>2, <3>3, <3>4 DEF Active, Out
  <2> QED BY <1>2, <2>1, <2>2, <2>4 DEF Whole, OneWrite
<1> QED BY <1>4, <1>5, <1>6 DEF BufferInv

LEMMA NextInv == BufferInv /\ [Next]_vars => BufferInv'
<1> SUFFICES ASSUME BufferInv, [Next]_vars PROVE BufferInv'
  OBVIOUS
<1>1. CASE Shutdown BY <1>1, ShutdownInv
<1>2. CASE Handler BY <1>2, OnWriteDoneInv, CallbackReturnsInv DEF Handler
<1>3. CASE Socket BY <1>3, SocketTakesInv, EndsInv DEF Socket
<1>4. ASSUME NEW e \in Entries, Write(e) PROVE BufferInv' BY <1>4, WriteInv
<1>5. CASE UNCHANGED vars
  BY <1>5 DEF vars, BufferInv, TypeOK, Untold, Moving, Busy, Whole, OneWrite, Active, Out
<1> QED BY <1>1, <1>2, <1>3, <1>4, <1>5 DEF Next

LEMMA BufferCorrect == Spec => []BufferInv
  BY InitInv, NextInv, PTL DEF Spec

(***************************************************************************)
(* The types of the buffer's state.                                        *)
(***************************************************************************)
THEOREM BufferTypeCorrect == Spec => []TypeOK
<1>1. BufferInv => TypeOK BY DEF BufferInv
<1> QED BY <1>1, BufferCorrect, PTL

(***************************************************************************)
(* The queue is never stuck: whatever the caller does, an entry that waits *)
(* has a write in progress or an onWriteDone ahead of it, and              *)
(* is_write_active is not left TRUE with nothing to reset it.              *)
(***************************************************************************)
THEOREM QueueNeverStuck == Spec => []NeverStuck
<1>1. BufferInv => NeverStuck BY DEF BufferInv, Moving, Busy, NeverStuck
<1> QED BY <1>1, BufferCorrect, PTL

(***************************************************************************)
(* onWriteDone, which does not know whose write is over, never calls an    *)
(* entry back a second time, however late it comes.                        *)
(***************************************************************************)
THEOREM CalledBackOnce == Spec => CallbackOnce
<1>1. BufferInv /\ [Next]_vars
        => [OnWriteDone /\ write_queue # <<>> => told[Head(write_queue)] = "nothing"]_vars
  <2> SUFFICES ASSUME BufferInv, OnWriteDone, write_queue # <<>>
               PROVE  told[Head(write_queue)] = "nothing"
    OBVIOUS
  <2>1. Head(write_queue) = write_queue[1] /\ 1 \in DOMAIN write_queue
    BY QueueOf DEF BufferInv, TypeOK
  <2> QED BY <2>1 DEF BufferInv, Untold, OnWriteDone
<1> QED BY <1>1, BufferCorrect, PTL DEF Spec, CallbackOnce

-------------------------------------------------------------------------------
(***************************************************************************)
(* The refinement: each step of the buffer is one of the FIFO, or leaves   *)
(* it alone.                                                               *)
(***************************************************************************)
LEMMA WriteGives ==
  ASSUME BufferInv, NEW e \in Entries, Write(e) PROVE F!Next
<1>1. CASE torn' BY <1>1 DEF F!Next
<1>2. CASE ~torn'
  <2>1. /\ frame = "none" /\ frame' = "none" /\ write_queue' = Append(write_queue, e)
        /\ UNCHANGED <<stream, told>> /\ ~torn
        /\ lostBar = {} /\ lostBar' = {}
    <3>1. /\ EnsureWrite(is_write_active) /\ write_queue' = Append(write_queue, e)
          /\ UNCHANGED <<done, frame, stream, told>> /\ write_queue' # <<>>
          /\ is_write_active \in BOOLEAN /\ torn \in BOOLEAN
      BY QueueOf DEF Write, BufferInv, TypeOK
    <3>2. ~torn /\ is_write_active' = TRUE BY <1>2, <3>1 DEF EnsureWrite
    <3>3. CASE is_write_active BY <3>1, <3>2, <3>3 DEF BufferInv, Whole, Active, lostBar
    <3>4. CASE ~is_write_active /\ torn' = (torn \/ frame' # "none" \/ writes # {} \/ done' # <<>>)
      BY <1>2, <3>1, <3>2, <3>4 DEF lostBar
    <3> QED BY <3>1, <3>3, <3>4 DEF EnsureWrite
  <2>2. queueBar' = Append(queueBar, e) BY <2>1 DEF queueBar
  <2>3. torn' = torn BY <1>2, <2>1 DEF BufferInv, TypeOK, Write, EnsureWrite
  <2>4. F!Give(e) BY <2>1, <2>2, <2>3 DEF F!Give
  <2> QED BY <2>4 DEF F!Next
<1> QED BY <1>1, <1>2

LEMMA ShutdownDrops ==
  ASSUME BufferInv, Shutdown PROVE F!Next
<1>1. /\ frame = "none" /\ frame' = "none" /\ queueBar = write_queue /\ queueBar' = <<>>
      /\ lostBar' = {w[1] : w \in writes} /\ UNCHANGED <<writes, done, stream, told, torn>>
  BY DEF Shutdown, queueBar, lostBar
<1>2. CASE torn BY <1>1, <1>2 DEF F!Next
<1>3. CASE ~torn
  <2>1. lostBar' = lostBar \/ (write_queue # <<>> /\ lostBar' = lostBar \cup {Head(write_queue)})
    BY <1>1, <1>3 DEF BufferInv, Whole, Active, lostBar
  <2> QED BY <1>1, <2>1 DEF F!Next, F!Drop
<1> QED BY <1>2, <1>3

\* The two modules count alike.
LEMMA SameOut == \A e : F!Out(e) = Out(e)
BY DEF F!Out, Out, F!Cardinality, Cardinality

LEMMA OnWriteDoneTells ==
  ASSUME BufferInv, OnWriteDone PROVE [F!Next]_(F!fifo)
<1>1. /\ frame = "none" /\ done # <<>> /\ done \in Seq(Codes) /\ queueBar = write_queue
      /\ write_queue \in Seq(Entries) /\ is_write_active' = FALSE
      /\ UNCHANGED <<write_queue, writes, stream, torn>>
  BY DEF OnWriteDone, BufferInv, TypeOK, queueBar
<1>2. CASE torn BY <1>1, <1>2 DEF F!Next
<1>3. CASE ~torn /\ write_queue = <<>> /\ UNCHANGED <<frame, told>>
  <2>1. lostBar' = lostBar BY <1>1, <1>3 DEF BufferInv, Whole, Active, lostBar
  <2> QED BY <1>1, <1>3, <2>1 DEF F!fifo, queueBar
<1>4. CASE /\ ~torn /\ write_queue # <<>> /\ frame' = Head(done)
           /\ told' = [told EXCEPT ![Head(write_queue)] = Head(done)]
  <2>1. Active BY <1>1, <1>4 DEF BufferInv, Whole
  <2>2. /\ writes = {} /\ lostBar = {} /\ lostBar' = {}
        /\ \/ Head(done) = "error"
           \/ Head(done) = "ok" /\ Out(Head(write_queue)) = Parts
    BY <1>1, <2>1 DEF Active, lostBar
  <2>3. told[Head(write_queue)] = "nothing"
    <3>1. Head(write_queue) = write_queue[1] /\ 1 \in DOMAIN write_queue
      BY <1>1, <1>4, QueueOf
    <3> QED BY <1>1, <3>1 DEF BufferInv, Untold
  <2>4. CASE Head(done) = "error"
    <3>1. queueBar' = <<>> BY <1>4, <2>4 DEF queueBar
    <3> QED BY <1>1, <1>4, <2>2, <2>3, <2>4, <3>1 DEF F!Next, F!Fail, F!TellFirst
  <2>5. CASE Head(done) = "ok" /\ Out(Head(write_queue)) = Parts
    <3>1. queueBar' = Tail(queueBar) BY <1>1, <1>4, <2>5 DEF queueBar
    <3> QED BY <1>1, <1>4, <2>2, <2>3, <2>5, <3>1, SameOut DEF F!Next, F!Done, F!TellFirst
  <2> QED BY <2>2, <2>4, <2>5
<1> QED BY <1>2, <1>3, <1>4 DEF OnWriteDone, BufferInv, TypeOK

LEMMA CallbackReturnsStutters ==
  ASSUME BufferInv, CallbackReturns PROVE [F!Next]_(F!fifo)
<1>1. /\ frame \in Codes /\ frame' = "none" /\ UNCHANGED <<stream, told>>
      /\ torn \in BOOLEAN /\ is_write_active \in BOOLEAN
  BY DEF CallbackReturns, BufferInv, TypeOK, Frames
<1>2. CASE torn' BY <1>2 DEF F!Next
<1>3. CASE ~torn'
  <2>1. ~torn BY <1>1, <1>3 DEF CallbackReturns, EnsureWrite
  <2>2. writes = {} /\ ~is_write_active /\ lostBar = {}
    BY <1>1, <2>1 DEF BufferInv, Whole, Codes, lostBar
  <2>3. queueBar' = queueBar BY <1>1 DEF CallbackReturns, queueBar
  <2>4. lostBar' = {} BY <1>1, <2>2 DEF CallbackReturns, EnsureWrite, lostBar
  <2>5. torn' = torn BY <1>3, <2>1, <1>1 DEF CallbackReturns, EnsureWrite
  <2> QED BY <1>1, <2>2, <2>3, <2>4, <2>5 DEF F!fifo
<1> QED BY <1>2, <1>3

LEMMA SocketTakesSends ==
  ASSUME BufferInv, NEW w \in writes, SocketTakes(w) PROVE F!Next
<1>1. /\ w[1] \in Entries /\ Out(w[1]) < Parts /\ stream' = Append(stream, w[1])
      /\ UNCHANGED <<write_queue, is_write_active, writes, frame, told, torn>>
  BY DEF SocketTakes, BufferInv, TypeOK
<1>2. queueBar' = queueBar /\ lostBar' = lostBar BY <1>1 DEF queueBar, lostBar
<1>3. CASE torn BY <1>1, <1>3 DEF F!Next
<1>4. CASE ~torn
  <2>1. w[1] \in lostBar \/ (queueBar # <<>> /\ w[1] = Head(queueBar))
    BY <1>1, <1>4 DEF BufferInv, Whole, Active, lostBar, queueBar
  <2>2. F!Send(w[1]) BY <1>1, <1>2, <2>1, SameOut DEF F!Send
  <2> QED BY <1>1, <2>2 DEF F!Next
<1> QED BY <1>3, <1>4

LEMMA EndsForgets ==
  ASSUME BufferInv, NEW w \in writes, WriteSucceeds(w) \/ WriteFails(w)
  PROVE  [F!Next]_(F!fifo)
<1>1. /\ w \in writes /\ writes' = writes \ {w}
      /\ UNCHANGED <<write_queue, is_write_active, frame, stream, told, torn>>
  BY DEF WriteSucceeds, WriteFails, Ends
<1>2. queueBar' = queueBar BY <1>1 DEF queueBar
<1>3. CASE torn BY <1>1, <1>3 DEF F!Next
<1>4. CASE ~torn
  <2>1. writes' = {} BY <1>1, <1>4 DEF BufferInv, Whole, OneWrite
  <2>2. lostBar' = {} BY <2>1 DEF lostBar
  <2> QED BY <1>1, <1>2, <2>2 DEF F!Next, F!Forget
<1> QED BY <1>3, <1>4

(***************************************************************************)
(* WriteBuffer implements WriteFifo: as long as the caller keeps to it,    *)
(* buffers go out whole and in order, "ok" is said of a buffer that has    *)
(* gone out, and an error is told once.                                    *)
(***************************************************************************)
THEOREM ImplementsFifo == Spec => Fifo
<1>1. Init => F!Init
  BY DEF Init, F!Init, queueBar, lostBar
<1>2. BufferInv /\ [Next]_vars => [F!Next]_(F!fifo)
  <2> SUFFICES ASSUME BufferInv, [Next]_vars PROVE [F!Next]_(F!fifo)
    OBVIOUS
  <2>1. CASE Shutdown BY <2>1, ShutdownDrops
  <2>2. CASE Handler BY <2>2, OnWriteDoneTells, CallbackReturnsStutters DEF Handler
  <2>3. CASE Socket BY <2>3, SocketTakesSends, EndsForgets DEF Socket
  <2>4. ASSUME NEW e \in Entries, Write(e) PROVE F!Next BY <2>4, WriteGives
  <2>5. CASE UNCHANGED vars BY <2>5 DEF vars, F!fifo, queueBar, lostBar
  <2> QED BY <2>1, <2>2, <2>3, <2>4, <2>5 DEF Next
<1> QED BY <1>1, <1>2, BufferCorrect, PTL DEF Spec, Fifo, F!Spec
===============================================================================
