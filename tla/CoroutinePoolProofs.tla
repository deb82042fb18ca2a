-------------------------- MODULE CoroutinePoolProofs --------------------------
(***************************************************************************)
(* Proofs about CoroutinePool, for any number of workers and jobs and any  *)
(* nesting of calls.  The invariant is TypeOK, ResumedOnce and             *)
(* NoIdleWorker; ResumedOnce is split by the state it is about, so that    *)
(* what a call does to the queue of the io_service (IoOK), to free_ctx     *)
(* (FreeOK) and to the stack (StackOK) is shown once each.                 *)
(***************************************************************************)
EXTENDS CoroutinePool, SequenceTheorems, FiniteSetTheorems, TLAPS

Frames == RunQueueFrame \cup CtxHolderFrame
Has(q, w) == \E k \in DOMAIN q : q[k] = w
Distinct(q) == \A k, l \in DOMAIN q : q[k] = q[l] => k = l
Ctx(s, k) == k \in DOMAIN s /\ s[k].call = "CtxHolder"

IoOK(p, q) == (\A w \in Workers : p[w] \in Queued <=> Has(q, w)) /\ Distinct(q)
FreeOK(p, f) == \A w \in Workers : p[w] = "asleep" <=> w \in f
StackOK(p, s) ==
  /\ \A k \in DOMAIN s : Ctx(s, k) => p[s[k].ctx] = "job"
  /\ \A k, l \in DOMAIN s : Ctx(s, k) /\ Ctx(s, l) /\ s[k].ctx = s[l].ctx => k = l
NotOn(w, s) == \A k \in DOMAIN s : Ctx(s, k) => s[k].ctx # w

LEMMA ResumedOnceParts ==
  ResumedOnce <=> IoOK(pc, io) /\ FreeOK(pc, free_ctx) /\ StackOK(pc, frames)
  BY DEF ResumedOnce, IoOK, FreeOK, StackOK, Has, Distinct, Ctx, OnStack

(***************************************************************************)
(* Sequences: a queue without duplicates, a stack.                         *)
(***************************************************************************)
LEMMA QueueAppend ==
  ASSUME NEW S, NEW q \in Seq(S), NEW e \in S
  PROVE  /\ Append(q, e) \in Seq(S)
         /\ \A w : Has(Append(q, e), w) <=> Has(q, w) \/ w = e
         /\ Distinct(q) /\ ~Has(q, e) => Distinct(Append(q, e))
<1> DEFINE a == Append(q, e)
<1>1. /\ a \in Seq(S) /\ Len(q) \in Nat /\ DOMAIN q = 1..Len(q)
      /\ DOMAIN a = 1..(Len(q) + 1)
      /\ a[Len(q) + 1] = e /\ \A k \in 1..Len(q) : a[k] = q[k]
  BY AppendProperties
<1> HIDE DEF a
<1>2. \A k \in DOMAIN a : k \in DOMAIN q \/ k = Len(q) + 1 BY <1>1
<1>3. \A k \in DOMAIN q : k \in DOMAIN a /\ a[k] = q[k] /\ k # Len(q) + 1 BY <1>1
<1>4. Len(q) + 1 \in DOMAIN a BY <1>1
<1>5. \A w : Has(a, w) <=> Has(q, w) \/ w = e BY <1>1, <1>2, <1>3, <1>4 DEF Has
<1>6. Distinct(q) /\ ~Has(q, e) => Distinct(a) BY <1>1, <1>2, <1>3 DEF Has, Distinct
<1> QED BY <1>1, <1>5, <1>6 DEF a

LEMMA QueueTail ==
  ASSUME NEW S, NEW q \in Seq(S), q # <<>>, Distinct(q)
  PROVE  /\ Head(q) \in S /\ Tail(q) \in Seq(S) /\ Has(q, Head(q))
         /\ \A w : Has(Tail(q), w) <=> Has(q, w) /\ w # Head(q)
         /\ Distinct(Tail(q))
<1> DEFINE t == Tail(q)
<1>1. /\ t \in Seq(S) /\ Len(q) \in Nat \ {0} /\ DOMAIN q = 1..Len(q)
      /\ DOMAIN t = 1..(Len(q) - 1) /\ q[1] = Head(q) /\ Head(q) \in S
      /\ \A k \in 1..(Len(q) - 1) : t[k] = q[k + 1]
  BY HeadTailProperties, EmptySeq
<1> HIDE DEF t
<1>2. \A k \in DOMAIN t : k + 1 \in DOMAIN q /\ t[k] = q[k + 1] /\ k + 1 # 1 BY <1>1
<1>3. \A k \in DOMAIN q : k # 1 => k - 1 \in DOMAIN t /\ t[k - 1] = q[k] BY <1>1
<1>4. 1 \in DOMAIN q BY <1>1
<1>5. ASSUME NEW w PROVE Has(t, w) <=> Has(q, w) /\ w # Head(q)
  <2>1. ASSUME Has(t, w) PROVE Has(q, w) /\ w # Head(q)
    <3>1. PICK k \in DOMAIN t : t[k] = w BY <2>1 DEF Has
    <3> QED BY <1>1, <1>2, <1>4, <3>1 DEF Has, Distinct
  <2>2. ASSUME Has(q, w), w # Head(q) PROVE Has(t, w)
    <3>1. PICK k \in DOMAIN q : q[k] = w BY <2>2 DEF Has
    <3> QED BY <1>1, <1>3, <2>2, <3>1 DEF Has
  <2> QED BY <2>1, <2>2
<1>6. Distinct(t)
  <2> SUFFICES ASSUME NEW k \in DOMAIN t, NEW l \in DOMAIN t, t[k] = t[l] PROVE k = l
    BY DEF Distinct
  <2>1. k + 1 = l + 1 BY <1>2 DEF Distinct
  <2>2. k \in Nat /\ l \in Nat BY <1>1
  <2> QED BY <2>1, <2>2
<1>7. Has(q, Head(q)) BY <1>1, <1>4 DEF Has
<1> QED BY <1>1, <1>5, <1>6, <1>7 DEF t

LEMMA StackPush ==
  ASSUME NEW s \in Seq(Frames), NEW f \in Frames
  PROVE  /\ <<f>> \o s \in Seq(Frames) /\ <<f>> \o s # <<>>
         /\ DOMAIN (<<f>> \o s) = 1..(Len(s) + 1) /\ DOMAIN s = 1..Len(s) /\ Len(s) \in Nat
         /\ (<<f>> \o s)[1] = f
         /\ \A k \in DOMAIN s : (<<f>> \o s)[k + 1] = s[k]
<1>1. <<f>> \in Seq(Frames) /\ Len(<<f>>) = 1 /\ Len(s) \in Nat /\ DOMAIN s = 1..Len(s)
      /\ <<f>>[1] = f
  OBVIOUS
<1>2. /\ <<f>> \o s \in Seq(Frames) /\ Len(<<f>> \o s) = 1 + Len(s)
      /\ \A i \in 1..(1 + Len(s)) : (<<f>> \o s)[i] = IF i <= 1 THEN <<f>>[i] ELSE s[i - 1]
  BY <1>1, ConcatProperties
<1>3. DOMAIN (<<f>> \o s) = 1..(Len(s) + 1) BY <1>1, <1>2
<1>4. (<<f>> \o s)[1] = f BY <1>1, <1>2
<1>5. \A k \in DOMAIN s : (<<f>> \o s)[k + 1] = s[k] BY <1>1, <1>2
<1>6. <<f>> \o s # <<>> BY <1>1, <1>2, EmptySeq
<1> QED BY <1>1, <1>2, <1>3, <1>4, <1>5, <1>6

\* A RunQueue() call is pushed, or a worker that is in its job and not on the stack.
LEMMA StackPushOK ==
  ASSUME NEW s \in Seq(Frames), NEW f \in Frames, NEW p, StackOK(p, s),
         f.call = "CtxHolder" => p[f.ctx] = "job" /\ NotOn(f.ctx, s)
  PROVE  StackOK(p, <<f>> \o s)
<1> DEFINE t == <<f>> \o s
<1>1. /\ DOMAIN t = 1..(Len(s) + 1) /\ DOMAIN s = 1..Len(s) /\ Len(s) \in Nat
      /\ t[1] = f /\ \A k \in DOMAIN s : t[k + 1] = s[k]
  BY StackPush
<1> HIDE DEF t
<1>2. \A k \in DOMAIN t : k = 1 \/ (k - 1 \in DOMAIN s /\ t[k] = s[k - 1]) BY <1>1
<1>3. \A k \in DOMAIN t : Ctx(t, k) => p[t[k].ctx] = "job"
  BY <1>1, <1>2 DEF StackOK, Ctx
<1>4. ASSUME NEW k \in DOMAIN t, NEW l \in DOMAIN t, Ctx(t, k), Ctx(t, l), t[k].ctx = t[l].ctx
      PROVE  k = l
  <2>1. k \in Nat /\ l \in Nat BY <1>1
  <2>2. CASE k = 1 /\ l # 1 BY <1>1, <1>2, <1>4, <2>2 DEF NotOn, Ctx
  <2>3. CASE k # 1 /\ l = 1 BY <1>1, <1>2, <1>4, <2>3 DEF NotOn, Ctx
  <2>4. CASE k # 1 /\ l # 1
    <3>1. k - 1 = l - 1 BY <1>2, <1>4, <2>4 DEF StackOK, Ctx
    <3> QED BY <2>1, <3>1
  <2> QED BY <2>2, <2>3, <2>4
<1> QED BY <1>3, <1>4 DEF StackOK, t

LEMMA StackPop ==
  ASSUME NEW s \in Seq(Frames), s # <<>>, NEW p, StackOK(p, s)
  PROVE  /\ Head(s) \in Frames /\ Tail(s) \in Seq(Frames) /\ StackOK(p, Tail(s))
         /\ Head(s).call = "CtxHolder" => p[Head(s).ctx] = "job" /\ NotOn(Head(s).ctx, Tail(s))
<1> DEFINE t == Tail(s)
<1>1. /\ t \in Seq(Frames) /\ Len(s) \in Nat \ {0} /\ DOMAIN s = 1..Len(s)
      /\ DOMAIN t = 1..(Len(s) - 1) /\ s[1] = Head(s) /\ Head(s) \in Frames
      /\ \A k \in 1..(Len(s) - 1) : t[k] = s[k + 1]
  BY HeadTailProperties, EmptySeq
<1> HIDE DEF t
<1>2. \A k \in DOMAIN t : k \in Nat /\ k + 1 \in DOMAIN s /\ t[k] = s[k + 1] /\ k + 1 # 1
  BY <1>1
<1>3. 1 \in DOMAIN s BY <1>1
<1>4. \A k \in DOMAIN t : Ctx(t, k) => Ctx(s, k + 1) BY <1>2 DEF Ctx
<1>5. StackOK(p, t)
  <2>1. \A k \in DOMAIN t : Ctx(t, k) => p[t[k].ctx] = "job" BY <1>2, <1>4 DEF StackOK
  <2>2. ASSUME NEW k \in DOMAIN t, NEW l \in DOMAIN t, Ctx(t, k), Ctx(t, l), t[k].ctx = t[l].ctx
        PROVE  k = l
    <3>1. k + 1 = l + 1 BY <1>2, <1>4, <2>2 DEF StackOK
    <3> QED BY <1>2, <3>1
  <2> QED BY <2>1, <2>2 DEF StackOK
<1>6. Head(s).call = "CtxHolder" => p[Head(s).ctx] = "job" /\ NotOn(Head(s).ctx, t)
  <2> SUFFICES ASSUME Head(s).call = "CtxHolder"
               PROVE  p[Head(s).ctx] = "job" /\ NotOn(Head(s).ctx, t)
    OBVIOUS
  <2>1. Ctx(s, 1) BY <1>1, <1>3 DEF Ctx
  <2>2. p[Head(s).ctx] = "job" BY <1>1, <1>3, <2>1 DEF StackOK
  <2>3. ASSUME NEW k \in DOMAIN t, Ctx(t, k), t[k].ctx = Head(s).ctx PROVE FALSE
    BY <1>1, <1>2, <1>3, <1>4, <2>1, <2>3 DEF StackOK
  <2> QED BY <2>2, <2>3 DEF NotOn
<1> QED BY <1>1, <1>5, <1>6 DEF t

\* What becomes of workers that are not on the stack, or do not leave their job.
LEMMA StackOther ==
  ASSUME NEW s, NEW p, NEW d, StackOK(p, s),
         \A k \in DOMAIN s : Ctx(s, k) => d[s[k].ctx] = p[s[k].ctx]
  PROVE  StackOK(d, s)
  BY DEF StackOK

-------------------------------------------------------------------------------
(***************************************************************************)
(* ResumeCoroutine: a sleeping worker, if there is one, is on its way.     *)
(***************************************************************************)
LEMMA ComingFinite == IsFiniteSet(Coming) /\ Cardinality(Coming) \in Nat
<1>1. Coming \in SUBSET Workers BY DEF Coming
<1> QED BY <1>1, PoolFinite, FS_Subset, FS_CardinalityType

LEMMA ComingFinitePrime == IsFiniteSet(Coming') /\ Cardinality(Coming') \in Nat
<1>1. Coming' \in SUBSET Workers BY DEF Coming
<1> QED BY <1>1, PoolFinite, FS_Subset, FS_CardinalityType

LEMMA ProcessedCounted == ASSUME TypeOK PROVE handlers_processed \in Nat
<1>1. processed \in SUBSET Jobs BY DEF TypeOK
<1> QED BY <1>1, PoolFinite, FS_Subset, FS_CardinalityType DEF handlers_processed

LEMMA ResumeFacts ==
  ASSUME TypeOK, ResumedOnce, ResumeCoroutine
  PROVE  /\ pc' \in [Workers -> Places] /\ io' \in Seq(Workers) /\ free_ctx' \subseteq Workers
         /\ IoOK(pc', io') /\ FreeOK(pc', free_ctx')
         /\ \A w \in Workers : pc'[w] = pc[w] \/ (pc[w] = "asleep" /\ pc'[w] = "woken")
         /\ free_ctx' # {} => Cardinality(Coming') = Cardinality(Coming) + 1
<1>1. /\ pc \in [Workers -> Places] /\ io \in Seq(Workers) /\ free_ctx \subseteq Workers
      /\ IoOK(pc, io) /\ FreeOK(pc, free_ctx)
  BY ResumedOnceParts DEF TypeOK
<1>2. CASE free_ctx = {} /\ UNCHANGED <<free_ctx, pc, io>>
  BY <1>1, <1>2
<1>3. ASSUME NEW w \in free_ctx, free_ctx' = free_ctx \ {w},
             pc' = [pc EXCEPT ![w] = "woken"], io' = Append(io, w)
      PROVE  /\ pc' \in [Workers -> Places] /\ io' \in Seq(Workers)
             /\ free_ctx' \subseteq Workers
             /\ IoOK(pc', io') /\ FreeOK(pc', free_ctx')
             /\ \A v \in Workers : pc'[v] = pc[v] \/ (pc[v] = "asleep" /\ pc'[v] = "woken")
             /\ Cardinality(Coming') = Cardinality(Coming) + 1
  <2>1. w \in Workers /\ pc[w] = "asleep" BY <1>1 DEF FreeOK
  <2>2. ~Has(io, w) BY <1>1, <2>1 DEF IoOK, Queued
  <2>3. /\ io' \in Seq(Workers) /\ Distinct(io')
        /\ \A v : Has(io', v) <=> Has(io, v) \/ v = w
    BY <1>1, <1>3, <2>1, <2>2, QueueAppend DEF IoOK
  <2>4. pc' \in [Workers -> Places] BY <1>1, <1>3 DEF Places, Queued
  <2>5. \A v \in Workers : pc'[v] = IF v = w THEN "woken" ELSE pc[v] BY <1>1, <1>3
  <2>6. IoOK(pc', io') BY <1>1, <2>3, <2>5 DEF IoOK, Queued
  <2>7. FreeOK(pc', free_ctx') BY <1>1, <1>3, <2>5 DEF FreeOK
  <2>8. Coming' = Coming \cup {w} /\ w \notin Coming BY <2>1, <2>5 DEF Coming
  <2>9. Cardinality(Coming') = Cardinality(Coming) + 1 BY <2>8, ComingFinite, FS_AddElement
  <2>10. free_ctx' \subseteq Workers BY <1>1, <1>3
  <2> QED BY <2>1, <2>3, <2>4, <2>5, <2>6, <2>7, <2>9, <2>10
<1> QED BY <1>2, <1>3 DEF ResumeCoroutine

LEMMA ResumeKeepsStack ==
  ASSUME TypeOK, ResumedOnce, ResumeCoroutine, NEW s, StackOK(pc, s),
         \A k \in DOMAIN s : Ctx(s, k) => s[k].ctx \in Workers
  PROVE  StackOK(pc', s)
<1>1. \A k \in DOMAIN s : Ctx(s, k) => pc'[s[k].ctx] = pc[s[k].ctx]
  BY ResumeFacts DEF StackOK
<1> QED BY <1>1, StackOther

LEMMA StackWorkers ==
  ASSUME NEW s \in Seq(Frames) PROVE \A k \in DOMAIN s : Ctx(s, k) => s[k].ctx \in Workers
  BY DEF Ctx, Frames, RunQueueFrame, CtxHolderFrame

LEMMA BeginRunQueueFacts ==
  ASSUME TypeOK, ResumedOnce, NEW n \in Nat, NEW h \in Jobs \cup {None}, BeginRunQueue(n, h)
  PROVE  frames' \in Seq(Frames) /\ StackOK(pc', frames') /\ ResumeCoroutine
<1> DEFINE f == [call |-> "RunQueue", at |-> "run_one", want |-> handlers_processed + n,
                 handler |-> h]
<1>1. f \in Frames /\ f.call = "RunQueue"
  BY ProcessedCounted DEF Frames, RunQueueFrame
<1>2. frames' = <<f>> \o frames /\ ResumeCoroutine BY DEF BeginRunQueue
<1> HIDE DEF f
<1>3. frames \in Seq(Frames) /\ StackOK(pc, frames)
  BY ResumedOnceParts DEF TypeOK, Frames
<1>4. StackOK(pc', frames) BY <1>2, <1>3, ResumeKeepsStack, StackWorkers
<1> QED BY <1>1, <1>2, <1>3, <1>4, StackPush, StackPushOK

LEMMA ResumedOncePrime ==
  ASSUME IoOK(pc', io'), FreeOK(pc', free_ctx'), StackOK(pc', frames') PROVE ResumedOnce'
  BY DEF ResumedOnce, IoOK, FreeOK, StackOK, Has, Distinct, Ctx, OnStack

-------------------------------------------------------------------------------
PoolInv == TypeOK /\ ResumedOnce /\ NoIdleWorker

LEMMA QueueLength ==
  ASSUME NEW q \in Seq(Jobs), NEW j \in Jobs
  PROVE  /\ Append(q, j) \in Seq(Jobs) /\ Len(Append(q, j)) = Len(q) + 1 /\ Len(q) \in Nat
         /\ q # <<>> => /\ Head(q) \in Jobs /\ Tail(q) \in Seq(Jobs)
                       /\ Len(Tail(q)) = Len(q) - 1
  OBVIOUS

\* What the four calls leave to show: they change no worker but the one resumed.
LEMMA CallKeeps ==
  ASSUME PoolInv, ResumeCoroutine, UNCHANGED <<job, processed>>,
         frames' \in Seq(Frames), StackOK(pc', frames'),
         handler_queue' \in Seq(Jobs), given' \subseteq Jobs, shutdown' \in BOOLEAN,
         shutdown' \/ (Len(handler_queue') <= Len(handler_queue) + 1 /\ ~shutdown)
  PROVE  PoolInv'
<1>1. TypeOK /\ ResumedOnce /\ NoIdleWorker BY DEF PoolInv
<1>2. \A w \in Workers : pc'[w] \in InJob <=> pc[w] \in InJob
  BY <1>1, ResumeFacts DEF InJob
<1>3. TypeOK' BY <1>1, <1>2, ResumeFacts DEF TypeOK, Frames
<1>4. ResumedOnce' BY <1>1, ResumeFacts, ResumedOnceParts, <1>3
  DEF ResumedOnce, IoOK, FreeOK, StackOK, Has, Distinct, Ctx, OnStack
<1>5. NoIdleWorker'
  <2> SUFFICES ASSUME ~shutdown', free_ctx' # {}
               PROVE  Len(handler_queue') <= Cardinality(Coming')
    BY DEF NoIdleWorker
  <2>1. free_ctx # {} BY DEF ResumeCoroutine
  <2>2. Len(handler_queue) <= Cardinality(Coming) BY <1>1, <2>1 DEF NoIdleWorker
  <2>3. Cardinality(Coming') = Cardinality(Coming) + 1 BY <1>1, ResumeFacts
  <2>4. Len(handler_queue) \in Nat /\ Len(handler_queue') \in Nat BY <1>1 DEF TypeOK
  <2> QED BY <2>2, <2>3, <2>4, ComingFinite
<1> QED BY <1>3, <1>4, <1>5 DEF PoolInv

LEMMA CallsInv ==
  ASSUME PoolInv, Calls PROVE PoolInv'
<1>1. /\ TypeOK /\ ResumedOnce /\ handler_queue \in Seq(Jobs) /\ given \subseteq Jobs
      /\ frames \in Seq(Frames) /\ StackOK(pc, frames) /\ shutdown \in BOOLEAN
  BY ResumedOnceParts DEF PoolInv, TypeOK, Frames
<1>2. ASSUME NEW j \in Jobs, Schedule(j) PROVE PoolInv'
  <2>1. StackOK(pc', frames') /\ ResumeCoroutine
    BY <1>1, <1>2, ResumeKeepsStack, StackWorkers DEF Schedule
  <2> QED BY <1>1, <1>2, <2>1, QueueLength, CallKeeps DEF Schedule, Give
<1>3. ASSUME NEW j \in Jobs, Dispatch(j) PROVE PoolInv'
  <2>1. Len(handler_queue) + 1 \in Nat BY <1>1
  <2>2. frames' \in Seq(Frames) /\ StackOK(pc', frames') /\ ResumeCoroutine
    BY <1>1, <1>3, <2>1, BeginRunQueueFacts DEF Dispatch
  <2> QED BY <1>1, <1>3, <2>2, QueueLength, CallKeeps DEF Dispatch, Give
<1>4. ASSUME NEW n \in MaxNums, RunQueue(n) PROVE PoolInv'
  <2>1. n \in Nat BY NoneNoJob
  <2>2. frames' \in Seq(Frames) /\ StackOK(pc', frames') /\ ResumeCoroutine
    BY <1>1, <1>4, <2>1, BeginRunQueueFacts DEF RunQueue
  <2>3. UNCHANGED <<handler_queue, given, shutdown, processed, job>> BY <1>4 DEF RunQueue
  <2>4. Len(handler_queue') <= Len(handler_queue) + 1 BY <1>1, <2>3
  <2>5. shutdown' \/ ~shutdown BY <1>1, <2>3
  <2> QED BY <1>1, <2>2, <2>3, <2>4, <2>5, CallKeeps
<1>5. CASE Shutdown
  <2>1. CASE UNCHANGED <<free_ctx, pc, io, frames>>
    <3>1. TypeOK' BY <1>1, <1>5, <2>1 DEF Shutdown, TypeOK
    <3>2. ResumedOnce' BY <1>1, <1>5, <2>1 DEF ResumedOnce, OnStack
    <3> QED BY <1>5, <3>1, <3>2 DEF Shutdown, PoolInv, NoIdleWorker
  <2>2. CASE BeginRunQueue(0, None)
    <3>1. frames' \in Seq(Frames) /\ StackOK(pc', frames') /\ ResumeCoroutine
      BY <1>1, <2>2, BeginRunQueueFacts
    <3> QED BY <1>1, <1>5, <3>1, CallKeeps DEF Shutdown
  <2> QED BY <1>5, <2>1, <2>2 DEF Shutdown
<1> QED BY <1>2, <1>3, <1>4, <1>5 DEF Calls

-------------------------------------------------------------------------------
(***************************************************************************)
(* The workers.  A worker that enters or goes on, `before' its place, is   *)
(* not on the stack it runs above.                                         *)
(***************************************************************************)
WorkerAt(w, callers) ==
  /\ w \in Workers /\ callers \in Seq(Frames)
  /\ StackOK(pc, callers) /\ NotOn(w, callers)

\* Worker w gets control: its own frame goes on the stack.
LEMMA WorkerRuns ==
  ASSUME TypeOK, NEW w, NEW callers, WorkerAt(w, callers), pc' = [pc EXCEPT ![w] = "job"],
         frames' = <<[call |-> "CtxHolder", ctx |-> w]>> \o callers
  PROVE  frames' \in Seq(Frames) /\ StackOK(pc', frames')
<1> DEFINE f == [call |-> "CtxHolder", ctx |-> w]
<1>1. f \in Frames /\ f.ctx = w BY DEF WorkerAt, Frames, CtxHolderFrame
<1>2. pc'[w] = "job" BY DEF TypeOK, WorkerAt
<1>3. \A k \in DOMAIN callers : Ctx(callers, k) => pc'[callers[k].ctx] = pc[callers[k].ctx]
  BY StackWorkers DEF WorkerAt, NotOn, TypeOK
<1>4. StackOK(pc', callers) BY <1>3, StackOther DEF WorkerAt
<1> HIDE DEF f
<1> QED BY <1>1, <1>2, <1>4, StackPush, StackPushOK DEF WorkerAt, f

\* Worker w gives it up, for a place in which it is not in a job.
LEMMA WorkerLeaves ==
  ASSUME TypeOK, NEW w, NEW callers, WorkerAt(w, callers), NEW place,
         pc' = [pc EXCEPT ![w] = place], frames' = callers
  PROVE  frames' \in Seq(Frames) /\ StackOK(pc', frames')
<1>1. \A k \in DOMAIN callers : Ctx(callers, k) => pc'[callers[k].ctx] = pc[callers[k].ctx]
  BY StackWorkers DEF WorkerAt, NotOn, TypeOK
<1> QED BY <1>1, StackOther DEF WorkerAt

(***************************************************************************)
(* Where Enter and Finish take a worker, apart from the queue of the       *)
(* io_service.  `coming' is 1 if the worker was on its way.                *)
(***************************************************************************)
LEMMA TakeJobFacts ==
  ASSUME TypeOK, ResumedOnce, NEW w, NEW callers, WorkerAt(w, callers), TakeJob(w, callers),
         pc[w] # "asleep"
  PROVE  /\ frames' \in Seq(Frames) /\ StackOK(pc', frames')
         /\ pc' = [pc EXCEPT ![w] = "job"] /\ pc' \in [Workers -> Places]
         /\ FreeOK(pc', free_ctx')
         /\ job' \in [Workers -> Jobs \cup {None}]
         /\ \A v \in Workers : job'[v] # None <=> pc'[v] \in InJob
         /\ handler_queue' \in Seq(Jobs) /\ Len(handler_queue') = Len(handler_queue) - 1
         /\ free_ctx' = free_ctx
<1>1. pc' = [pc EXCEPT ![w] = "job"] /\ frames' = <<[call |-> "CtxHolder", ctx |-> w]>> \o callers
  BY DEF TakeJob
<1>2. frames' \in Seq(Frames) /\ StackOK(pc', frames') BY <1>1, WorkerRuns
<1>3. /\ pc \in [Workers -> Places] /\ job \in [Workers -> Jobs \cup {None}] /\ w \in Workers
      /\ handler_queue \in Seq(Jobs) /\ handler_queue # <<>> /\ FreeOK(pc, free_ctx)
  BY ResumedOnceParts DEF TypeOK, WorkerAt, TakeJob
<1>4. Head(handler_queue) \in Jobs /\ handler_queue' \in Seq(Jobs)
      /\ Len(handler_queue') = Len(handler_queue) - 1
  BY <1>3, QueueLength DEF TakeJob
<1>5. \A v \in Workers : pc'[v] = IF v = w THEN "job" ELSE pc[v] BY <1>1, <1>3
<1>6. pc' \in [Workers -> Places] BY <1>1, <1>3 DEF Places, InJob
<1>7. FreeOK(pc', free_ctx') /\ free_ctx' = free_ctx BY <1>3, <1>5 DEF FreeOK, TakeJob
<1>8. job' = [job EXCEPT ![w] = Head(handler_queue)] BY DEF TakeJob
<1>9. job' \in [Workers -> Jobs \cup {None}] BY <1>3, <1>4, <1>8
<1>10. \A v \in Workers : job'[v] # None <=> pc'[v] \in InJob
  BY <1>3, <1>4, <1>5, <1>8, NoneNoJob DEF TypeOK, InJob
<1> QED BY <1>1, <1>2, <1>4, <1>6, <1>7, <1>9, <1>10

LEMMA LeaveFacts ==
  ASSUME TypeOK, ResumedOnce, NEW w, NEW callers, WorkerAt(w, callers), pc[w] # "asleep",
         Sleep(w, callers) \/ Exit(w, callers)
  PROVE  /\ frames' \in Seq(Frames) /\ StackOK(pc', frames')
         /\ \E place \in {"asleep", "exited"} : pc' = [pc EXCEPT ![w] = place]
         /\ pc' \in [Workers -> Places] /\ free_ctx' \subseteq Workers
         /\ FreeOK(pc', free_ctx')
         /\ job' \in [Workers -> Jobs \cup {None}]
         /\ \A v \in Workers : job'[v] # None <=> pc'[v] \in InJob
         /\ handler_queue' = handler_queue
<1>1. PICK place \in {"asleep", "exited"} :
        /\ pc' = [pc EXCEPT ![w] = place] /\ frames' = callers
        /\ job' = [job EXCEPT ![w] = None] /\ handler_queue' = handler_queue
        /\ free_ctx' = IF place = "asleep" THEN free_ctx \cup {w} ELSE free_ctx
  BY DEF Sleep, Exit, Leave
<1>2. frames' \in Seq(Frames) /\ StackOK(pc', frames') BY <1>1, WorkerLeaves
<1>3. /\ pc \in [Workers -> Places] /\ job \in [Workers -> Jobs \cup {None}] /\ w \in Workers
      /\ FreeOK(pc, free_ctx) /\ free_ctx \subseteq Workers
  BY ResumedOnceParts DEF TypeOK, WorkerAt
<1>4. \A v \in Workers : pc'[v] = IF v = w THEN place ELSE pc[v] BY <1>1, <1>3
<1>5. pc' \in [Workers -> Places] BY <1>1, <1>3 DEF Places
<1>6. free_ctx' \subseteq Workers BY <1>1, <1>3
<1>7. FreeOK(pc', free_ctx') BY <1>1, <1>3, <1>4 DEF FreeOK
<1>8. job' \in [Workers -> Jobs \cup {None}] BY <1>1, <1>3
<1>9. \A v \in Workers : job'[v] # None <=> pc'[v] \in InJob
  BY <1>1, <1>3, <1>4 DEF TypeOK, InJob, Queued
<1> QED BY <1>1, <1>2, <1>5, <1>6, <1>7, <1>8, <1>9

\* A RunQueue() call goes on, at another place.
LEMMA StackGoesOn ==
  ASSUME InRunQueue, NEW s \in Seq(Frames), s = frames, NEW p, StackOK(p, s),
         NEW place \in {"run_one", "poll"}
  PROVE  /\ [frames EXCEPT ![1].at = place] \in Seq(Frames)
         /\ StackOK(p, [frames EXCEPT ![1].at = place])
<1> DEFINE f == [Head(frames) EXCEPT !.at = place]
           t == [frames EXCEPT ![1] = f]
<1>1. /\ 1 \in DOMAIN frames /\ Head(frames) = frames[1] /\ DOMAIN frames = 1..Len(frames)
      /\ frames[1].call = "RunQueue" /\ frames \in Seq(Frames)
  BY EmptySeq DEF InRunQueue
<1>2. f \in Frames /\ f.call = "RunQueue"
  BY <1>1, ElementOfSeq DEF Frames, RunQueueFrame, CtxHolderFrame
<1>3. [frames EXCEPT ![1].at = place] = t BY <1>1
<1> HIDE DEF f
<1>4. /\ t \in Seq(Frames) /\ DOMAIN t = DOMAIN frames
      /\ \A k \in DOMAIN t : t[k] = IF k = 1 THEN f ELSE frames[k]
  BY <1>1, <1>2, ExceptSeq
<1> HIDE DEF t
<1>5. StackOK(p, t) BY <1>1, <1>2, <1>4 DEF StackOK, Ctx
<1> QED BY <1>3, <1>4, <1>5

LEMMA RunHandlerInv ==
  ASSUME PoolInv, RunHandler PROVE PoolInv'
<1> DEFINE w == Head(io)
           callers == IF InRunQueue THEN [frames EXCEPT ![1].at = "poll"] ELSE frames
<1>1. /\ TypeOK /\ ResumedOnce /\ io \in Seq(Workers) /\ io # <<>>
      /\ IoOK(pc, io) /\ FreeOK(pc, free_ctx) /\ StackOK(pc, frames) /\ frames \in Seq(Frames)
      /\ pc \in [Workers -> Places]
  BY ResumedOnceParts DEF PoolInv, RunHandler, TypeOK, Frames
<1>2. /\ w \in Workers /\ Tail(io) \in Seq(Workers) /\ Has(io, w) /\ Distinct(Tail(io))
      /\ \A v : Has(Tail(io), v) <=> Has(io, v) /\ v # w
  BY <1>1, QueueTail DEF IoOK
<1>3. pc[w] \in Queued BY <1>1, <1>2 DEF IoOK
<1>4. callers \in Seq(Frames) /\ StackOK(pc, callers)
  <2>1. CASE ~InRunQueue BY <1>1, <2>1
  <2>2. CASE InRunQueue BY <1>1, <2>2, StackGoesOn
  <2> QED BY <2>1, <2>2
<1>5. /\ \/ pc[w] = "ready" /\ Continue(w, callers)
         \/ pc[w] # "ready" /\ Enter(w, callers)
      /\ io' = Tail(io) /\ UNCHANGED <<shutdown, processed, given>>
  BY DEF RunHandler
<1> HIDE DEF w, callers
<1>6. NotOn(w, callers)
  BY <1>3, <1>4 DEF NotOn, StackOK, Queued
<1>7. WorkerAt(w, callers) BY <1>2, <1>4, <1>6 DEF WorkerAt
<1>8. ASSUME NEW place \in {"job", "asleep", "exited"}, pc' = [pc EXCEPT ![w] = place]
      PROVE  IoOK(pc', io')
  BY <1>1, <1>2, <1>5, <1>8 DEF IoOK, Queued
<1>9. CASE Continue(w, callers) /\ pc[w] = "ready"
  <2>1. pc' = [pc EXCEPT ![w] = "job"] /\ UNCHANGED <<handler_queue, free_ctx, job>>
    BY <1>9 DEF Continue
  <2>2. frames' \in Seq(Frames) /\ StackOK(pc', frames')
    BY <1>1, <1>7, <1>9, WorkerRuns DEF Continue
  <2>3. \A v \in Workers : pc'[v] = IF v = w THEN "job" ELSE pc[v] BY <1>1, <1>2, <2>1
  <2>4. FreeOK(pc', free_ctx') BY <1>1, <1>9, <2>1, <2>3 DEF FreeOK
  <2>5. pc' \in [Workers -> Places] BY <1>1, <2>1 DEF Places, InJob
  <2>6. \A v \in Workers : pc'[v] \in InJob <=> pc[v] \in InJob BY <1>9, <2>3 DEF InJob
  <2>7. TypeOK' BY <1>1, <1>2, <1>5, <2>1, <2>2, <2>5, <2>6 DEF TypeOK, Frames
  <2>8. ResumedOnce' BY <1>8, <2>1, <2>2, <2>4, ResumedOncePrime
  <2>9. Coming' = Coming BY <1>9, <2>3 DEF Coming
  <2>10. NoIdleWorker' BY <1>5, <2>1, <2>9 DEF PoolInv, NoIdleWorker
  <2> QED BY <2>7, <2>8, <2>10 DEF PoolInv
<1>10. CASE Enter(w, callers) /\ pc[w] # "ready"
  <2>1. pc[w] \in {"spawned", "woken"} BY <1>3, <1>10 DEF Queued
  <2>2. CASE \/ (Exit(w, callers) /\ shutdown)
            \/ (Sleep(w, callers) /\ handler_queue = <<>>)
    <3>1. /\ frames' \in Seq(Frames) /\ StackOK(pc', frames') /\ pc' \in [Workers -> Places]
          /\ free_ctx' \subseteq Workers /\ FreeOK(pc', free_ctx')
          /\ job' \in [Workers -> Jobs \cup {None}]
          /\ \A v \in Workers : job'[v] # None <=> pc'[v] \in InJob
          /\ handler_queue' = handler_queue
      BY <1>1, <1>7, <2>1, <2>2, LeaveFacts
    <3>2. PICK place \in {"asleep", "exited"} : pc' = [pc EXCEPT ![w] = place]
      BY <1>1, <1>7, <2>1, <2>2, LeaveFacts
    <3>3. IoOK(pc', io') BY <1>8, <3>2
    <3>4. TypeOK' BY <1>1, <1>2, <1>5, <3>1 DEF TypeOK, Frames
    <3>5. ResumedOnce' BY <3>1, <3>3, ResumedOncePrime
    <3>6. NoIdleWorker'
      <4>1. Len(<<>>) = 0 OBVIOUS
      <4>2. Cardinality(Coming') \in Nat BY ComingFinitePrime
      <4> QED BY <1>5, <2>2, <3>1, <4>1, <4>2 DEF NoIdleWorker
    <3> QED BY <3>4, <3>5, <3>6 DEF PoolInv
  <2>3. CASE TakeJob(w, callers)
    <3>1. /\ frames' \in Seq(Frames) /\ StackOK(pc', frames')
          /\ pc' = [pc EXCEPT ![w] = "job"] /\ pc' \in [Workers -> Places]
          /\ FreeOK(pc', free_ctx') /\ job' \in [Workers -> Jobs \cup {None}]
          /\ \A v \in Workers : job'[v] # None <=> pc'[v] \in InJob
          /\ handler_queue' \in Seq(Jobs) /\ Len(handler_queue') = Len(handler_queue) - 1
          /\ free_ctx' = free_ctx
      BY <1>1, <1>7, <2>1, <2>3, TakeJobFacts
    <3>2. IoOK(pc', io') BY <1>8, <3>1
    <3>3. TypeOK' BY <1>1, <1>2, <1>5, <3>1 DEF TypeOK, Frames
    <3>4. ResumedOnce' BY <3>1, <3>2, ResumedOncePrime
    <3>5. \A v \in Workers : pc'[v] = IF v = w THEN "job" ELSE pc[v] BY <1>1, <1>2, <3>1
    <3>6. Coming' = Coming \ {w} /\ w \in Coming BY <1>2, <2>1, <3>5 DEF Coming
    <3>7. Cardinality(Coming') = Cardinality(Coming) - 1
      BY <3>6, ComingFinite, FS_RemoveElement
    <3>8. Len(handler_queue) \in Nat BY <1>1 DEF TypeOK
    <3>9. NoIdleWorker'
      BY <1>5, <3>1, <3>7, <3>8, ComingFinite DEF PoolInv, NoIdleWorker
    <3> QED BY <3>3, <3>4, <3>9 DEF PoolInv
  <2>4. \/ (Exit(w, callers) /\ shutdown)
        \/ (Sleep(w, callers) /\ handler_queue = <<>>)
        \/ TakeJob(w, callers)
    BY <1>10 DEF Enter
  <2> QED BY <2>2, <2>3, <2>4
<1> QED BY <1>5, <1>9, <1>10

LEMMA RunOtherInv ==
  ASSUME PoolInv, RunOther PROVE PoolInv'
<1>1. /\ TypeOK /\ ResumedOnce /\ frames \in Seq(Frames) /\ InRunQueue
      /\ IoOK(pc, io) /\ FreeOK(pc, free_ctx) /\ StackOK(pc, frames)
      /\ frames' = [frames EXCEPT ![1].at = "poll"]
      /\ UNCHANGED <<handler_queue, free_ctx, shutdown, processed, given, pc, job, io>>
  BY ResumedOnceParts DEF PoolInv, TypeOK, Frames, RunOther
<1>2. frames' \in Seq(Frames) /\ StackOK(pc, frames') BY <1>1, StackGoesOn
<1>3. TypeOK' BY <1>1, <1>2 DEF TypeOK, Frames
<1>4. ResumedOnce' BY <1>1, <1>2, ResumedOncePrime
<1>5. NoIdleWorker' BY <1>1 DEF PoolInv, NoIdleWorker, Coming
<1> QED BY <1>3, <1>4, <1>5 DEF PoolInv

LEMMA PollReturnsInv ==
  ASSUME PoolInv, PollReturns PROVE PoolInv'
<1>1. /\ TypeOK /\ ResumedOnce /\ frames \in Seq(Frames) /\ InRunQueue /\ frames # <<>>
      /\ IoOK(pc, io) /\ FreeOK(pc, free_ctx) /\ StackOK(pc, frames)
      /\ handler_queue \in Seq(Jobs) /\ given \subseteq Jobs /\ shutdown \in BOOLEAN
      /\ UNCHANGED <<handler_queue, shutdown, processed, given, job>>
  BY ResumedOnceParts DEF PoolInv, TypeOK, Frames, PollReturns, InRunQueue
<1>2. CASE frames' = Tail(frames) /\ UNCHANGED <<free_ctx, pc, io>>
  <2>1. frames' \in Seq(Frames) /\ StackOK(pc, frames') BY <1>1, <1>2, StackPop
  <2>2. TypeOK' BY <1>1, <1>2, <2>1 DEF TypeOK, Frames
  <2>3. ResumedOnce' BY <1>1, <1>2, <2>1, ResumedOncePrime
  <2>4. NoIdleWorker' BY <1>1, <1>2 DEF PoolInv, NoIdleWorker, Coming
  <2> QED BY <2>2, <2>3, <2>4 DEF PoolInv
<1>3. CASE frames' = [frames EXCEPT ![1].at = "run_one"] /\ ResumeCoroutine
  <2>1. StackOK(pc', frames) BY <1>1, <1>3, ResumeKeepsStack, StackWorkers
  <2>2. frames' \in Seq(Frames) /\ StackOK(pc', frames') BY <1>1, <1>3, <2>1, StackGoesOn
  <2>3. Len(handler_queue') <= Len(handler_queue) + 1 BY <1>1
  <2>4. shutdown' \/ ~shutdown BY <1>1
  <2> QED BY <1>1, <1>3, <2>2, <2>3, <2>4, CallKeeps
<1> QED BY <1>2, <1>3 DEF PollReturns

-------------------------------------------------------------------------------
(***************************************************************************)
(* A worker in its job, on top of the stack.                               *)
(***************************************************************************)
LEMMA RunningFacts ==
  ASSUME TypeOK, ResumedOnce, NEW w \in Workers, Running(w)
  PROVE  WorkerAt(w, Tail(frames)) /\ pc[w] = "job" /\ job[w] \in Jobs /\ ~Has(io, w)
<1>1. /\ frames \in Seq(Frames) /\ frames # <<>> /\ IoOK(pc, io) /\ StackOK(pc, frames)
      /\ Head(frames) = [call |-> "CtxHolder", ctx |-> w]
  BY ResumedOnceParts DEF TypeOK, Frames, Running
<1>2. /\ Tail(frames) \in Seq(Frames) /\ StackOK(pc, Tail(frames))
      /\ pc[w] = "job" /\ NotOn(w, Tail(frames))
  BY <1>1, StackPop
<1>3. job[w] \in Jobs BY <1>2 DEF TypeOK, InJob
<1>4. ~Has(io, w) BY <1>1, <1>2 DEF IoOK, Queued
<1> QED BY <1>2, <1>3, <1>4 DEF WorkerAt

LEMMA SuspendInv ==
  ASSUME PoolInv, NEW w \in Workers, Suspend(w) PROVE PoolInv'
<1>1. /\ TypeOK /\ ResumedOnce /\ Running(w) /\ pc \in [Workers -> Places]
      /\ IoOK(pc, io) /\ FreeOK(pc, free_ctx)
      /\ pc' = [pc EXCEPT ![w] = "blocked"] /\ frames' = Tail(frames)
      /\ UNCHANGED <<handler_queue, free_ctx, shutdown, processed, given, job, io>>
  BY ResumedOnceParts DEF PoolInv, TypeOK, Suspend
<1>2. WorkerAt(w, Tail(frames)) /\ pc[w] = "job" BY <1>1, RunningFacts
<1>3. frames' \in Seq(Frames) /\ StackOK(pc', frames') BY <1>1, <1>2, WorkerLeaves
<1>4. \A v \in Workers : pc'[v] = IF v = w THEN "blocked" ELSE pc[v] BY <1>1
<1>5. pc' \in [Workers -> Places] BY <1>1 DEF Places, InJob
<1>6. \A v \in Workers : pc'[v] \in InJob <=> pc[v] \in InJob BY <1>2, <1>4 DEF InJob
<1>7. IoOK(pc', io') /\ FreeOK(pc', free_ctx')
  BY <1>1, <1>2, <1>4 DEF IoOK, FreeOK, Queued
<1>8. TypeOK' BY <1>1, <1>3, <1>5, <1>6 DEF TypeOK, Frames
<1>9. ResumedOnce' BY <1>3, <1>7, ResumedOncePrime
<1>10. Coming' = Coming BY <1>2, <1>4 DEF Coming
<1>11. NoIdleWorker' BY <1>1, <1>10 DEF PoolInv, NoIdleWorker
<1> QED BY <1>8, <1>9, <1>11 DEF PoolInv

LEMMA CompleteInv ==
  ASSUME PoolInv, NEW w \in Workers, Complete(w) PROVE PoolInv'
<1>1. /\ TypeOK /\ ResumedOnce /\ pc \in [Workers -> Places] /\ io \in Seq(Workers)
      /\ IoOK(pc, io) /\ FreeOK(pc, free_ctx) /\ StackOK(pc, frames)
      /\ frames \in Seq(Frames) /\ pc[w] = "blocked"
      /\ pc' = [pc EXCEPT ![w] = "ready"] /\ io' = Append(io, w)
      /\ UNCHANGED <<handler_queue, free_ctx, shutdown, processed, given, job, frames>>
  BY ResumedOnceParts DEF PoolInv, TypeOK, Complete, Frames
<1>2. ~Has(io, w) BY <1>1 DEF IoOK, Queued
<1>3. /\ io' \in Seq(Workers) /\ Distinct(io')
      /\ \A v : Has(io', v) <=> Has(io, v) \/ v = w
  BY <1>1, <1>2, QueueAppend DEF IoOK
<1>4. \A v \in Workers : pc'[v] = IF v = w THEN "ready" ELSE pc[v] BY <1>1
<1>5. pc' \in [Workers -> Places] BY <1>1 DEF Places, Queued
<1>6. \A v \in Workers : pc'[v] \in InJob <=> pc[v] \in InJob BY <1>1, <1>4 DEF InJob
<1>7. IoOK(pc', io') /\ FreeOK(pc', free_ctx')
  BY <1>1, <1>3, <1>4 DEF IoOK, FreeOK, Queued
<1>8. StackOK(pc', frames')
  <2>1. \A k \in DOMAIN frames : Ctx(frames, k) => pc'[frames[k].ctx] = pc[frames[k].ctx]
    BY <1>1, <1>4, StackWorkers DEF StackOK
  <2> QED BY <1>1, <2>1, StackOther
<1>9. TypeOK' BY <1>1, <1>3, <1>5, <1>6 DEF TypeOK
<1>10. ResumedOnce' BY <1>7, <1>8, ResumedOncePrime
<1>11. Coming' = Coming BY <1>1, <1>4 DEF Coming
<1>12. NoIdleWorker' BY <1>1, <1>11 DEF PoolInv, NoIdleWorker
<1> QED BY <1>9, <1>10, <1>12 DEF PoolInv

LEMMA FinishInv ==
  ASSUME PoolInv, NEW w \in Workers, Finish(w) PROVE PoolInv'
<1>1. /\ TypeOK /\ ResumedOnce /\ Running(w) /\ pc \in [Workers -> Places]
      /\ IoOK(pc, io) /\ io \in Seq(Workers) /\ handler_queue \in Seq(Jobs)
      /\ processed' = processed \cup {job[w]} /\ UNCHANGED <<shutdown, given, io>>
  BY ResumedOnceParts DEF PoolInv, TypeOK, Finish
<1>2. WorkerAt(w, Tail(frames)) /\ pc[w] = "job" /\ job[w] \in Jobs BY <1>1, RunningFacts
<1>3. processed' \subseteq Jobs BY <1>1, <1>2 DEF TypeOK
<1>4. ASSUME NEW place \in {"job", "asleep", "exited"}, pc' = [pc EXCEPT ![w] = place]
      PROVE  IoOK(pc', io') /\ Coming' = Coming
  BY <1>1, <1>2, <1>4 DEF IoOK, Queued, Coming
<1>5. CASE TakeJob(w, Tail(frames))
  <2>1. /\ frames' \in Seq(Frames) /\ StackOK(pc', frames')
        /\ pc' = [pc EXCEPT ![w] = "job"] /\ pc' \in [Workers -> Places]
        /\ FreeOK(pc', free_ctx') /\ job' \in [Workers -> Jobs \cup {None}]
        /\ \A v \in Workers : job'[v] # None <=> pc'[v] \in InJob
        /\ handler_queue' \in Seq(Jobs) /\ Len(handler_queue') = Len(handler_queue) - 1
        /\ free_ctx' = free_ctx
    BY <1>1, <1>2, <1>5, TakeJobFacts
  <2>2. IoOK(pc', io') /\ Coming' = Coming BY <1>4, <2>1
  <2>3. TypeOK' BY <1>1, <1>3, <2>1 DEF TypeOK, Frames
  <2>4. ResumedOnce' BY <2>1, <2>2, ResumedOncePrime
  <2>5. Len(handler_queue) \in Nat BY <1>1
  <2>6. NoIdleWorker'
    BY <1>1, <2>1, <2>2, <2>5, ComingFinite DEF PoolInv, NoIdleWorker
  <2> QED BY <2>3, <2>4, <2>6 DEF PoolInv
<1>6. CASE handler_queue = <<>> /\ (Sleep(w, Tail(frames)) \/ Exit(w, Tail(frames)))
  <2>1. /\ frames' \in Seq(Frames) /\ StackOK(pc', frames') /\ pc' \in [Workers -> Places]
        /\ free_ctx' \subseteq Workers /\ FreeOK(pc', free_ctx')
        /\ job' \in [Workers -> Jobs \cup {None}]
        /\ \A v \in Workers : job'[v] # None <=> pc'[v] \in InJob
        /\ handler_queue' = handler_queue
    BY <1>1, <1>2, <1>6, LeaveFacts
  <2>2. PICK place \in {"asleep", "exited"} : pc' = [pc EXCEPT ![w] = place]
    BY <1>1, <1>2, <1>6, LeaveFacts
  <2>3. IoOK(pc', io') BY <1>4, <2>2
  <2>4. TypeOK' BY <1>1, <1>3, <2>1 DEF TypeOK, Frames
  <2>5. ResumedOnce' BY <2>1, <2>3, ResumedOncePrime
  <2>6. NoIdleWorker'
    <3>1. Len(<<>>) = 0 OBVIOUS
    <3>2. Cardinality(Coming') \in Nat BY ComingFinitePrime
    <3> QED BY <1>6, <2>1, <3>1, <3>2 DEF NoIdleWorker
  <2> QED BY <2>4, <2>5, <2>6 DEF PoolInv
<1>7. \/ TakeJob(w, Tail(frames))
      \/ (handler_queue = <<>> /\ (Sleep(w, Tail(frames)) \/ Exit(w, Tail(frames))))
  BY DEF Finish
<1> QED BY <1>5, <1>6, <1>7

-------------------------------------------------------------------------------
(***************************************************************************)
(* The initial states.  The queue of first runs names every worker in as   *)
(* many places as there are workers, so each once.                         *)
(***************************************************************************)
LEMMA SpawnedOnce ==
  ASSUME NEW q \in [1..Cardinality(Workers) -> Workers], \A w \in Workers : Has(q, w)
  PROVE  Distinct(q)
<1> DEFINE D == 1..Cardinality(Workers)
<1>1. Cardinality(Workers) \in Nat BY PoolFinite, FS_CardinalityType
<1>2. IsFiniteSet(D) /\ Cardinality(D) = Cardinality(Workers) BY <1>1, FS_Interval
<1>3. q \in Surjection(D, Workers) BY DEF Surjection, Has
<1>4. q \in Injection(D, Workers) BY <1>2, <1>3, FS_Surjection
<1> QED BY <1>4 DEF Injection, IsInjective, Distinct

LEMMA InitInv == Init => PoolInv
<1> SUFFICES ASSUME Init PROVE PoolInv
  OBVIOUS
<1>1. /\ handler_queue = <<>> /\ shutdown = FALSE /\ processed = {} /\ given = {}
      /\ frames = <<>> /\ job = [w \in Workers |-> None]
  BY DEF Init
<1>2. Len(<<>>) = 0 /\ DOMAIN <<>> = {} /\ <<>> \in Seq(Jobs) /\ <<>> \in Seq(Workers)
      /\ <<>> \in Seq(Frames)
  OBVIOUS
<1>3. StackOK(pc, frames) BY <1>1, <1>2 DEF StackOK
<1>4. NoIdleWorker BY <1>1, <1>2, ComingFinite DEF NoIdleWorker
<1>5. CASE pc = [w \in Workers |-> "asleep"] /\ free_ctx = Workers /\ io = <<>>
  <2>1. IoOK(pc, io) /\ FreeOK(pc, free_ctx)
    BY <1>2, <1>5 DEF IoOK, FreeOK, Queued, Has, Distinct
  <2>2. TypeOK BY <1>1, <1>2, <1>5 DEF TypeOK, Places, InJob, Frames, Queued
  <2> QED BY <1>3, <1>4, <2>1, <2>2, ResumedOnceParts DEF PoolInv
<1>6. CASE /\ pc = [w \in Workers |-> "spawned"] /\ free_ctx = {}
           /\ io \in [1..Cardinality(Workers) -> Workers] /\ \A w \in Workers : Has(io, w)
  <2>1. Cardinality(Workers) \in Nat BY PoolFinite, FS_CardinalityType
  <2>2. io \in Seq(Workers) BY <1>6, <2>1, SeqDef
  <2>3. IoOK(pc, io) /\ FreeOK(pc, free_ctx)
    BY <1>6, SpawnedOnce DEF IoOK, FreeOK, Queued
  <2>4. TypeOK BY <1>1, <1>2, <1>6, <2>2 DEF TypeOK, Places, InJob, Frames, Queued
  <2> QED BY <1>3, <1>4, <2>3, <2>4, ResumedOnceParts DEF PoolInv
<1> QED BY <1>5, <1>6 DEF Init, Has

LEMMA NextInv == PoolInv /\ [Next]_vars => PoolInv'
<1> SUFFICES ASSUME PoolInv, [Next]_vars PROVE PoolInv'
  OBVIOUS
<1>1. CASE Calls BY <1>1, CallsInv
<1>2. CASE RunHandler BY <1>2, RunHandlerInv
<1>3. CASE RunOther BY <1>3, RunOtherInv
<1>4. CASE PollReturns BY <1>4, PollReturnsInv
<1>5. ASSUME NEW w \in Workers, WorkerStep(w) PROVE PoolInv'
  BY <1>5, SuspendInv, CompleteInv, FinishInv DEF WorkerStep
<1>6. CASE UNCHANGED vars
  BY <1>6 DEF vars, PoolInv, TypeOK, ResumedOnce, OnStack, NoIdleWorker, Coming
<1> QED BY <1>1, <1>2, <1>3, <1>4, <1>5, <1>6 DEF Next

LEMMA PoolCorrect == Spec => []PoolInv
  BY InitInv, NextInv, PTL DEF Spec

(***************************************************************************)
(* The types of the pool's state, and that a worker has a job exactly      *)
(* while it is in one: TakeJob, which starts one, is never applied to a    *)
(* worker that has another.                                                *)
(***************************************************************************)
THEOREM PoolTypeCorrect == Spec => []TypeOK
<1>1. PoolInv => TypeOK BY DEF PoolInv
<1> QED BY <1>1, PoolCorrect, PTL

(***************************************************************************)
(* A coroutine is resumed where it waits, and once, however Schedule,      *)
(* Dispatch and RunQueue nest: a worker has one handler queued, or waits   *)
(* in free_ctx, or runs, or is blocked in its job, never two of these.     *)
(***************************************************************************)
THEOREM WorkersResumedOnce == Spec => []ResumedOnce
<1>1. PoolInv => ResumedOnce BY DEF PoolInv
<1> QED BY <1>1, PoolCorrect, PTL

(***************************************************************************)
(* No wakeup is lost: while a worker sleeps in free_ctx, every job of the  *)
(* queue has a worker of its own on the way to it.                         *)
(***************************************************************************)
THEOREM NoWorkerIdles == Spec => []NoIdleWorker
<1>1. PoolInv => NoIdleWorker BY DEF PoolInv
<1> QED BY <1>1, PoolCorrect, PTL
===============================================================================
