--------------------------- MODULE YieldHelperProofs ---------------------------
(***************************************************************************)
(* Proofs about YieldHelper, for any number of workers, jobs and nested    *)
(* calls.  HelperIsOwn says nothing of the jobs that wait; the invariant   *)
(* adds that one with a helper waits in its YIELDHELPER, and that a worker *)
(* which is on the stack below another has no helper at all.               *)
(***************************************************************************)
EXTENDS YieldHelper, CoroutinePoolProofs

On(w, s) == s # <<>> /\ Head(s) = [call |-> "CtxHolder", ctx |-> w]

\* No job on a stack s has a helper; none but the innermost call has.
AllFree(s, h) == \A k \in DOMAIN s : Ctx(s, k) => h[s[k].ctx] = 0
LowerFree(s, h) == \A k \in DOMAIN s : k # 1 /\ Ctx(s, k) => h[s[k].ctx] = 0

Own(s, h, c) ==
  /\ \A w \in Workers : On(w, s) /\ h[w] > 0 => c = Helper(w, h[w])
  /\ c # nullptr => \E w \in Workers : On(w, s) /\ h[w] > 0 /\ c = Helper(w, h[w])
  /\ LowerFree(s, h)

WaitsByHelper(w) ==
  IF yielding[w] # nullptr
  THEN yielding[w] = OwnHelper(w) /\ helpers[w] > 0 /\ pc[w] \in {"blocked", "ready"}
  ELSE pc[w] # "job" => helpers[w] = 0

HelperTypes ==
  /\ helpers \in [Workers -> Nat]
  /\ yielding \in [Workers -> {nullptr} \cup (Workers \X Nat)]
  /\ strayed \in BOOLEAN

HelperInv ==
  /\ HelperTypes
  /\ strayed \/ /\ Own(frames, helpers, currentYieldHelper)
                /\ \A w \in Workers : WaitsByHelper(w)

-------------------------------------------------------------------------------
(***************************************************************************)
(* The stack.                                                              *)
(***************************************************************************)
LEMMA TopIsFirst ==
  ASSUME NEW s \in Seq(Frames)
  PROVE  /\ \A w : On(w, s) => Ctx(s, 1) /\ s[1].ctx = w
         /\ Ctx(s, 1) => s[1].ctx \in Workers /\ On(s[1].ctx, s)
<1>1. CASE s = <<>> BY <1>1 DEF On, Ctx
<1>2. CASE s # <<>>
  <2>1. 1 \in DOMAIN s /\ Head(s) = s[1] /\ s[1] \in Frames BY <1>2, HeadTailProperties, EmptySeq
  <2> QED BY <1>2, <2>1 DEF On, Ctx, Frames, RunQueueFrame, CtxHolderFrame
<1> QED BY <1>1, <1>2

LEMMA FreeStack ==
  ASSUME NEW s \in Seq(Frames), NEW h
  PROVE  AllFree(s, h) <=>
           LowerFree(s, h) /\ \A w \in Workers : On(w, s) => h[w] = 0
<1>1. AllFree(s, h) => LowerFree(s, h) BY DEF AllFree, LowerFree
<1>2. ASSUME AllFree(s, h), NEW w \in Workers, On(w, s) PROVE h[w] = 0
  <2>1. Ctx(s, 1) /\ s[1].ctx = w BY <1>2, TopIsFirst
  <2> QED BY <1>2, <2>1 DEF AllFree, Ctx
<1>3. ASSUME LowerFree(s, h), \A w \in Workers : On(w, s) => h[w] = 0,
             NEW k \in DOMAIN s, Ctx(s, k)
      PROVE  h[s[k].ctx] = 0
  <2>1. CASE k = 1 BY <1>3, <2>1, TopIsFirst
  <2>2. CASE k # 1 BY <1>3, <2>2 DEF LowerFree
  <2> QED BY <2>1, <2>2
<1> QED BY <1>1, <1>2, <1>3 DEF AllFree

LEMMA FreeOwn ==
  ASSUME NEW s \in Seq(Frames), NEW h, AllFree(s, h) PROVE Own(s, h, nullptr)
  BY FreeStack DEF Own

\* With no helper in the innermost call, nobody's is in the global.
LEMMA OwnFree ==
  ASSUME NEW s \in Seq(Frames), NEW h, NEW c, Own(s, h, c),
         \A w \in Workers : On(w, s) => h[w] = 0
  PROVE  AllFree(s, h) /\ c = nullptr
  BY FreeStack DEF Own

LEMMA FreeTail ==
  ASSUME NEW s \in Seq(Frames), s # <<>>, NEW h, LowerFree(s, h)
  PROVE  AllFree(Tail(s), h)
<1> DEFINE t == Tail(s)
<1>1. /\ DOMAIN s = 1..Len(s) /\ Len(s) \in Nat \ {0} /\ DOMAIN t = 1..(Len(s) - 1)
      /\ \A k \in 1..(Len(s) - 1) : t[k] = s[k + 1]
  BY HeadTailProperties, EmptySeq
<1> HIDE DEF t
<1>2. \A k \in DOMAIN t : k + 1 \in DOMAIN s /\ t[k] = s[k + 1] /\ k + 1 # 1 BY <1>1
<1> QED BY <1>2 DEF AllFree, LowerFree, Ctx, t

LEMMA FreePush ==
  ASSUME NEW s \in Seq(Frames), NEW f \in Frames, NEW h, AllFree(s, h)
  PROVE  LowerFree(<<f>> \o s, h) /\ (f.call # "CtxHolder" => AllFree(<<f>> \o s, h))
<1> DEFINE t == <<f>> \o s
<1>1. /\ DOMAIN t = 1..(Len(s) + 1) /\ DOMAIN s = 1..Len(s) /\ Len(s) \in Nat
      /\ t[1] = f /\ \A k \in DOMAIN s : t[k + 1] = s[k]
  BY StackPush
<1> HIDE DEF t
<1>2. \A k \in DOMAIN t : k = 1 \/ (k - 1 \in DOMAIN s /\ t[k] = s[k - 1]) BY <1>1
<1> QED BY <1>1, <1>2 DEF AllFree, LowerFree, Ctx, t

\* A RunQueue() call goes on.
LEMMA FreeGoesOn ==
  ASSUME InRunQueue, frames \in Seq(Frames), NEW h, AllFree(frames, h),
         NEW place \in {"run_one", "poll"}
  PROVE  /\ [frames EXCEPT ![1].at = place] \in Seq(Frames)
         /\ AllFree([frames EXCEPT ![1].at = place], h)
<1> DEFINE t == [frames EXCEPT ![1].at = place]
<1>1. /\ 1 \in DOMAIN frames /\ Head(frames) = frames[1] /\ frames[1].call = "RunQueue"
      /\ frames[1] \in Frames
  BY HeadTailProperties, EmptySeq DEF InRunQueue
<1>2. t \in Seq(Frames)
  <2>2. [frames[1] EXCEPT !.at = place] \in Frames
    BY <1>1 DEF Frames, RunQueueFrame, CtxHolderFrame
  <2>3. t = [frames EXCEPT ![1] = [frames[1] EXCEPT !.at = place]] BY <1>1
  <2> QED BY <1>1, <2>2, <2>3, ExceptSeq
<1>3. DOMAIN t = DOMAIN frames /\ \A k \in DOMAIN frames : k # 1 => t[k] = frames[k]
  OBVIOUS
<1>4. t[1].call = "RunQueue"
  BY <1>1 DEF Frames, RunQueueFrame, CtxHolderFrame
<1> HIDE DEF t
<1>5. AllFree(t, h) BY <1>3, <1>4 DEF AllFree, Ctx
<1> QED BY <1>2, <1>5 DEF t

\* What becomes of the helpers of a worker that is not on the stack.
LEMMA FreeOther ==
  ASSUME NEW s \in Seq(Frames), NEW h, NEW g, NEW w, AllFree(s, h), NotOn(w, s),
         \A v \in Workers \ {w} : g[v] = h[v]
  PROVE  AllFree(s, g)
  BY StackWorkers DEF AllFree, NotOn

-------------------------------------------------------------------------------
(***************************************************************************)
(* The steps, of a program that keeps the rules.                           *)
(***************************************************************************)
Kept == PoolInv /\ HelperTypes /\ ~strayed
          /\ Own(frames, helpers, currentYieldHelper) /\ \A w \in Workers : WaitsByHelper(w)

LEMMA KeptFacts ==
  ASSUME Kept
  PROVE  /\ frames \in Seq(Frames) /\ TypeOK /\ ResumedOnce
         /\ pc \in [Workers -> Places]
         /\ helpers \in [Workers -> Nat]
         /\ LowerFree(frames, helpers)
         /\ \A w : On(w, frames) <=> Running(w)
  BY DEF Kept, PoolInv, HelperTypes, TypeOK, Frames, On, Running, Own

LEMMA RunningWaits ==
  ASSUME Kept, NEW w \in Workers, Running(w)
  PROVE  /\ WorkerAt(w, Tail(frames)) /\ pc[w] = "job" /\ yielding[w] = nullptr
         /\ frames # <<>> /\ Tail(frames) \in Seq(Frames) /\ NotOn(w, Tail(frames))
         /\ AllFree(Tail(frames), helpers)
         /\ \A v : Running(v) => v = w
         /\ helpers[w] = 0 => currentYieldHelper = nullptr
<1>1. WorkerAt(w, Tail(frames)) /\ pc[w] = "job" BY KeptFacts, RunningFacts
<1>2. yielding[w] = nullptr BY <1>1 DEF Kept, WaitsByHelper
<1>3. frames # <<>> /\ \A v : Running(v) => v = w BY DEF Running
<1>4. AllFree(Tail(frames), helpers) BY <1>3, KeptFacts, FreeTail
<1>5. helpers[w] = 0 => currentYieldHelper = nullptr
  BY <1>3, KeptFacts DEF Kept, Own
<1> QED BY <1>1, <1>2, <1>3, <1>4, <1>5 DEF WorkerAt

\* Nobody runs: the global is null, and no job below has a helper.
LEMMA NobodyRuns ==
  ASSUME Kept, \A w \in Workers : ~Running(w)
  PROVE  AllFree(frames, helpers) /\ currentYieldHelper = nullptr
  BY KeptFacts, OwnFree DEF Kept

\* What most steps come to.
HelperKept ==
  \/ strayed'
  \/ /\ Own(frames', helpers', currentYieldHelper')
     /\ \A w \in Workers : WaitsByHelper(w)'

LEMMA StrayedStays ==
  ASSUME NEW b, Strays(b)
  PROVE  strayed' \in BOOLEAN /\ (~strayed' => ~b) /\ (strayed' => HelperKept)
  BY DEF Strays, HelperKept

LEMMA MakeHelperKept ==
  ASSUME Kept, NEW w \in Workers, MakeHelper(w) PROVE HelperKept
<1>1. /\ Running(w) /\ helpers' = [helpers EXCEPT ![w] = @ + 1]
      /\ currentYieldHelper' = Helper(w, helpers[w] + 1)
      /\ frames' = frames /\ pc' = pc /\ yielding' = yielding
  BY DEF MakeHelper, vars
<1>2. helpers' \in [Workers -> Nat] /\ helpers'[w] = helpers[w] + 1 /\ helpers'[w] > 0
      /\ \A v \in Workers \ {w} : helpers'[v] = helpers[v]
  BY <1>1, KeptFacts
<1>3. AllFree(Tail(frames), helpers')
  BY <1>1, <1>2, RunningWaits, FreeOther
<1>4. LowerFree(frames', helpers')
  <2>1. frames = <<Head(frames)>> \o Tail(frames) /\ Head(frames) \in Frames
    BY <1>1, RunningWaits, KeptFacts, HeadTailProperties
  <2> QED BY <1>1, <1>3, <2>1, RunningWaits, FreePush
<1>5. Own(frames', helpers', currentYieldHelper')
  BY <1>1, <1>2, <1>4, RunningWaits, KeptFacts DEF Own
<1>6. ASSUME NEW v \in Workers PROVE WaitsByHelper(v)'
  BY <1>1, <1>2, RunningWaits DEF WaitsByHelper, OwnHelper, Kept
<1> QED BY <1>5, <1>6 DEF HelperKept

LEMMA DropHelperKept ==
  ASSUME Kept, NEW w \in Workers, DropHelper(w) PROVE HelperKept
<1>0. Strays(helpers[w] > 1) BY DEF DropHelper
<1> SUFFICES ASSUME ~strayed' PROVE HelperKept BY <1>0, StrayedStays
<1>1. /\ Running(w) /\ helpers' = [helpers EXCEPT ![w] = @ - 1]
      /\ currentYieldHelper' = nullptr /\ helpers[w] = 1
      /\ frames' = frames /\ pc' = pc /\ yielding' = yielding
  <2>1. ~(helpers[w] > 1) BY <1>0, StrayedStays
  <2> QED BY <2>1, KeptFacts DEF DropHelper, vars
<1>2. helpers'[w] = 0 /\ \A v \in Workers \ {w} : helpers'[v] = helpers[v]
  BY <1>1, KeptFacts
<1>3. AllFree(frames', helpers')
  <2>1. LowerFree(frames, helpers') BY <1>1, <1>2, KeptFacts, StackWorkers DEF LowerFree
  <2> QED BY <1>1, <1>2, <2>1, RunningWaits, KeptFacts, FreeStack
<1>4. Own(frames', helpers', currentYieldHelper') BY <1>1, <1>3, KeptFacts, FreeOwn
<1>5. ASSUME NEW v \in Workers PROVE WaitsByHelper(v)'
  BY <1>1, <1>2, RunningWaits DEF WaitsByHelper, OwnHelper, Kept
<1> QED BY <1>4, <1>5 DEF HelperKept

LEMMA SuspendKept ==
  ASSUME Kept, NEW w \in Workers, Suspend(w), helpers' = helpers,
         currentYieldHelper' = nullptr,
         IF helpers[w] > 0 THEN yielding' = [yielding EXCEPT ![w] = OwnHelper(w)]
                           ELSE yielding' = yielding
  PROVE  HelperKept
<1>1. Running(w) /\ pc' = [pc EXCEPT ![w] = "blocked"] /\ frames' = Tail(frames)
  BY DEF Suspend
<1>2. Own(frames', helpers', currentYieldHelper') BY <1>1, RunningWaits, FreeOwn
<1>3. ASSUME NEW v \in Workers PROVE WaitsByHelper(v)'
  <2>1. CASE v # w BY <1>1, <2>1, KeptFacts DEF WaitsByHelper, OwnHelper, Kept, HelperTypes
  <2>2. CASE v = w
    <3>1. pc'[w] = "blocked" BY <1>1, KeptFacts
    <3>2. CASE helpers[w] > 0
      <4>1. yielding'[w] = OwnHelper(w) BY <3>2 DEF Kept, HelperTypes
      <4> QED BY <2>2, <3>1, <3>2, <4>1 DEF WaitsByHelper, OwnHelper, Helper, nullptr
    <3>3. CASE ~(helpers[w] > 0)
      <4>1. helpers[w] = 0 BY <3>3, KeptFacts
      <4> QED BY <1>1, <2>2, <3>3, <4>1, RunningWaits DEF WaitsByHelper
    <3> QED BY <3>2, <3>3
  <2> QED BY <2>1, <2>2
<1> QED BY <1>2, <1>3 DEF HelperKept

LEMMA BeforeYieldKept ==
  ASSUME Kept, NEW w \in Workers, BeforeYield(w) PROVE HelperKept
<1>1. Running(w) BY DEF BeforeYield, Suspend
<1>2. helpers[w] \in Nat /\ 1 .. helpers[w] # {} BY KeptFacts DEF BeforeYield
<1>3. helpers[w] > 0 BY <1>2
<1>4. currentYieldHelper = OwnHelper(w) BY <1>1, <1>3, KeptFacts DEF Kept, Own, OwnHelper
<1> QED BY <1>3, <1>4, SuspendKept DEF BeforeYield

LEMMA PlainYieldKept ==
  ASSUME Kept, NEW w \in Workers, PlainYield(w) PROVE HelperKept
<1>0. Strays(helpers[w] > 0) BY DEF PlainYield
<1> SUFFICES ASSUME ~strayed' PROVE HelperKept BY <1>0, StrayedStays
<1>1. Running(w) /\ ~(helpers[w] > 0) BY <1>0, StrayedStays DEF PlainYield, Suspend
<1>2. helpers[w] = 0 BY <1>1, KeptFacts
<1>3. currentYieldHelper' = nullptr BY <1>1, <1>2, RunningWaits DEF PlainYield
<1> QED BY <1>1, <1>3, SuspendKept DEF PlainYield

\* A worker gets control, or gives it up, with no helper.
LEMMA MovesKept ==
  ASSUME Kept, NEW w \in Workers, NEW callers \in Seq(Frames), AllFree(callers, helpers'),
         \/ frames' = callers
         \/ frames' = <<[call |-> "CtxHolder", ctx |-> w]>> \o callers,
         currentYieldHelper' = nullptr, helpers'[w] = 0,
         \A v \in Workers \ {w} : helpers'[v] = helpers[v] /\ pc'[v] = pc[v],
         yielding' = yielding, yielding[w] = nullptr
  PROVE  HelperKept
<1> DEFINE f == [call |-> "CtxHolder", ctx |-> w]
<1>1. AllFree(frames', helpers') /\ frames' \in Seq(Frames)
  <2>1. CASE frames' = callers BY <2>1
  <2>2. CASE frames' = <<f>> \o callers
    <3>1. f \in Frames BY DEF Frames, CtxHolderFrame
    <3>2. On(w, frames') /\ \A v : On(v, frames') => v = w BY <2>2, <3>1 DEF On
    <3>3. LowerFree(frames', helpers') /\ frames' \in Seq(Frames)
      BY <2>2, <3>1, FreePush, StackPush
    <3> QED BY <3>2, <3>3, FreeStack
  <2> QED BY <2>1, <2>2
<1>2. Own(frames', helpers', currentYieldHelper') BY <1>1, FreeOwn
<1>3. ASSUME NEW v \in Workers PROVE WaitsByHelper(v)'
  BY DEF WaitsByHelper, OwnHelper, Kept
<1> QED BY <1>2, <1>3 DEF HelperKept

LEMMA EnterOrTake ==
  ASSUME NEW w, NEW callers,
         Enter(w, callers) \/ TakeJob(w, callers) \/ Sleep(w, callers) \/ Exit(w, callers)
  PROVE  /\ \/ frames' = callers
            \/ frames' = <<[call |-> "CtxHolder", ctx |-> w]>> \o callers
         /\ \E place : pc' = [pc EXCEPT ![w] = place]
  BY DEF Enter, TakeJob, Sleep, Exit, Leave

LEMMA FinishJobKept ==
  ASSUME Kept, NEW w \in Workers, FinishJob(w) PROVE HelperKept
<1>1. Running(w) /\ yielding' = yielding BY DEF FinishJob, Finish
<1>2. helpers'[w] = 0 /\ \A v \in Workers \ {w} : helpers'[v] = helpers[v]
  BY KeptFacts DEF FinishJob
<1>3. AllFree(Tail(frames), helpers') BY <1>1, <1>2, RunningWaits, FreeOther
<1>4. currentYieldHelper' = nullptr BY <1>1, KeptFacts, RunningWaits DEF FinishJob
<1>5. /\ \/ frames' = Tail(frames)
         \/ frames' = <<[call |-> "CtxHolder", ctx |-> w]>> \o Tail(frames)
      /\ \E place : pc' = [pc EXCEPT ![w] = place]
  BY EnterOrTake DEF FinishJob, Finish
<1>6. \A v \in Workers \ {w} : pc'[v] = pc[v] BY <1>5, KeptFacts
<1> QED BY <1>1, <1>2, <1>3, <1>4, <1>5, <1>6, RunningWaits, MovesKept

LEMMA AfterResumeKept ==
  ASSUME Kept, AfterResume PROVE HelperKept
<1> DEFINE w == Head(io)
           callers == IF InRunQueue THEN [frames EXCEPT ![1].at = "poll"] ELSE frames
<1>1. /\ io \in Seq(Workers) /\ io # <<>> /\ IoOK(pc, io)
      /\ (frames = <<>> \/ InRunQueue) /\ UNCHANGED helpers
  BY KeptFacts, ResumedOnceParts DEF AfterResume, RunHandler, TypeOK
<1>2. w \in Workers /\ Has(io, w) BY <1>1, QueueTail DEF IoOK
<1>3. pc[w] \in Queued BY <1>1, <1>2 DEF IoOK
<1>4. \A v \in Workers : ~Running(v) BY <1>1 DEF Running, InRunQueue
<1>5. AllFree(frames, helpers) /\ currentYieldHelper = nullptr BY <1>4, NobodyRuns
<1>6. callers \in Seq(Frames) /\ AllFree(callers, helpers)
  <2>1. CASE ~InRunQueue BY <1>5, <2>1, KeptFacts
  <2>2. CASE InRunQueue BY <1>5, <2>2, KeptFacts, FreeGoesOn
  <2> QED BY <2>1, <2>2
<1>7. /\ \/ pc[w] = "ready" /\ Continue(w, callers)
         \/ pc[w] # "ready" /\ Enter(w, callers)
      /\ IF pc[w] = "ready" /\ yielding[w] # nullptr
         THEN /\ currentYieldHelper' = yielding[w]
              /\ yielding' = [yielding EXCEPT ![w] = nullptr]
         ELSE UNCHANGED <<currentYieldHelper, yielding>>
      /\ helpers' = helpers
  BY DEF AfterResume, RunHandler
<1> HIDE DEF w, callers
<1>8. /\ \/ frames' = callers
         \/ frames' = <<[call |-> "CtxHolder", ctx |-> w]>> \o callers
      /\ \E place : pc' = [pc EXCEPT ![w] = place]
  BY <1>7, EnterOrTake DEF Continue
<1>9. \A v \in Workers \ {w} : pc'[v] = pc[v] BY <1>8, KeptFacts
<1>10. CASE pc[w] = "ready" /\ yielding[w] # nullptr
  <2>1. /\ frames' = <<[call |-> "CtxHolder", ctx |-> w]>> \o callers
        /\ pc'[w] = "job"
    BY <1>2, <1>7, <1>10, KeptFacts DEF Continue
  <2>2. currentYieldHelper' = Helper(w, helpers[w]) /\ helpers[w] > 0
    BY <1>2, <1>7, <1>10 DEF Kept, WaitsByHelper, OwnHelper
  <2>3. yielding'[w] = nullptr /\ \A v \in Workers \ {w} : yielding'[v] = yielding[v]
    BY <1>2, <1>7, <1>10 DEF Kept, HelperTypes
  <2>4. Own(frames', helpers', currentYieldHelper')
    <3> DEFINE f == [call |-> "CtxHolder", ctx |-> w]
    <3>1. f \in Frames BY <1>2 DEF Frames, CtxHolderFrame
    <3>2. On(w, frames') /\ \A v : On(v, frames') => v = w BY <1>6, <2>1, <3>1 DEF On
    <3>3. LowerFree(frames', helpers') BY <1>6, <1>7, <2>1, <3>1, FreePush
    <3> QED BY <1>2, <1>7, <2>2, <3>2, <3>3 DEF Own
  <2>5. ASSUME NEW v \in Workers PROVE WaitsByHelper(v)'
    BY <1>7, <1>9, <2>1, <2>3 DEF WaitsByHelper, OwnHelper, Kept
  <2> QED BY <2>4, <2>5 DEF HelperKept
<1>11. CASE ~(pc[w] = "ready" /\ yielding[w] # nullptr)
  <2>1. yielding[w] = nullptr
    BY <1>2, <1>3, <1>11 DEF Kept, WaitsByHelper, Queued
  <2>2. helpers[w] = 0 BY <1>2, <1>3, <2>1 DEF Kept, WaitsByHelper, Queued
  <2> QED BY <1>2, <1>5, <1>6, <1>7, <1>8, <1>9, <1>11, <2>1, <2>2, MovesKept
<1> QED BY <1>10, <1>11

\* A step of the pool that moves no worker but those that sleep.
LEMMA StackKept ==
  ASSUME Kept, UNCHANGED <<helpers, yielding>>,
         \A w \in Workers : \/ pc'[w] = pc[w]
                            \/ pc[w] \in {"asleep", "blocked"} /\ pc'[w] \in {"woken", "ready"}
                                 /\ (pc[w] = "blocked" => pc'[w] = "ready"),
         Own(frames', helpers', currentYieldHelper')
  PROVE  HelperKept
<1>1. ASSUME NEW v \in Workers PROVE WaitsByHelper(v)'
  BY DEF WaitsByHelper, OwnHelper, Kept
<1> QED BY <1>1 DEF HelperKept

\* A call puts nothing on the stack but a RunQueue() frame.
LEMMA CallShape ==
  ASSUME Kept, Calls
  PROVE  /\ \A w \in Workers : pc'[w] = pc[w] \/ (pc[w] = "asleep" /\ pc'[w] = "woken")
         /\ \/ frames' = frames
            \/ \E f \in Frames : f.call = "RunQueue" /\ frames' = <<f>> \o frames
<1>1. ASSUME NEW n \in Nat, NEW h \in Jobs \cup {None}, BeginRunQueue(n, h)
      PROVE  \E f \in Frames : f.call = "RunQueue" /\ frames' = <<f>> \o frames
  <2>1. [call |-> "RunQueue", at |-> "run_one", want |-> handlers_processed + n,
         handler |-> h] \in Frames
    BY ProcessedCounted, KeptFacts DEF Frames, RunQueueFrame
  <2> QED BY <1>1, <2>1 DEF BeginRunQueue
<1>2. ResumeCoroutine \/ UNCHANGED pc
  BY DEF Calls, Schedule, Dispatch, RunQueue, Shutdown, BeginRunQueue
<1>3. \A w \in Workers : pc'[w] = pc[w] \/ (pc[w] = "asleep" /\ pc'[w] = "woken")
  BY <1>2, KeptFacts, ResumeFacts
<1>4. Len(handler_queue) + 1 \in Nat BY KeptFacts DEF TypeOK
<1>5. ASSUME NEW j \in Jobs, Schedule(j) PROVE frames' = frames BY <1>5 DEF Schedule
<1>6. ASSUME NEW j \in Jobs, Dispatch(j)
      PROVE  \E f \in Frames : f.call = "RunQueue" /\ frames' = <<f>> \o frames
  BY <1>1, <1>4, <1>6 DEF Dispatch
<1>7. ASSUME NEW n \in MaxNums, RunQueue(n)
      PROVE  \E f \in Frames : f.call = "RunQueue" /\ frames' = <<f>> \o frames
  BY <1>1, <1>7, NoneNoJob DEF RunQueue
<1>8. Shutdown => \/ frames' = frames
                  \/ \E f \in Frames : f.call = "RunQueue" /\ frames' = <<f>> \o frames
  BY <1>1 DEF Shutdown
<1> QED BY <1>3, <1>5, <1>6, <1>7, <1>8 DEF Calls

LEMMA CallPoolKept ==
  ASSUME Kept, CallPool PROVE HelperKept
<1>0. Strays(frames' # frames /\ \E w \in Workers : Running(w) /\ helpers[w] > 0)
  BY DEF CallPool
<1> SUFFICES ASSUME ~strayed' PROVE HelperKept BY <1>0, StrayedStays
<1>1. UNCHANGED <<currentYieldHelper, helpers, yielding>> BY DEF CallPool
<1>2. \/ frames' = frames
      \/ \E f \in Frames : f.call = "RunQueue" /\ frames' = <<f>> \o frames
  BY CallShape DEF CallPool
<1>3. ASSUME NEW f \in Frames, f.call = "RunQueue", frames' = <<f>> \o frames
      PROVE  Own(frames', helpers', currentYieldHelper')
  <2>1. frames' # frames
    <3>1. Len(<<f>> \o frames) = Len(frames) + 1 /\ Len(frames) \in Nat BY KeptFacts
    <3> QED BY <1>3, <3>1
  <2>2. \A w \in Workers : On(w, frames) => helpers[w] = 0
    <3>1. \A w \in Workers : ~(Running(w) /\ helpers[w] > 0)
      BY <1>0, <2>1, StrayedStays
    <3> QED BY <3>1, KeptFacts
  <2>3. AllFree(frames, helpers) /\ currentYieldHelper = nullptr
    BY <2>2, KeptFacts, OwnFree DEF Kept
  <2> QED BY <1>1, <1>3, <2>3, KeptFacts, StackPush, FreePush, FreeOwn
<1>4. Own(frames', helpers', currentYieldHelper') BY <1>1, <1>2, <1>3 DEF Kept
<1> QED BY <1>1, <1>4, CallShape, StackKept DEF CallPool

LEMMA ElsewhereKept ==
  ASSUME Kept, Elsewhere PROVE HelperKept
<1>1. UNCHANGED <<currentYieldHelper, helpers, yielding>> BY DEF Elsewhere, yvars
<1>2. ASSUME NEW w \in Workers, Complete(w) PROVE HelperKept
  BY <1>1, <1>2, StackKept, KeptFacts DEF Complete, Kept
<1>3. CASE RunOther \/ PollReturns
  <2>1. InRunQueue /\ frames # <<>> BY <1>3 DEF RunOther, PollReturns, InRunQueue
  <2>2. \A w \in Workers : ~Running(w) BY <2>1 DEF Running, InRunQueue
  <2>3. AllFree(frames, helpers) /\ currentYieldHelper = nullptr BY <2>2, NobodyRuns
  <2>4. \A w \in Workers : pc'[w] = pc[w] \/ (pc[w] = "asleep" /\ pc'[w] = "woken")
    BY <1>3, KeptFacts, ResumeFacts DEF RunOther, PollReturns
  <2>5. \/ \E place \in {"run_one", "poll"} : frames' = [frames EXCEPT ![1].at = place]
        \/ frames' = Tail(frames)
    BY <1>3 DEF RunOther, PollReturns
  <2>6. frames' \in Seq(Frames) /\ AllFree(frames', helpers)
    <3>1. CASE frames' = Tail(frames)
      <4>1. LowerFree(frames, helpers) BY KeptFacts
      <4> QED BY <2>1, <3>1, <4>1, KeptFacts, FreeTail, HeadTailProperties
    <3>2. ASSUME NEW place \in {"run_one", "poll"},
                 frames' = [frames EXCEPT ![1].at = place]
          PROVE  frames' \in Seq(Frames) /\ AllFree(frames', helpers)
      BY <2>1, <2>3, <3>2, KeptFacts, FreeGoesOn
    <3> QED BY <2>5, <3>1, <3>2
  <2>7. Own(frames', helpers', currentYieldHelper') BY <1>1, <2>3, <2>6, FreeOwn
  <2> QED BY <1>1, <2>4, <2>7, StackKept
<1> QED BY <1>2, <1>3 DEF Elsewhere

-------------------------------------------------------------------------------
\* The pool does what it does without helpers.
LEMMA YieldNextIsNext == [YieldNext]_<<vars, yvars>> => [Next]_vars
  BY DEF YieldNext, CallPool, AfterResume, Elsewhere, MakeHelper, DropHelper, BeforeYield,
         PlainYield, FinishJob, Next, WorkerStep

LEMMA HelperTypesStep ==
  ASSUME HelperTypes, YieldNext PROVE HelperTypes'
<1>1. ASSUME NEW w \in Workers, MakeHelper(w) PROVE HelperTypes'
  BY <1>1 DEF MakeHelper, HelperTypes
<1>2. ASSUME NEW w \in Workers, DropHelper(w) PROVE HelperTypes'
  <2>1. strayed' \in BOOLEAN BY <1>2, StrayedStays DEF DropHelper
  <2> QED BY <1>2, <2>1 DEF DropHelper, HelperTypes
<1>3. ASSUME NEW w \in Workers, BeforeYield(w) PROVE HelperTypes'
  <2>1. helpers[w] \in Nat /\ currentYieldHelper \in {Helper(w, n) : n \in 1 .. helpers[w]}
    BY <1>3 DEF BeforeYield, HelperTypes
  <2>2. currentYieldHelper \in Workers \X Nat BY <2>1 DEF Helper
  <2> QED BY <1>3, <2>2 DEF BeforeYield, HelperTypes
<1>4. ASSUME NEW w \in Workers, PlainYield(w) PROVE HelperTypes'
  <2>1. strayed' \in BOOLEAN BY <1>4, StrayedStays DEF PlainYield
  <2> QED BY <1>4, <2>1 DEF PlainYield, HelperTypes
<1>5. ASSUME NEW w \in Workers, FinishJob(w) PROVE HelperTypes'
  BY <1>5 DEF FinishJob, HelperTypes
<1>6. CASE CallPool
  <2>1. strayed' \in BOOLEAN BY <1>6, StrayedStays DEF CallPool
  <2> QED BY <1>6, <2>1 DEF CallPool, HelperTypes
<1>7. CASE AfterResume \/ Elsewhere
  BY <1>7 DEF AfterResume, Elsewhere, yvars, HelperTypes
<1> QED BY <1>1, <1>2, <1>3, <1>4, <1>5, <1>6, <1>7 DEF YieldNext

YieldInv == PoolInv /\ HelperInv

LEMMA YieldInitInv == YieldInit => YieldInv
<1> SUFFICES ASSUME YieldInit PROVE YieldInv OBVIOUS
<1>1. PoolInv BY InitInv DEF YieldInit
<1>2. HelperTypes BY DEF YieldInit, HelpersInit, HelperTypes
<1>3. frames = <<>> BY DEF YieldInit, Init
<1>4. <<>> \in Seq(Frames) /\ AllFree(<<>>, helpers) BY DEF AllFree, Ctx
<1>5. Own(frames, helpers, currentYieldHelper)
  BY <1>3, <1>4, FreeOwn DEF YieldInit, HelpersInit
<1>6. \A w \in Workers : WaitsByHelper(w)
  BY DEF YieldInit, HelpersInit, WaitsByHelper
<1> QED BY <1>1, <1>2, <1>5, <1>6 DEF YieldInv, HelperInv

LEMMA YieldStep == YieldInv /\ [YieldNext]_<<vars, yvars>> => YieldInv'
<1> SUFFICES ASSUME YieldInv, [YieldNext]_<<vars, yvars>> PROVE YieldInv' OBVIOUS
<1>1. PoolInv' BY YieldNextIsNext, NextInv DEF YieldInv
<1>2. CASE UNCHANGED <<vars, yvars>>
  BY <1>1, <1>2
  DEF YieldInv, HelperInv, HelperTypes, Own, WaitsByHelper, OwnHelper, LowerFree, vars, yvars
<1>3. CASE YieldNext
  <2>1. HelperTypes' BY <1>3, HelperTypesStep DEF YieldInv, HelperInv
  <2>2. strayed => strayed'
    BY <1>3 DEF YieldNext, CallPool, AfterResume, Elsewhere, yvars, MakeHelper, DropHelper,
                BeforeYield, PlainYield, FinishJob, Strays
  <2>3. CASE strayed BY <1>1, <2>1, <2>2, <2>3 DEF YieldInv, HelperInv
  <2>4. CASE ~strayed
    <3>1. Kept BY <2>4 DEF Kept, YieldInv, HelperInv
    <3>2. HelperKept
      BY <1>3, <3>1, MakeHelperKept, DropHelperKept, BeforeYieldKept, PlainYieldKept,
         FinishJobKept, AfterResumeKept, CallPoolKept, ElsewhereKept
      DEF YieldNext
    <3> QED BY <1>1, <2>1, <3>2 DEF HelperKept, YieldInv, HelperInv
  <2> QED BY <2>3, <2>4
<1> QED BY <1>2, <1>3

(***************************************************************************)
(* Whatever runs while a job waits in YIELDHELPER, and however the calls   *)
(* nest: a job that has a helper finds it in currentYieldHelper when it    *)
(* runs, and nobody else finds one there, as long as jobs keep the rules.  *)
(***************************************************************************)
THEOREM HelperStaysOwn == YieldSpec => []HelperIsOwn
<1>1. YieldInv => HelperIsOwn
  <2> SUFFICES ASSUME YieldInv PROVE HelperIsOwn OBVIOUS
  <2>1. \A w : On(w, frames) <=> Running(w) BY DEF On, Running
  <2> QED BY <2>1 DEF YieldInv, HelperInv, Own, HelperIsOwn, OwnHelper
<1> QED BY <1>1, YieldInitInv, YieldStep, PTL DEF YieldSpec

(***************************************************************************)
(* The pool that runs jobs with helpers is the pool: what is proved of it  *)
(* holds here, and helpers make it do nothing it does not do without.      *)
(***************************************************************************)
THEOREM HelpersKeepPool == YieldSpec => Spec
<1>1. YieldInit => Init BY DEF YieldInit
<1> QED BY <1>1, YieldNextIsNext, PTL DEF YieldSpec, Spec
================================================================================
