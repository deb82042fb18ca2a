----------------------------- MODULE CoroutinePool -----------------------------
(***************************************************************************)
(* CoroutinePool (src/couroutine_pool.cpp): a fixed set of coroutines, the *)
(* workers, each running CtxHolder(), that serve a queue of jobs inside an *)
(* io_service run by one thread.                                           *)
(*                                                                         *)
(* A worker gives up control in two places only: asleep in CtxHolder, its  *)
(* address in free_ctx, and inside a job that waits for something.  What   *)
(* runs between two such places is one handler of the io_service, and a    *)
(* step here is a piece of it that ends where the user's code (a job, or   *)
(* any other handler of the service) may call the pool.                    *)
(*                                                                         *)
(* RunQueue() runs handlers of the io_service from inside one, so calls    *)
(* nest: `frames' is the stack of RunQueue() and CtxHolder calls that are  *)
(* in progress, innermost first.  With frames = <<>> control is with       *)
(* io_service::run() or with a handler that is not the pool's; the service *)
(* has other work than the pool's and is never stopped.                    *)
(***************************************************************************)
EXTENDS Naturals, Sequences, FiniteSets

CONSTANTS
  Workers,   \* poolsize of them
  Jobs,      \* the handlers given to Schedule() and Dispatch(), once each
  JobCalls,  \* the calls that jobs make: some of Schedule, Dispatch, RunQueue, Shutdown
  MaxNums,   \* the arguments of RunQueue()
  None       \* no job

ASSUME PoolFinite == IsFiniteSet(Workers) /\ IsFiniteSet(Jobs)
ASSUME NoneNoJob == None \notin Jobs /\ MaxNums \subseteq Nat

VARIABLES
  handler_queue, free_ctx, shutdown,  \* as in the code
  processed,  \* the jobs that have returned: handlers_processed of them
  given,      \* the jobs given so far
  pc, job,    \* where each worker is, the job it is in
  io,         \* the workers whose handler is queued at the io_service
  frames
vars == <<handler_queue, free_ctx, shutdown, processed, given, pc, job, io, frames>>

handlers_processed == Cardinality(processed)

\* spawned, woken, ready: to be started, resumed in CtxHolder, resumed in its job.
Queued == {"spawned", "woken", "ready"}
InJob == {"job", "blocked", "ready"}
Places == Queued \cup InJob \cup {"asleep", "exited"}

RunQueueFrame == [call : {"RunQueue"}, at : {"run_one", "poll"}, want : Nat,
                  handler : Jobs \cup {None}]
CtxHolderFrame == [call : {"CtxHolder"}, ctx : Workers]

Running(w) == frames # <<>> /\ Head(frames) = [call |-> "CtxHolder", ctx |-> w]
InRunQueue == frames # <<>> /\ Head(frames).call = "RunQueue"
May(call) == frames = <<>> \/ (call \in JobCalls /\ \E w \in Workers : Running(w))

(***************************************************************************)
(* The constructor spawns the workers.  Called from a handler of the       *)
(* io_service, spawn() runs each at once, up to its sleep; called from     *)
(* outside, it queues their first run.                                     *)
(***************************************************************************)
Init ==
  /\ handler_queue = <<>> /\ shutdown = FALSE
  /\ processed = {} /\ given = {} /\ frames = <<>>
  /\ job = [w \in Workers |-> None]
  /\ \/ /\ pc = [w \in Workers |-> "asleep"] /\ free_ctx = Workers /\ io = <<>>
     \/ /\ pc = [w \in Workers |-> "spawned"] /\ free_ctx = {}
        /\ io \in {q \in [1..Cardinality(Workers) -> Workers] :
                     \A w \in Workers : \E k \in DOMAIN q : q[k] = w}

\* Mutant: the worker stays in free_ctx.
ResumeCoroutineKeeping ==
  \/ free_ctx = {} /\ UNCHANGED <<free_ctx, pc, io>>
  \/ \E w \in free_ctx :
       /\ pc' = [pc EXCEPT ![w] = "woken"]
       /\ io' = Append(io, w)
       /\ UNCHANGED free_ctx

\* The first of free_ctx is the one with the lowest address: any of them.
ResumeCoroutine ==
  \/ free_ctx = {} /\ UNCHANGED <<free_ctx, pc, io>>
  \/ \E w \in free_ctx :
       /\ free_ctx' = free_ctx \ {w}
       /\ pc' = [pc EXCEPT ![w] = "woken"]
       /\ io' = Append(io, w)

(***************************************************************************)
(* The calls.  RunQueue() with an empty queue returns at once; otherwise   *)
(* it resumes a worker and comes to run_one().                             *)
(***************************************************************************)
Give(j) ==
  /\ ~shutdown /\ j \notin given
  /\ given' = given \cup {j} /\ handler_queue' = Append(handler_queue, j)

BeginRunQueue(max_num, handler) ==
  /\ frames' = <<[call |-> "RunQueue", at |-> "run_one",
                  want |-> handlers_processed + max_num, handler |-> handler]>> \o frames
  /\ ResumeCoroutine

\* Mutant: nobody is resumed.
ScheduleSilently(j) ==
  /\ May("Schedule") /\ Give(j)
  /\ UNCHANGED <<shutdown, processed, job, frames, free_ctx, pc, io>>

Schedule(j) ==
  /\ May("Schedule") /\ Give(j) /\ ResumeCoroutine
  /\ UNCHANGED <<shutdown, processed, job, frames>>

Dispatch(j) ==
  /\ May("Dispatch") /\ Give(j) /\ BeginRunQueue(Len(handler_queue) + 1, j)
  /\ UNCHANGED <<shutdown, processed, job>>

RunQueue(max_num) ==
  /\ May("RunQueue") /\ handler_queue # <<>> /\ BeginRunQueue(max_num, None)
  /\ UNCHANGED <<handler_queue, given, shutdown, processed, job>>

Shutdown ==
  /\ May("Shutdown") /\ shutdown' = TRUE
  /\ \/ handler_queue = <<>> /\ UNCHANGED <<free_ctx, pc, io, frames>>
     \/ handler_queue # <<>> /\ BeginRunQueue(0, None)
  /\ UNCHANGED <<handler_queue, given, processed, job>>

(***************************************************************************)
(* The workers.  Each operator says where worker w goes, `callers' being   *)
(* the frames it returns to when it gives up control.                      *)
(***************************************************************************)
TakeJob(w, callers) ==
  /\ handler_queue # <<>>
  /\ job' = [job EXCEPT ![w] = Head(handler_queue)]
  /\ handler_queue' = Tail(handler_queue)
  /\ pc' = [pc EXCEPT ![w] = "job"]
  /\ frames' = <<[call |-> "CtxHolder", ctx |-> w]>> \o callers
  /\ UNCHANGED free_ctx

Leave(w, callers, place) ==
  /\ pc' = [pc EXCEPT ![w] = place]
  /\ job' = [job EXCEPT ![w] = None]
  /\ frames' = callers
  /\ UNCHANGED handler_queue

Sleep(w, callers) ==
  Leave(w, callers, "asleep") /\ free_ctx' = free_ctx \cup {w}
Exit(w, callers) ==
  Leave(w, callers, "exited") /\ UNCHANGED free_ctx

\* Mutant: a worker sleeps first and looks at the queue when it is resumed.
EnterSleeping(w, callers) ==
  \/ shutdown /\ Exit(w, callers)
  \/ ~shutdown /\ (pc[w] = "spawned" \/ handler_queue = <<>>) /\ Sleep(w, callers)
  \/ ~shutdown /\ pc[w] # "spawned" /\ TakeJob(w, callers)

\* CtxHolder from its start, or from where it slept.
Enter(w, callers) ==
  \/ shutdown /\ Exit(w, callers)
  \/ ~shutdown /\ handler_queue = <<>> /\ Sleep(w, callers)
  \/ ~shutdown /\ TakeJob(w, callers)

Continue(w, callers) ==
  /\ pc' = [pc EXCEPT ![w] = "job"]
  /\ frames' = <<[call |-> "CtxHolder", ctx |-> w]>> \o callers
  /\ UNCHANGED <<handler_queue, free_ctx, job>>

\* io_service::run(), or run_one() or poll() inside RunQueue().
RunHandler ==
  /\ io # <<>> /\ (frames = <<>> \/ InRunQueue)
  /\ LET w == Head(io)
         callers == IF InRunQueue THEN [frames EXCEPT ![1].at = "poll"] ELSE frames IN
     \/ pc[w] = "ready" /\ Continue(w, callers)
     \/ pc[w] # "ready" /\ Enter(w, callers)
  /\ io' = Tail(io)
  /\ UNCHANGED <<shutdown, processed, given>>

\* run_one() runs a handler that is not the pool's.
RunOther ==
  /\ InRunQueue /\ Head(frames).at = "run_one"
  /\ frames' = [frames EXCEPT ![1].at = "poll"]
  /\ UNCHANGED <<handler_queue, free_ctx, shutdown, processed, given, pc, job, io>>

\* Mutant: the loop ends at the count only, not when the queue is empty.
PollReturnsCounting ==
  /\ InRunQueue /\ Head(frames).at = "poll" /\ io = <<>>
  /\ \/ /\ Head(frames).want = handlers_processed
        /\ frames' = Tail(frames) /\ UNCHANGED <<free_ctx, pc, io>>
     \/ /\ Head(frames).want # handlers_processed
        /\ frames' = [frames EXCEPT ![1].at = "run_one"] /\ ResumeCoroutine
  /\ UNCHANGED <<handler_queue, shutdown, processed, given, job>>

\* poll() has run all there was: RunQueue() returns or goes on.
PollReturns ==
  /\ InRunQueue /\ Head(frames).at = "poll" /\ io = <<>>
  /\ \/ /\ handler_queue = <<>> \/ Head(frames).want = handlers_processed
        /\ frames' = Tail(frames) /\ UNCHANGED <<free_ctx, pc, io>>
     \/ /\ handler_queue # <<>> /\ Head(frames).want # handlers_processed
        /\ frames' = [frames EXCEPT ![1].at = "run_one"] /\ ResumeCoroutine
  /\ UNCHANGED <<handler_queue, shutdown, processed, given, job>>

\* The job waits: for a timer, a socket, a post() of its own.
Suspend(w) ==
  /\ Running(w)
  /\ pc' = [pc EXCEPT ![w] = "blocked"] /\ frames' = Tail(frames)
  /\ UNCHANGED <<handler_queue, free_ctx, shutdown, processed, given, job, io>>
Complete(w) ==
  /\ pc[w] = "blocked"
  /\ pc' = [pc EXCEPT ![w] = "ready"] /\ io' = Append(io, w)
  /\ UNCHANGED <<handler_queue, free_ctx, shutdown, processed, given, job, frames>>

\* Mutant: a worker that has drained the queue stays in its last job.
FinishKeepingJob(w) ==
  /\ Running(w)
  /\ processed' = processed \cup {job[w]}
  /\ \/ TakeJob(w, Tail(frames))
     \/ /\ handler_queue = <<>>
        /\ pc' = [pc EXCEPT ![w] = "asleep"] /\ frames' = Tail(frames)
        /\ free_ctx' = free_ctx \cup {w} /\ UNCHANGED <<handler_queue, job>>
  /\ UNCHANGED <<shutdown, given, io>>

\* The job returns.  The queue is drained even after Shutdown().
Finish(w) ==
  /\ Running(w)
  /\ processed' = processed \cup {job[w]}
  /\ \/ TakeJob(w, Tail(frames))
     \/ handler_queue = <<>> /\ shutdown /\ Exit(w, Tail(frames))
     \/ handler_queue = <<>> /\ ~shutdown /\ Sleep(w, Tail(frames))
  /\ UNCHANGED <<shutdown, given, io>>

Calls == \/ \E j \in Jobs : Schedule(j) \/ Dispatch(j)
         \/ \E n \in MaxNums : RunQueue(n)
         \/ Shutdown
WorkerStep(w) == Suspend(w) \/ Complete(w) \/ Finish(w)
Next == \/ Calls \/ RunHandler \/ RunOther \/ PollReturns
        \/ \E w \in Workers : WorkerStep(w)
Spec == Init /\ [][Next]_vars

\* The io_service runs, what a job waits for happens, and a job returns at last.
Fairness ==
  /\ WF_vars(RunHandler) /\ WF_vars(PollReturns)
  /\ \A w \in Workers : WF_vars(Complete(w)) /\ SF_vars(Finish(w))
FairSpec == Spec /\ Fairness

-------------------------------------------------------------------------------
TypeOK ==
  /\ handler_queue \in Seq(Jobs) /\ free_ctx \subseteq Workers /\ shutdown \in BOOLEAN
  /\ processed \subseteq Jobs /\ given \subseteq Jobs
  /\ pc \in [Workers -> Places] /\ job \in [Workers -> Jobs \cup {None}]
  /\ io \in Seq(Workers) /\ frames \in Seq(RunQueueFrame \cup CtxHolderFrame)
  /\ \A w \in Workers : job[w] # None <=> pc[w] \in InJob

(***************************************************************************)
(* A coroutine is resumed where it waits, and once: a worker has a handler *)
(* queued if and only if it is to be run, has one at most, and is in       *)
(* free_ctx if and only if it sleeps with none queued; a worker that calls *)
(* have nested on is in its job, and is on the stack once.  Resuming a     *)
(* coroutine that runs, that has returned, or that waits elsewhere would   *)
(* be undefined.  No sleeping worker is lost.                              *)
(***************************************************************************)
OnStack(k) == k \in DOMAIN frames /\ frames[k].call = "CtxHolder"
ResumedOnce ==
  /\ \A w \in Workers : pc[w] \in Queued <=> \E k \in DOMAIN io : io[k] = w
  /\ \A k, l \in DOMAIN io : io[k] = io[l] => k = l
  /\ \A w \in Workers : pc[w] = "asleep" <=> w \in free_ctx
  /\ \A k \in DOMAIN frames : OnStack(k) => pc[frames[k].ctx] = "job"
  /\ \A k, l \in DOMAIN frames :
       OnStack(k) /\ OnStack(l) /\ frames[k].ctx = frames[l].ctx => k = l

(***************************************************************************)
(* No job waits while a worker sleeps for want of one: if a worker is in   *)
(* free_ctx, each job in the queue has a worker of its own on its way to   *)
(* the queue (Schedule wakes one per job; CtxHolder skips the sleep when   *)
(* there is a job).                                                        *)
(***************************************************************************)
Coming == {w \in Workers : pc[w] \in {"spawned", "woken"}}
NoIdleWorker ==
  ~shutdown /\ free_ctx # {} => Len(handler_queue) <= Cardinality(Coming)

(***************************************************************************)
(* Dispatch() is documented to block "until given handler is processed".   *)
(* It returns when the queue is empty, which it is as soon as the handler  *)
(* has been taken from it, and when as many handlers have been processed   *)
(* as were queued, whichever they are.                                     *)
(***************************************************************************)
DispatchBlocks ==
  [][InRunQueue /\ frames' = Tail(frames) /\ Head(frames).handler # None
       => Head(frames).handler \in processed]_vars

(***************************************************************************)
(* Liveness, as long as no job calls RunQueue(): a job that does so while  *)
(* the others are all in jobs of their own waits for them for ever if they *)
(* wait for it.                                                            *)
(***************************************************************************)
Nested == \E k \in DOMAIN frames : frames[k].call = "RunQueue" /\ k < Len(frames)

\* Every job is run to its end, unless the pool is shut down.
EveryJobRuns == \A j \in Jobs : j \in given ~> j \in processed \/ shutdown \/ Nested

\* RunQueue(), called from outside the pool, returns, unless it is shut down.
RunQueueReturns == InRunQueue ~> frames = <<>> \/ shutdown \/ Nested
===============================================================================
