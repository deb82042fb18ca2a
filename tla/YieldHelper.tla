------------------------------ MODULE YieldHelper ------------------------------
(***************************************************************************)
(* YieldHelper (src/yield_helper.cpp, lib/yield_helper.hpp) in the jobs of *)
(* a CoroutinePool: one global, currentYieldHelper, through which a job    *)
(* finds its own yield_context, and which all coroutines share.            *)
(*                                                                         *)
(* A helper lives in a scope of a job.  A job that waits by YIELDHELPER    *)
(* leaves the global null and finds its helper there when it is resumed; a *)
(* job that waits in another way, by its yield_context or inside           *)
(* RunQueue(), does not.  A use of YIELDHELPER that fails its assertion,   *)
(* or would yield with the yield_context of another job, is not followed.  *)
(***************************************************************************)
EXTENDS CoroutinePool

CONSTANT MaxHelpers  \* bound: helpers of one job, each in the scope of another

ASSUME HelpersBounded == MaxHelpers \in Nat

VARIABLES
  currentYieldHelper,
  helpers,   \* how many helpers the job in each worker has
  yielding,  \* the helper whose YIELDHELPER each worker waits in
  strayed    \* whether a helper's rules have been broken, see below
yvars == <<currentYieldHelper, helpers, yielding, strayed>>

nullptr == <<>>
Helper(w, n) == <<w, n>>
OwnHelper(w) == Helper(w, helpers[w])

HelpersInit ==
  /\ currentYieldHelper = nullptr /\ strayed = FALSE
  /\ helpers = [w \in Workers |-> 0]
  /\ yielding = [w \in Workers |-> nullptr]

(***************************************************************************)
(* The rules: a job with a helper gives up control by YIELDHELPER only,    *)
(* and has no other helper in the scope of the first.                      *)
(***************************************************************************)
Strays(breaks) == strayed' = (strayed \/ breaks)

MakeHelper(w) ==
  /\ Running(w) /\ helpers[w] < MaxHelpers
  /\ helpers' = [helpers EXCEPT ![w] = @ + 1]
  /\ currentYieldHelper' = Helper(w, helpers[w] + 1)
  /\ UNCHANGED <<vars, yielding, strayed>>

DropHelper(w) ==
  /\ Running(w) /\ helpers[w] > 0
  /\ helpers' = [helpers EXCEPT ![w] = @ - 1]
  /\ currentYieldHelper' = nullptr
  /\ Strays(helpers[w] > 1)
  /\ UNCHANGED <<vars, yielding>>

\* Wrong: the global is left to whoever runs next.
BeforeYieldKeeping(w) ==
  /\ Suspend(w) /\ currentYieldHelper \in {Helper(w, n) : n \in 1 .. helpers[w]}
  /\ yielding' = [yielding EXCEPT ![w] = currentYieldHelper]
  /\ UNCHANGED <<currentYieldHelper, helpers, strayed>>

BeforeYield(w) ==
  /\ Suspend(w) /\ currentYieldHelper \in {Helper(w, n) : n \in 1 .. helpers[w]}
  /\ yielding' = [yielding EXCEPT ![w] = currentYieldHelper]
  /\ currentYieldHelper' = nullptr
  /\ UNCHANGED <<helpers, strayed>>

PlainYield(w) ==
  /\ Suspend(w) /\ Strays(helpers[w] > 0)
  /\ UNCHANGED <<currentYieldHelper, helpers, yielding>>

\* A handler of the pool runs: a job that waited by YIELDHELPER sets the global.
AfterResume ==
  /\ RunHandler
  /\ LET w == Head(io) IN
     IF pc[w] = "ready" /\ yielding[w] # nullptr
     THEN /\ currentYieldHelper' = yielding[w]
          /\ yielding' = [yielding EXCEPT ![w] = nullptr]
     ELSE UNCHANGED <<currentYieldHelper, yielding>>
  /\ UNCHANGED <<helpers, strayed>>

\* The end of a job is that of its helpers.
FinishJob(w) ==
  /\ Finish(w)
  /\ helpers' = [helpers EXCEPT ![w] = 0]
  /\ currentYieldHelper' = IF helpers[w] > 0 THEN nullptr ELSE currentYieldHelper
  /\ UNCHANGED <<yielding, strayed>>

\* Jobs run inside a RunQueue() find the global as its caller has left it.
CallPool ==
  /\ Calls
  /\ Strays(frames' # frames /\ \E w \in Workers : Running(w) /\ helpers[w] > 0)
  /\ UNCHANGED <<currentYieldHelper, helpers, yielding>>

Elsewhere ==
  /\ RunOther \/ PollReturns \/ \E w \in Workers : Complete(w)
  /\ UNCHANGED yvars

YieldInit == Init /\ HelpersInit
YieldNext ==
  \/ CallPool \/ AfterResume \/ Elsewhere
  \/ \E w \in Workers : \/ MakeHelper(w) \/ DropHelper(w)
                        \/ BeforeYield(w) \/ PlainYield(w) \/ FinishJob(w)

YieldSpec == YieldInit /\ [][YieldNext]_<<vars, yvars>>
FairYieldSpec == YieldSpec /\ Fairness
-------------------------------------------------------------------------------
(***************************************************************************)
(* As long as the rules are kept: a job that has a helper finds it in      *)
(* currentYieldHelper whenever it runs, whatever ran while it waited, so   *)
(* YIELDHELPER neither fails its assertion nor takes another coroutine's   *)
(* yield_context; and nobody else finds one there, a job without a helper, *)
(* a handler of the service or one that calls the pool from outside.       *)
(***************************************************************************)
HelperIsOwn ==
  strayed \/ /\ \A w \in Workers : Running(w) /\ helpers[w] > 0
                                     => currentYieldHelper = OwnHelper(w)
             /\ currentYieldHelper # nullptr
                  => \E w \in Workers : Running(w) /\ currentYieldHelper = OwnHelper(w)
================================================================================
