------------------------------- MODULE FlowGraph -------------------------------
(***************************************************************************)
(* FlowGraph (src/flowgraph.cpp): a graph of jobs.  A node whose job is    *)
(* done posts the nodes linked after it to the io_service; a join counts   *)
(* the posts of the nodes before it, in a NodeJoiner that is its callback. *)
(* The graph is built before it is run.  Run() loops in run_one() until    *)
(* Finish(), which nothing calls: it does not return.  It may be called    *)
(* again by a handler.                                                     *)
(***************************************************************************)
EXTENDS Naturals, Sequences, FiniteSets

CONSTANTS
  Nodes,
  rootnodes,  \* as in the code, in the order of AddRoot()
  nextnodes,  \* of each node, in the order of Add(), AddNext() and AddJoin()
  Joins,      \* the nodes made by AddJoin(),
  want_orig,  \*   and of how many nodes: AddNext() may link more to it
  MaxRuns, MaxResets  \* bounds

ASSUME GraphAssumption ==
  /\ IsFiniteSet(Nodes)
  /\ rootnodes \in Seq(Nodes) /\ nextnodes \in [Nodes -> Seq(Nodes)]
  /\ Joins \subseteq Nodes /\ want_orig \in [Joins -> Nat \ {0}]
  /\ MaxRuns \in Nat /\ MaxResets \in Nat

VARIABLES
  is_done,        \* of each node
  want,           \* want_nodes_cnt of each join,
  seen,           \*   and its reset_counter
  reset_counter,  \* of the graph
  queue,          \* the nodes whose run() is posted
  calls,          \* how many times Run() has been called
  runs            \* how many times each node has been run
vars == <<is_done, want, seen, reset_counter, queue, calls, runs>>

Count(s, n) == Cardinality({k \in DOMAIN s : s[k] = n})
\* The links to a node, as pairs of a node and a place in its nextnodes.
Links(n) == {l \in UNION {{p} \X DOMAIN nextnodes[p] : p \in Nodes} :
               nextnodes[l[1]][l[2]] = n}

Init ==
  /\ is_done = [n \in Nodes |-> FALSE] /\ runs = [n \in Nodes |-> 0]
  /\ want = want_orig /\ seen = [n \in Joins |-> 0]
  /\ reset_counter = 0 /\ queue = <<>> /\ calls = 0

\* Mutants: a node done twice posts twice; the links but the first are lost.
DoneAgain(n, rest) ==
  is_done' = [is_done EXCEPT ![n] = TRUE] /\ queue' = rest \o nextnodes[n]
DoneFirst(n, rest) ==
  /\ is_done' = [is_done EXCEPT ![n] = TRUE]
  /\ queue' = IF is_done[n] \/ nextnodes[n] = <<>> THEN rest
              ELSE Append(rest, nextnodes[n][1])

\* done(), with `rest' posted before it.
Done(n, rest) ==
  /\ is_done' = [is_done EXCEPT ![n] = TRUE]
  /\ queue' = IF is_done[n] THEN rest ELSE rest \o nextnodes[n]

Run ==
  /\ calls < MaxRuns /\ calls' = calls + 1
  /\ queue' = queue \o rootnodes
  /\ UNCHANGED <<is_done, want, seen, reset_counter, runs>>

Reset ==
  /\ reset_counter < MaxResets /\ reset_counter' = reset_counter + 1
  /\ UNCHANGED <<is_done, want, seen, queue, calls, runs>>

\* Mutant: only a Reset() starts the count again.
CountedOnce(n) == IF seen[n] # reset_counter THEN want_orig[n] ELSE want[n]

\* What a NodeJoiner goes on counting down from.
Counted(n) ==
  IF seen[n] # reset_counter \/ want[n] = 0 THEN want_orig[n] ELSE want[n]

\* The callback of a join: it compares, then decrements.
Join(n, r) ==
  /\ seen' = [seen EXCEPT ![n] = reset_counter]
  /\ r = (Counted(n) = 0)
  /\ want' = [want EXCEPT ![n] = Counted(n) - 1]

\* GraphNode::run(): the callback, and done() if it returns true.  A callback
\* that calls done() itself is taken to return true.
RunNode ==
  /\ queue # <<>>
  /\ LET n == Head(queue) IN
     /\ runs' = [runs EXCEPT ![n] = @ + 1]
     /\ \E r \in BOOLEAN :
          /\ \/ n \in Joins /\ Join(n, r)
             \/ n \notin Joins /\ UNCHANGED <<want, seen>>
          /\ \/ r /\ Done(n, Tail(queue))
             \/ ~r /\ queue' = Tail(queue) /\ UNCHANGED is_done
  /\ UNCHANGED <<reset_counter, calls>>

\* A job that returned false is done, or says so again.
JobDone(n) ==
  /\ n \notin Joins /\ runs[n] > 0 /\ Done(n, queue)
  /\ UNCHANGED <<want, seen, reset_counter, calls, runs>>

Next == Run \/ Reset \/ RunNode \/ \E n \in Nodes : JobDone(n)
Spec == Init /\ [][Next]_vars

\* Run() runs the io_service, and jobs end.
FairSpec == Spec /\ WF_vars(RunNode) /\ \A n \in Nodes : WF_vars(JobDone(n))

-------------------------------------------------------------------------------
TypeOK ==
  /\ is_done \in [Nodes -> BOOLEAN] /\ want \in [Joins -> Nat]
  /\ seen \in [Joins -> 0..MaxResets] /\ reset_counter \in 0..MaxResets
  /\ queue \in Seq(Nodes) /\ calls \in 0..MaxRuns /\ runs \in [Nodes -> Nat]

(***************************************************************************)
(* A node is run once for each of the nodes before it that is done, and a  *)
(* root once for each Run(): however a job ends, in its callback, later,   *)
(* or both, its followers are neither run early nor run again.             *)
(***************************************************************************)
RunsAccounted ==
  \A n \in Nodes : runs[n] + Count(queue, n)
    = calls * Count(rootnodes, n) + Cardinality({l \in Links(n) : is_done[l[1]]})

\* The nodes after a job that is done are all run.
FollowersRun ==
  \A n \in Nodes : is_done[n] ~> \A k \in DOMAIN nextnodes[n] : runs[nextnodes[n][k]] > 0

(***************************************************************************)
(* A join awaits the nodes before it and then becomes finished itself      *)
(* (lib/flowgraph.hpp).                                                    *)
(***************************************************************************)
JoinFinishes ==
  \A n \in Joins : (\A l \in Links(n) : is_done[l[1]]) ~> is_done[n]
===============================================================================
