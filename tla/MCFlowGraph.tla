------------------------------ MODULE MCFlowGraph ------------------------------
(* The graph of the example in lib/flowgraph.hpp. *)
EXTENDS FlowGraph

MCNodes == {"root_node", "work1", "work2", "work11", "work12", "work3", "last"}
MCRootnodes == <<"root_node">>
MCNextnodes == [n \in MCNodes |->
  CASE n = "root_node" -> <<"work1", "work2">>
    [] n = "work1" -> <<"work11", "work12">>
    [] n \in {"work11", "work12", "work2"} -> <<"work3">>
    [] n = "work3" -> <<"last">>
    [] n = "last" -> <<>>]
MCJoins == {"work3"}
MCJoinOfThree == [n \in MCJoins |-> 3]
\* work2 is linked to the join of the others by AddNext().
MCJoinOfTwo == [n \in MCJoins |-> 2]
===============================================================================
