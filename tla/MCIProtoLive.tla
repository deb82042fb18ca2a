---------------------------- MODULE MCIProtoLive ----------------------------
(***************************************************************************)
(* The liveness of IProtoConn from two starting points: a new connection   *)
(* that carries a request and does not ping, and one that pings and whose  *)
(* request was answered before it was closed, with fewer faults and calls  *)
(* to spend: one of the calls opens it.                                    *)
(***************************************************************************)
EXTENDS MCIProtoConn

\* Shutdown() during a write has left it as new, but for the request.
Settled == [NewConn(TRUE) EXCEPT !.written = Requests,
                                 !.answers = [r \in Requests |-> 1]]

LiveInit ==
  \/ Init /\ ~conn.ping_enabled
  \/ /\ conn = Settled
     /\ budget \in {b \in Budget : b.controls > 0 /\ b.faults + b.controls = MaxControls}

\* The send buffer of a live socket has room for the twelve bytes of a ping.
LiveSpec ==
  /\ LiveInit /\ [][Next]_vars /\ Fairness
  /\ WF_vars(conn.ping_enabled /\ WriteSucceeds)
=============================================================================
