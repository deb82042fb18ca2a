---------------------------- MODULE MCIProtoConn ----------------------------
(* Small instances of IProtoConn. *)
EXTENDS IProtoConn

CONSTANTS r1, r2, d1, p1, p2, ping

\* Requests take their syncs from a counter: each has its own.
UniqueSyncs == [i \in Answered |-> IF i \in Pings THEN PingSync ELSE i]
=============================================================================
