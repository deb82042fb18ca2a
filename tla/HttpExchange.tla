------------------------------ MODULE HttpExchange ------------------------------
(***************************************************************************)
(* What a request over HTTP::Conn promises its caller, whatever happens to *)
(* connections meanwhile: the server is asked, perhaps more than once, but *)
(* never after it has got the whole request; an answer is returned only if *)
(* the server has given it to this request, on the last of the connections *)
(* on which it was asked; otherwise the call fails.  A call that fails may *)
(* leave its connection "foul": what is returned on such a one before it   *)
(* is replaced may be anybody's answer.                                    *)
(***************************************************************************)
EXTENDS Naturals

VARIABLES
  asking,   \* a request is being sent or its answer awaited
  reply,    \* of the connection in use: "none", the server was "asked" on it,
            \*   it has "given" an answer; or "foul"
  served,   \* how many times the server has got the whole of the request
  answered  \* whether the call has returned with an answer
exchange == <<asking, reply, served, answered>>

Init == ~asking /\ reply = "none" /\ served = 0 /\ ~answered

Begin ==
  /\ ~asking /\ asking' /\ served' = 0 /\ ~answered'
  /\ reply' = "none" \/ (reply = "foul" /\ reply' = "foul")

\* Every request begins anew as long as the server has not got it all.
Ask ==
  /\ asking /\ reply = "none" /\ served = 0
  /\ reply' = "asked" /\ served' \in {0, 1} /\ UNCHANGED <<asking, answered>>

Receive ==
  /\ asking /\ reply # "none" /\ served = 0
  /\ served' = 1 /\ UNCHANGED <<asking, reply, answered>>

\* The server may answer before it has got everything.
Give ==
  reply = "asked" /\ reply' = "given" /\ UNCHANGED <<asking, served, answered>>

\* Another connection is begun.
Lose == reply' = "none" /\ UNCHANGED <<asking, served, answered>>

Return ==
  /\ asking /\ reply \in {"given", "foul"}
  /\ ~asking' /\ answered' /\ UNCHANGED <<reply, served>>

Fail ==
  /\ asking /\ ~asking' /\ ~answered'
  /\ reply' \in {reply, "foul"} /\ UNCHANGED served

\* After the answer its body is read, or not, and the connection kept or not.
Rest ==
  /\ ~asking /\ ~asking'
  /\ answered' => reply \in {"given", "foul"}
  /\ reply' \in {reply, "none"} /\ served' \in {served, 0}

Next == Begin \/ Ask \/ Receive \/ Give \/ Lose \/ Return \/ Fail \/ Rest

Spec == Init /\ [][Next]_exchange
=================================================================================
