----------------------------- MODULE IProtoChannel -----------------------------
(***************************************************************************)
(* What Packer(), a stream and Unpacker() together promise: the tuple that *)
(* a receiver unpacks is the one that was packed, whole, and each is taken *)
(* once, in the order they were sent.                                      *)
(***************************************************************************)
EXTENDS Naturals, Sequences

VARIABLES
  carried,  \* the tuples sent and not yet taken
  taken     \* the one taken last

Init == carried = <<>> /\ taken = <<>>

\* A tuple is put at the end, whichever it is.
Send ==
  /\ carried' # <<>> /\ carried' = Append(carried, carried'[Len(carried')])
  /\ UNCHANGED taken

Take ==
  /\ carried # <<>>
  /\ taken' = Head(carried) /\ carried' = Tail(carried)

Spec == Init /\ [][Send \/ Take]_<<carried, taken>>
================================================================================
