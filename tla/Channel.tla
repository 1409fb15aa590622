------------------------------- MODULE Channel -------------------------------
(***************************************************************************)
(* What one direction of a connection promises, without headers: messages  *)
(* are read as they were sent and in that order until the connection ends; *)
(* then at most one is read damaged, and whoever goes on reading gets the  *)
(* empty message for ever.                                                 *)
(***************************************************************************)
EXTENDS Naturals, Sequences

CONSTANT Messages   \* sequences of bytes

VARIABLES sent, read, closed

Init == sent = <<>> /\ read = <<>> /\ closed = FALSE

Send(m) == ~closed /\ sent' = Append(sent, m) /\ UNCHANGED <<read, closed>>

Close == ~closed /\ closed' = TRUE /\ UNCHANGED <<sent, read>>

Deliver(m) == read' = Append(read, m) /\ UNCHANGED <<sent, closed>>

(* The first messages of sent are all that was read. *)
Whole == Len(read) <= Len(sent) /\ read = SubSeq(sent, 1, Len(read))

Next1 == sent[Len(read) + 1]   \* the message to be read next

Receive == Whole /\ Len(read) < Len(sent) /\ Deliver(Next1)

(* What damage makes of m: zeros for its end, or a shorter run of zeros.   *)
ZeroTail(m, k) == [i \in 1 .. Len(m) |-> IF i <= k THEN m[i] ELSE 0]
Zeros(n)       == [i \in 1 .. n |-> 0]
Damaged(m)     == {ZeroTail(m, k) : k \in 0 .. Len(m)} \cup {Zeros(n) : n \in 0 .. Len(m)}

Damage == /\ closed /\ Whole /\ Len(read) < Len(sent)
          /\ \E d \in Damaged(Next1) : Deliver(d)

Nothing == closed /\ (Whole => read = sent) /\ Deliver(<<>>)

Next == Close \/ Receive \/ Damage \/ Nothing \/ \E m \in Messages : Send(m)

Spec == Init /\ [][Next]_<<sent, read, closed>>
=============================================================================
