---------------------------- MODULE StartBarrier ----------------------------
(***************************************************************************)
(* What the exchange of Dummy messages promises, without messages and      *)
(* threads: nobody begins to send words before everybody has arrived.      *)
(***************************************************************************)
CONSTANT Everybody

VARIABLES arrived,   \* who has its tree, or has given up
          open       \* the barrier is open

Init == arrived = {} /\ open = FALSE

Arrive(p) == arrived' = arrived \cup {p} /\ UNCHANGED open

Open == arrived = Everybody /\ open' = TRUE /\ UNCHANGED arrived

Next == Open \/ \E p \in Everybody : Arrive(p)

Spec == Init /\ [][Next]_<<arrived, open>>
=============================================================================
