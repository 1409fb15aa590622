------------------------------ MODULE CallStack ------------------------------
(***************************************************************************)
(* What the remote calls promise, without messages and connections: they   *)
(* behave as one thread's calls of procedures.  The processes in which     *)
(* tree code runs or waits for a call are a path downwards from process 1, *)
(* which is entered and left only at its lower end.                        *)
(***************************************************************************)
EXTENDS Integers

CONSTANT Nodes

Processes   == 1 .. Nodes
Children(i) == {2 * i, 2 * i + 1} \cap Processes

VARIABLE active    \* the processes that are in tree code

Init == active = {1}

(* The lower end of the path. *)
Last(i) == i \in active /\ Children(i) \cap active = {}

Enter(j) == /\ j \notin active
            /\ \E i \in Processes : Last(i) /\ j \in Children(i)
            /\ active' = active \cup {j}

Leave(j) == /\ j # 1 /\ Last(j)
            /\ active' = active \ {j}

Next == \E j \in Processes : Enter(j) \/ Leave(j)

Spec == Init /\ [][Next]_active
=============================================================================
