---------------------------- MODULE MCRootRequests ----------------------------
(* Values for TLC. *)
EXTENDS RootRequests, TLC

CONSTANTS c1, c2, u, v, empty

TwoClients  == {c1, c2}
TwoWords    == {u, v, empty}
OneEach     == (c1 :> {[oper |-> "ADD", word |-> u]}) @@
               (c2 :> {[oper |-> "REMOVE", word |-> v]})
=============================================================================
