------------------------------ MODULE MCStartup ------------------------------
(* Values for TLC. *)
EXTENDS Startup

NearZero == {-1, 0, 1}
=============================================================================
