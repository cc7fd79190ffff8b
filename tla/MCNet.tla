------------------------------- MODULE MCNet -------------------------------
(* An instance of Net for TLC. *)
EXTENDS Net, TLC

CONSTANTS c1, c2, input_env, timer_env, null

MCClients == {c1, c2}
MCPages == 1 .. 3
=============================================================================
