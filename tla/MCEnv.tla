------------------------------- MODULE MCEnv --------------------------------
(* Env on two CPUs and a table of three or four slots. *)
EXTENDS Env

CONSTANTS cpu0, cpu1

MC_CPUS == {cpu0, cpu1}
=============================================================================
