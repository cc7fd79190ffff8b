------------------------------- MODULE MCFork -------------------------------
(* Instances of Fork for TLC.  Pages are numbered after the environment and   *)
(* the address that they are allocated for first, three for each.             *)
EXTENDS Fork, TLC

CONSTANTS e0, e1, null

MCEnvs == {e0, e1}
MCWrites == e0 :> {1} @@ e1 :> {2}
MCPages == 1 .. 30
MCNear(e, va) == LET k == (IF e = e0 THEN 0 ELSE 15) + 3 * (va - 1) IN k - 2 .. k
MCInitPage == [va \in Private \cup Shared |-> 3 * (va - 1)]
=============================================================================
