------------------------------- MODULE MCPipe -------------------------------
(* Instances of Pipe for TLC. *)
EXTENDS Pipe, TLC

CONSTANTS p1, p2, p3, x, y, z, null

MCProcs == {p1, p2, p3}
MCTwoProcs == {p1, p2}
MCSlots == 0 .. 1
MCByte == {x, y, z}
MCText == [i \in 0 .. MaxBytes - 1 |-> <<x, y, z>>[i + 1]]
=============================================================================
