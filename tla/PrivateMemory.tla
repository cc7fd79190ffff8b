--------------------------- MODULE PrivateMemory ----------------------------
(***************************************************************************)
(* What fork() promises: every environment has a memory of its own, a child *)
(* starts with a copy of its parent's, and only the pages that were marked  *)
(* for sharing stay common.                                                 *)
(***************************************************************************)
CONSTANTS Envs, Env0, Data, Shared,
          Stack,   \* the stack page, on which fork() itself works
          Val, NULL,
          Writes   \* Writes[e]: the values that e writes

VARIABLES live,    \* the environments that have started and not ended
          mem      \* mem[e][va]

Addr == Data \cup Shared \cup {Stack}
NoMem == [va \in Addr |-> NULL]

Init == /\ live = {Env0}
        /\ \E m \in [Addr -> Val] : mem = [e \in Envs |-> IF e = Env0 THEN m ELSE NoMem]

\* A step takes the live environments l and their memory m to ln and n.
\* A write is seen by nobody else, unless the page is shared.
Write(l, m, ln, n, e, va, v) ==
    /\ e \in l /\ ln = l
    /\ n = [f \in Envs |-> IF f = e \/ (va \in Shared /\ f \in l)
                           THEN [m[f] EXCEPT ![va] = v] ELSE m[f]]

\* The child's stack is the parent's at some moment inside fork().
Fork(l, m, ln, n, e, c) ==
    /\ e \in l /\ c \in Envs \ l
    /\ ln = l \cup {c}
    /\ \E v \in Val : n = [m EXCEPT ![c] = [m[e] EXCEPT ![Stack] = v]]

Exit(l, m, ln, n, e) ==
    /\ e \in l /\ ln = l \ {e}
    /\ n = [m EXCEPT ![e] = NoMem]

Next == \E l \in {live}, m \in {mem}, ln \in {live'}, n \in {mem'}, e \in Envs :
            \/ \E va \in Addr, v \in Writes[e] : Write(l, m, ln, n, e, va, v)
            \/ \E c \in Envs : Fork(l, m, ln, n, e, c)
            \/ Exit(l, m, ln, n, e)

Spec == Init /\ [][Next]_<<live, mem>>
=============================================================================
