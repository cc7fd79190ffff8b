-------------------------------- MODULE Fifo --------------------------------
(***************************************************************************)
(* What a pipe promises: a bounded first-in first-out queue of bytes whose  *)
(* reader is told of the end only when nobody can write any more.           *)
(***************************************************************************)
EXTENDS Naturals, Sequences

CONSTANTS Byte, Capacity

VARIABLES sent,     \* every byte put in, in order
          got,      \* every byte taken out, in order
          writers,  \* whether somebody holds the write end
          eof       \* whether a read is returning 0

vars == <<sent, got, writers, eof>>

Init == /\ sent = <<>> /\ got = <<>>
        /\ writers = TRUE
        /\ eof = FALSE

Put == /\ Len(sent) - Len(got) < Capacity
       /\ \E b \in Byte : sent' = Append(sent, b)
       /\ UNCHANGED <<got, writers, eof>>

Take == /\ Len(got) < Len(sent)
        /\ got' = Append(got, sent[Len(got) + 1])
        /\ UNCHANGED <<sent, writers, eof>>

Close == /\ writers' = FALSE
         /\ UNCHANGED <<sent, got, eof>>

Eof == /\ ~writers
       /\ eof' \in BOOLEAN
       /\ UNCHANGED <<sent, got, writers>>

Next == Put \/ Take \/ Close \/ Eof

Spec == Init /\ [][Next]_vars
=============================================================================
