------------------------------ MODULE FileStore ------------------------------
(***************************************************************************)
(* What the file system promises its clients: files that do not disturb one *)
(* another, and that survive a power failure once they have been flushed.   *)
(***************************************************************************)
EXTENDS Integers

CONSTANTS Names, Val, Hole, BLKSIZE

VARIABLES files,  \* files[f]: the size, or -1 if there is no f, and the blocks
          safe    \* the files that have not changed since they were flushed

vars == <<files, safe>>

Blocks(n) == 0 .. (n + BLKSIZE - 1) \div BLKSIZE - 1

\* What o becomes with size n: what it held below n stays, a new block is a Hole.
Resized(o, n) == [i \in Blocks(n) |-> IF i \in DOMAIN o.data THEN o.data[i] ELSE Hole]

Init == safe = Names

Create(o, n) == o.size = -1 /\ n.size = 0 /\ n.data = <<>>

SetSize(o, n) == o.size >= 0 /\ n.size >= 0 /\ n.data = Resized(o, n.size)

\* Block i is written; the file grows to the end of it if it was shorter.
Write(o, n) ==
    \E i \in DOMAIN n.data, v \in Val :
        /\ o.size >= 0
        /\ n.size = IF o.size < (i + 1) * BLKSIZE THEN (i + 1) * BLKSIZE ELSE o.size
        /\ n.data = [Resized(o, n.size) EXCEPT ![i] = v]

\* A hole shows an arbitrary value when it is first read, and then keeps it.
Read(o, n) == /\ n.size = o.size
              /\ \E i \in DOMAIN o.data : /\ o.data[i] = Hole /\ n.data[i] \in Val
                                          /\ n.data = [o.data EXCEPT ![i] = n.data[i]]

\* One file changes.
Change(old, new) == \E f \in Names : /\ safe' = safe \ {f}
                                     /\ \A g \in Names \ {f} : new[g] = old[g]
                                     /\ \/ Create(old[f], new[f])
                                        \/ SetSize(old[f], new[f])
                                        \/ Write(old[f], new[f])
                                        \/ Read(old[f], new[f])

Flush(old, new) == safe \subseteq safe' /\ new = old

\* A power failure: what was not safe may be anything afterwards.
Crash(old, new) == /\ \A f \in safe : new[f] = old[f]
                   /\ safe' = Names

Next == \E old \in {files}, new \in {files'} :
            Change(old, new) \/ Flush(old, new) \/ Crash(old, new)

Spec == Init /\ [][Next]_vars
=============================================================================
