-------------------------------- MODULE Pipe --------------------------------
(***************************************************************************)
(* Pipes (lib/pipe.c) and the descriptor operations that share them between *)
(* environments: close and dup (lib/fd.c), fork (lib/fork.c).               *)
(*                                                                          *)
(* A pipe is a page with a byte ring, mapped next to each file descriptor   *)
(* page of either end.  That an end is closed is not recorded anywhere: it  *)
(* is computed from the reference counts of the pages, so the order in      *)
(* which pages are mapped and unmapped matters.  All of this is user code:  *)
(* one step is one system call or one access to shared memory, and the      *)
(* clock interrupt may come between any two.                                *)
(*                                                                          *)
(* Lapses names what programs may do although the pipe does not bear it:    *)
(*   "fork"  fork or spawn while another environment uses the pipe          *)
(* Assumed of programs: one environment at a time reads the pipe, and one   *)
(* writes it (the positions are updated without a lock).                    *)
(***************************************************************************)
EXTENDS Naturals, Sequences, FiniteSets, FiniteSetsExt

CONSTANTS Procs,       \* the environments
          Parent,      \* the one that calls pipe()
          Slots,       \* file descriptor numbers
          DupTo,       \* bound: the numbers that programs pass as newfdnum to dup()
          Byte, Text,  \* bytes, and what the writers write: the i-th byte is Text[i]
          PIPEBUFSIZ,  \* size of the ring
          MaxBytes,    \* bound: bytes written to the pipe (2^31 in the code)
          NCPU,
          NULL,
          Lapses

ASSUME PipeAssumption == /\ Parent \in Procs /\ IsFiniteSet(Procs)
                         /\ Slots \subseteq Nat /\ {0, 1} \subseteq Slots /\ IsFiniteSet(Slots)
                         /\ DupTo \subseteq Slots
                         /\ PIPEBUFSIZ \in Nat \ {0}
                         /\ MaxBytes \in Nat /\ Text \in [0 .. MaxBytes - 1 -> Byte]
                         /\ NCPU \in Nat \ {0}
                         /\ NULL \notin Byte \cup Procs /\ NULL \notin Slots /\ NULL \notin {"r", "w"}
                         /\ Lapses \subseteq {"fork"}

VARIABLES fdpage,    \* fdpage[e][s]: the end whose Fd page e maps at s, or NULL
          datapage,  \* datapage[e][s]: whether e maps the pipe page next to s
          p_rpos, p_wpos, p_buf,
          sent, got, \* history: the bytes that went in and came out
          status,    \* "none", "embryo" (not runnable yet), "alive", "dead"
          running,   \* the environments that CPUs execute
          op, pc,    \* what an environment does, and where it is in it
          fd, arg,   \* its descriptor; dup's new descriptor or fork's child
          taken,     \* the byte that devpipe_read has loaded
          some,      \* whether devpipe_read has got any byte: i > 0
          seen,      \* the first pageref() of _pipeisclosed, then its ret (1 or 0)
          stale      \* whether env_runs has changed since _pipeisclosed read it

ring == <<p_rpos, p_wpos, p_buf, sent, got>>
maps == <<fdpage, datapage>>
locals == <<op, pc, fd, arg, taken, some, seen>>
vars == <<maps, ring, status, running, locals, stale>>

Ops == {"none", "read", "write", "query", "close", "dup", "fork"}
Labels == {"idle", "test", "byte", "inc", "closed", "ref_fd", "ref_pipe", "answer",
           "unmap_data", "map_data", "map_fd", "duppage"}

TypeOK == /\ fdpage \in [Procs -> [Slots -> {"r", "w", NULL}]]
          /\ datapage \in [Procs -> [Slots -> BOOLEAN]]
          /\ p_rpos \in Nat /\ p_wpos \in Nat
          /\ p_buf \in [0 .. PIPEBUFSIZ - 1 -> Byte \cup {NULL}]
          /\ sent \in Seq(Byte) /\ got \in Seq(Byte)
          /\ status \in [Procs -> {"none", "embryo", "alive", "dead"}]
          /\ running \subseteq Procs
          /\ op \in [Procs -> Ops] /\ pc \in [Procs -> Labels]
          /\ fd \in [Procs -> Slots \cup {NULL}]
          /\ arg \in [Procs -> Slots \cup Procs \cup {NULL}]
          /\ taken \in [Procs -> Byte \cup {NULL}]
          /\ some \in [Procs -> BOOLEAN] /\ stale \in [Procs -> BOOLEAN]
          /\ seen \in [Procs -> Nat]

\* The reference counts of the page of an end, and of the pipe page.
FdRefs(end) == Cardinality({x \in Procs \X Slots : fdpage[x[1]][x[2]] = end})
PipeRefs == Cardinality({x \in Procs \X Slots : datapage[x[1]][x[2]]})
Open(end) == \E e \in Procs, s \in Slots : fdpage[e][s] = end

\* pipe(): the read end is at descriptor 0, the write end at 1.
Init == /\ fdpage = [e \in Procs |-> [s \in Slots |->
                       IF e = Parent /\ s = 0 THEN "r" ELSE IF e = Parent /\ s = 1 THEN "w" ELSE NULL]]
        /\ datapage = [e \in Procs |-> [s \in Slots |-> e = Parent /\ s \in {0, 1}]]
        /\ p_rpos = 0 /\ p_wpos = 0
        /\ p_buf = [i \in 0 .. PIPEBUFSIZ - 1 |-> NULL]
        /\ sent = <<>> /\ got = <<>>
        /\ status = [e \in Procs |-> IF e = Parent THEN "alive" ELSE "none"]
        /\ running = {Parent}
        /\ op = [e \in Procs |-> "none"] /\ pc = [e \in Procs |-> "idle"]
        /\ fd = [e \in Procs |-> NULL] /\ arg = [e \in Procs |-> NULL]
        /\ taken = [e \in Procs |-> NULL] /\ some = [e \in Procs |-> FALSE]
        /\ seen = [e \in Procs |-> 0] /\ stale = [e \in Procs |-> FALSE]

-----------------------------------------------------------------------------
(* Scheduling: every env_run() counts env_runs *)

\* Between the two loads of env_runs.
Checking == {"ref_fd", "ref_pipe"}

\* e is put on a CPU that is idle, or that the environment d gives up.
run(e) == /\ status[e] = "alive" /\ e \notin running
          /\ \/ /\ Cardinality(running) < NCPU
                /\ running' = running \cup {e}
             \/ \E d \in running : running' = (running \ {d}) \cup {e}
          /\ stale' = [stale EXCEPT ![e] = pc[e] \in Checking]
          /\ UNCHANGED <<maps, ring, status, locals>>

At(e, o, l) == e \in running /\ op[e] = o /\ pc[e] = l
Goto(e, l) == pc' = [pc EXCEPT ![e] = l]

\* The call that e makes begins at l, or ends.
Call(e, o, l) == /\ e \in running /\ pc[e] = "idle"
                 /\ op' = [op EXCEPT ![e] = o]
                 /\ Goto(e, l)
Return(e) == /\ op' = [op EXCEPT ![e] = "none"]
             /\ pc' = [pc EXCEPT ![e] = "idle"]
             /\ fd' = [fd EXCEPT ![e] = NULL] /\ arg' = [arg EXCEPT ![e] = NULL]
             /\ taken' = [taken EXCEPT ![e] = NULL]
             /\ some' = [some EXCEPT ![e] = FALSE]
             /\ seen' = [seen EXCEPT ![e] = 0]

-----------------------------------------------------------------------------
(* _pipeisclosed() *)

\* n = env_runs and the first of the two calls of pageref(); C leaves open which
\* one it is.  (An interrupt between the two loads would only force a retry.)
_pipeisclosed_first(e) ==
    /\ e \in running /\ pc[e] = "closed"
    /\ \/ Goto(e, "ref_pipe") /\ seen' = [seen EXCEPT ![e] = FdRefs(fdpage[e][fd[e]])]
       \/ Goto(e, "ref_fd") /\ seen' = [seen EXCEPT ![e] = PipeRefs]
    /\ UNCHANGED <<maps, ring, status, running, stale, op, fd, arg, taken, some>>

SecondRef(e) == IF pc[e] = "ref_pipe" THEN PipeRefs ELSE FdRefs(fdpage[e][fd[e]])

\* The second call, the comparison, and nn = env_runs: start over if e was
\* interrupted.  If the pipe is closed the caller returns; else devpipe_read and
\* devpipe_write yield and test again, and pipeisclosed returns 0.
compare(e, interrupted) ==
    LET ret == IF seen[e] = SecondRef(e) THEN 1 ELSE 0
        to  == IF interrupted THEN "closed"
               ELSE IF ret = 1 \/ op[e] = "query" THEN "answer" ELSE "test"
    IN  /\ e \in running /\ pc[e] \in Checking
        /\ Goto(e, to)
        /\ seen' = [seen EXCEPT ![e] = IF to = "answer" THEN ret ELSE 0]
        /\ stale' = [stale EXCEPT ![e] = FALSE]
        /\ UNCHANGED <<maps, ring, status, running, op, fd, arg, taken, some>>

\* Mutant of _pipeisclosed_second: env_runs is not compared.
_pipeisclosed_second_NoRetry(e) == compare(e, FALSE)

_pipeisclosed_second(e) == compare(e, stale[e])

\* The caller gets the answer of _pipeisclosed.
_pipeisclosed_return(e) ==
    /\ e \in running /\ pc[e] = "answer"
    /\ Return(e)
    /\ UNCHANGED <<maps, ring, status, running, stale>>

\* pipeisclosed()
pipeisclosed(e, s) ==
    /\ fdpage[e][s] # NULL
    /\ Call(e, "query", "closed")
    /\ fd' = [fd EXCEPT ![e] = s]
    /\ UNCHANGED <<maps, ring, status, running, stale, arg, taken, some, seen>>

-----------------------------------------------------------------------------
(* devpipe_read() and devpipe_write() *)

\* read() from, or write() to, descriptor s; the end must be the right one.
devpipe(e, s, o, end) ==
    /\ fdpage[e][s] = end
    /\ ~\E d \in Procs : op[d] = o
    /\ o = "write" => p_wpos < MaxBytes
    /\ Call(e, o, "test")
    /\ fd' = [fd EXCEPT ![e] = s]
    /\ UNCHANGED <<maps, ring, status, running, stale, arg, taken, some, seen>>

\* There is a byte; or the pipe is empty: return what there is, or see whether
\* the writers are gone.
devpipe_read_test(e) ==
    /\ At(e, "read", "test")
    /\ \/ p_rpos # p_wpos /\ Goto(e, "byte") /\ UNCHANGED <<op, fd, arg, taken, some, seen>>
       \/ p_rpos = p_wpos /\ some[e] /\ Return(e)
       \/ p_rpos = p_wpos /\ ~some[e] /\ Goto(e, "closed")
          /\ UNCHANGED <<op, fd, arg, taken, some, seen>>
    /\ UNCHANGED <<maps, ring, status, running, stale>>

devpipe_read_byte(e) ==
    /\ At(e, "read", "byte")
    /\ taken' = [taken EXCEPT ![e] = p_buf[p_rpos % PIPEBUFSIZ]]
    /\ Goto(e, "inc")
    /\ UNCHANGED <<maps, ring, status, running, stale, op, fd, arg, some, seen>>

\* The reader may want more bytes or not.
devpipe_read_inc(e) ==
    /\ At(e, "read", "inc")
    /\ p_rpos' = p_rpos + 1
    /\ got' = Append(got, taken[e])
    /\ \/ Return(e)
       \/ /\ Goto(e, "test")
          /\ some' = [some EXCEPT ![e] = TRUE]
          /\ taken' = [taken EXCEPT ![e] = NULL]
          /\ UNCHANGED <<op, fd, arg, seen>>
    /\ UNCHANGED <<maps, p_wpos, p_buf, sent, status, running, stale>>

\* Room for a byte, or full and about to call _pipeisclosed().
write_test(e, full, then) ==
    /\ At(e, "write", "test")
    /\ Goto(e, IF full THEN then ELSE "byte")
    /\ UNCHANGED <<maps, ring, status, running, stale, op, fd, arg, taken, some, seen>>

\* Mutants of devpipe_write_test: one byte too many; no look at the readers.
devpipe_write_test_OffByOne(e) == write_test(e, p_wpos > p_rpos + PIPEBUFSIZ, "closed")
devpipe_write_test_NoCheck(e) == write_test(e, p_wpos >= p_rpos + PIPEBUFSIZ, "test")

devpipe_write_test(e) == write_test(e, p_wpos >= p_rpos + PIPEBUFSIZ, "closed")

devpipe_write_byte(e) ==
    /\ At(e, "write", "byte")
    /\ p_buf' = [p_buf EXCEPT ![p_wpos % PIPEBUFSIZ] = Text[p_wpos]]
    /\ Goto(e, "inc")
    /\ UNCHANGED <<maps, p_rpos, p_wpos, sent, got, status, running, stale, op, fd, arg, taken, some, seen>>

\* The writer may have more bytes or not.
devpipe_write_inc(e) ==
    /\ At(e, "write", "inc")
    /\ p_wpos' = p_wpos + 1
    /\ sent' = Append(sent, p_buf[p_wpos % PIPEBUFSIZ])
    /\ \/ Return(e)
       \/ /\ p_wpos' < MaxBytes
          /\ Goto(e, "test")
          /\ UNCHANGED <<op, fd, arg, taken, some, seen>>
    /\ UNCHANGED <<maps, p_rpos, p_buf, got, status, running, stale>>

-----------------------------------------------------------------------------
(* Descriptors *)

\* close(), with fd_close() and devpipe_close(): the Fd page first.  (The second
\* sys_page_unmap(fd) of fd_close() finds the page gone.)
close(e, s) ==
    /\ fdpage[e][s] # NULL
    /\ Call(e, "close", "unmap_data")
    /\ fdpage' = [fdpage EXCEPT ![e][s] = NULL]
    /\ arg' = [arg EXCEPT ![e] = s]
    /\ UNCHANGED <<datapage, ring, status, running, stale, fd, taken, some, seen>>

\* dup(s, t) closes t first, if it is open.
dup(e, s, t) ==
    /\ fdpage[e][s] # NULL /\ s # t
    /\ Call(e, "dup", IF fdpage[e][t] # NULL THEN "unmap_data" ELSE "map_data")
    /\ fdpage' = [fdpage EXCEPT ![e][t] = NULL]
    /\ fd' = [fd EXCEPT ![e] = s] /\ arg' = [arg EXCEPT ![e] = t]
    /\ UNCHANGED <<datapage, ring, status, running, stale, taken, some, seen>>

devpipe_close_data(e) ==
    /\ e \in running /\ pc[e] = "unmap_data"
    /\ datapage' = [datapage EXCEPT ![e][arg[e]] = FALSE]
    /\ IF op[e] = "dup" THEN Goto(e, "map_data") /\ UNCHANGED <<op, fd, arg, taken, some, seen>>
                        ELSE Return(e)
    /\ UNCHANGED <<fdpage, ring, status, running, stale>>

dup_data(e) ==
    /\ At(e, "dup", "map_data")
    /\ datapage' = [datapage EXCEPT ![e][arg[e]] = TRUE]
    /\ Goto(e, "map_fd")
    /\ UNCHANGED <<fdpage, ring, status, running, stale, op, fd, arg, taken, some, seen>>

dup_fd(e) ==
    /\ At(e, "dup", "map_fd")
    /\ fdpage' = [fdpage EXCEPT ![e][arg[e]] = fdpage[e][fd[e]]]
    /\ Return(e)
    /\ UNCHANGED <<datapage, ring, status, running, stale>>

-----------------------------------------------------------------------------
(* Environments *)

Alone(e) == \A d \in Procs \ {e}, s \in Slots : fdpage[d][s] = NULL /\ ~datapage[d][s]

\* fork(), or spawn() with copy_shared_pages(): a child without pages.
fork(e, c) ==
    /\ "fork" \in Lapses \/ Alone(e)
    /\ status[c] = "none"
    /\ Call(e, "fork", "duppage")
    /\ arg' = [arg EXCEPT ![e] = c]
    /\ status' = [status EXCEPT ![c] = "embryo"]
    /\ UNCHANGED <<maps, ring, running, stale, fd, taken, some, seen>>

\* The next page, in the order of addresses: all Fd pages lie below all data
\* pages.  When there is none left, the child may run.
fork_duppage(e) ==
    LET c    == arg[e]
        fds  == {s \in Slots : fdpage[e][s] # fdpage[c][s]}
        data == {s \in Slots : datapage[e][s] # datapage[c][s]}
    IN  /\ At(e, "fork", "duppage")
        /\ \/ /\ fds # {}
              /\ fdpage' = [fdpage EXCEPT ![c][Min(fds)] = fdpage[e][Min(fds)]]
              /\ UNCHANGED <<datapage, status, locals>>
           \/ /\ fds = {} /\ data # {}
              /\ datapage' = [datapage EXCEPT ![c][Min(data)] = TRUE]
              /\ UNCHANGED <<fdpage, status, locals>>
           \/ /\ fds = {} /\ data = {}
              /\ status' = [status EXCEPT ![c] = "alive"]
              /\ Return(e)
              /\ UNCHANGED maps
        /\ UNCHANGED <<ring, running, stale>>

\* The end of an environment: env_free() unmaps everything in one kernel entry.
\* exit() does no more than that: its call of close_all() is commented out.  An
\* environment that does not run is ended by one that does.
env_free(e) ==
    /\ status[e] = "alive"
    /\ e \in running \/ \E d \in running : pc[d] = "idle"
    /\ fdpage' = [fdpage EXCEPT ![e] = [s \in Slots |-> NULL]]
    /\ datapage' = [datapage EXCEPT ![e] = [s \in Slots |-> FALSE]]
    /\ status' = [status EXCEPT ![e] = "dead"]
    /\ running' = running \ {e}
    /\ stale' = [stale EXCEPT ![e] = FALSE]
    /\ Return(e)
    /\ UNCHANGED ring

step(e) == \/ _pipeisclosed_first(e) \/ _pipeisclosed_second(e) \/ _pipeisclosed_return(e)
           \/ devpipe_read_test(e) \/ devpipe_read_byte(e) \/ devpipe_read_inc(e)
           \/ devpipe_write_test(e) \/ devpipe_write_byte(e) \/ devpipe_write_inc(e)
           \/ devpipe_close_data(e) \/ dup_data(e) \/ dup_fd(e) \/ fork_duppage(e)

call(e) == \/ \E s \in Slots : \/ pipeisclosed(e, s) \/ close(e, s)
                              \/ devpipe(e, s, "read", "r") \/ devpipe(e, s, "write", "w")
           \/ \E s \in Slots, t \in DupTo : dup(e, s, t)
           \/ \E c \in Procs : fork(e, c)

\* Nobody is left who could do anything.
over == (\A e \in Procs : status[e] # "alive") /\ UNCHANGED vars

Next == over \/ \E e \in Procs : run(e) \/ step(e) \/ call(e) \/ env_free(e)

Spec == Init /\ [][Next]_vars

\* The scheduler runs every environment again and again (Env!EveryRunnableRuns),
\* and a time slice is long enough for a step, and now and then for the few
\* instructions of _pipeisclosed() without an interrupt.
Fairness == \A e \in Procs : /\ WF_vars(run(e)) /\ SF_vars(step(e))
                             /\ SF_vars(~stale[e] /\ _pipeisclosed_second(e))

FairSpec == Spec /\ Fairness

-----------------------------------------------------------------------------
(* Properties *)

Other(end) == IF end = "r" THEN "w" ELSE "r"

\* _pipeisclosed() says that the other end is closed only if nobody has it open:
\* a reader gets end-of-file only when "all the writers are gone" (lib/pipe.c:123).
ClosedIsTrue ==
    /\ TypeOK
    /\ \A e \in Procs : pc[e] = "answer" /\ seen[e] = 1 => ~Open(Other(fdpage[e][fd[e]]))

\* Who is told of the end of the pipe has read every byte: what the writer wrote
\* before it closed arrives (user/testpipe.c:27).
EofIsEnd == \A e \in Procs : op[e] = "read" /\ pc[e] = "answer" => got = sent

\* A pipe is a bounded queue.
F == INSTANCE Fifo WITH Capacity <- PIPEBUFSIZ,
                        writers <- Open("w"),
                        eof <- \E e \in Procs : op[e] = "read" /\ pc[e] = "answer"
IsFifo == F!Spec

\* Unless some environment opens and closes descriptors of the pipe for ever, a
\* read() returns if the writers are gone, and a write() if the readers are.
Settled == \A e \in Procs : op[e] \notin {"close", "dup", "fork"}
Deserted(e) == \/ op[e] = "read" /\ ~Open("w")
               \/ op[e] = "write" /\ ~Open("r")
CallsReturn == <>[]Settled => \A e \in Procs : Deserted(e) ~> ~Deserted(e)
=============================================================================
