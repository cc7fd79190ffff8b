----------------------------- MODULE PipeProofs -----------------------------
(***************************************************************************)
(* Proofs about module Pipe, for any number of environments, descriptors    *)
(* and bytes and any size of the ring: on one CPU, where programs do not    *)
(* fork while another environment uses the pipe, _pipeisclosed() tells the  *)
(* truth, and a pipe implements Fifo.                                       *)
(***************************************************************************)
EXTENDS Pipe, SetLemmas, FiniteSetTheorems, TLAPS

(* The inductive invariant. *)

InPipe == {"read", "write", "query"}
Maps(e) == \E s \in Slots : fdpage[e][s] # NULL \/ datapage[e][s]

\* What a call of e works on is there, and where the call can be.
CallOf(e) ==
    /\ op[e] = "none" <=> pc[e] = "idle"
    /\ op[e] # "none" \/ e \in running => status[e] = "alive"
    /\ op[e] \in InPipe =>
          /\ fd[e] \in Slots /\ fdpage[e][fd[e]] # NULL
          /\ pc[e] \in {"test", "byte", "inc", "closed", "ref_fd", "ref_pipe", "answer"}
          /\ op[e] = "query" => pc[e] \in {"closed", "ref_fd", "ref_pipe", "answer"}
          /\ op[e] = "read" => fdpage[e][fd[e]] = "r"
          /\ op[e] # "query" /\ pc[e] = "answer" => seen[e] = 1
    /\ op[e] \in {"close", "dup"} =>
          /\ arg[e] \in Slots /\ fdpage[e][arg[e]] = NULL
          /\ pc[e] \in {"unmap_data", "map_data", "map_fd"}
          /\ op[e] = "close" => pc[e] = "unmap_data"
          /\ op[e] = "dup" => fd[e] \in Slots /\ fdpage[e][fd[e]] # NULL
          /\ pc[e] = "map_fd" => datapage[e][arg[e]]

\* fork() works on a child of its own, while nobody else has a page of the pipe.
ForkOf(e) == op[e] = "fork" =>
    /\ arg[e] \in Procs \ {e} /\ status[arg[e]] = "embryo" /\ pc[e] = "duppage"
    /\ \A d \in Procs : op[d] = "fork" /\ arg[d] = arg[e] => d = e
    /\ \A d \in Procs : Maps(d) => d \in {e, arg[e]}

\* Who has a descriptor of the pipe has the pipe page next to it.  A child gets the
\* descriptors first, but then nobody is there to compare.
PagesOf(e) ==
    /\ status[e] \in {"none", "dead"} => ~Maps(e)
    /\ status[e] = "alive" => \A s \in Slots : fdpage[e][s] # NULL => datapage[e][s]
EmbryoOf(c) == status[c] = "embryo" /\ Maps(c) =>
    \A d \in Procs \ {c} : Maps(d) => op[d] = "fork" /\ arg[d] = c

\* Between the two reads of _pipeisclosed() nothing else runs, or it will retry.
CountOf(e) == e \in running /\ ~stale[e] =>
    /\ pc[e] = "ref_pipe" => seen[e] = FdRefs(fdpage[e][fd[e]])
    /\ pc[e] = "ref_fd" => seen[e] = PipeRefs
AnswerOf(e) == pc[e] = "answer" /\ seen[e] = 1 => ~Open(Other(fdpage[e][fd[e]]))

\* What is in the ring is what was sent and not yet received; a byte that is being
\* put in or taken out is not disturbed.
RingOf(e) ==
    /\ op[e] = "read" => /\ \A d \in Procs : op[d] = "read" => d = e
                         /\ pc[e] \in {"byte", "inc"} => p_rpos < p_wpos
                         /\ pc[e] = "inc" => taken[e] = sent[p_rpos + 1]
    /\ op[e] = "write" => /\ \A d \in Procs : op[d] = "write" => d = e
                          /\ p_wpos < MaxBytes
                          /\ pc[e] \in {"byte", "inc"} => p_wpos < p_rpos + PIPEBUFSIZ
                          /\ pc[e] = "inc" => p_buf[p_wpos % PIPEBUFSIZ] = Text[p_wpos]
RingInv == /\ Len(got) = p_rpos /\ Len(sent) = p_wpos
           /\ p_rpos <= p_wpos /\ p_wpos <= p_rpos + PIPEBUFSIZ
           /\ \A i \in Nat : p_rpos <= i /\ i < p_wpos => p_buf[i % PIPEBUFSIZ] = sent[i + 1]
           /\ \A e \in Procs : RingOf(e)

OneCPU == \A d, e \in running : d = e

Calls == \A e \in Procs : CallOf(e) /\ ForkOf(e)
Pages == \A e \in Procs : PagesOf(e) /\ EmbryoOf(e)
Answers == OneCPU /\ \A e \in Procs : CountOf(e) /\ AnswerOf(e)

IInv == TypeOK /\ Calls /\ Pages /\ Answers /\ RingInv

\* A step leaves the call that d is in alone.
Kept(d) == /\ op'[d] = op[d] /\ pc'[d] = pc[d] /\ fd'[d] = fd[d] /\ arg'[d] = arg[d]
           /\ taken'[d] = taken[d] /\ seen'[d] = seen[d] /\ stale'[d] = stale[d]

-----------------------------------------------------------------------------
(* The counts of the pages *)

\* If every descriptor comes with the pipe page and the counts agree, nobody has
\* the other end.
LEMMA CountsAgree ==
    ASSUME TypeOK, \A e \in Procs, s \in Slots : fdpage[e][s] # NULL => datapage[e][s],
           NEW end \in {"r", "w"}, FdRefs(end) = PipeRefs
    PROVE  ~Open(Other(end))
<1> DEFINE P == Procs \X Slots
           R == {x \in P : fdpage[x[1]][x[2]] = end}
           D == {x \in P : datapage[x[1]][x[2]]}
<1>1. IsFiniteSet(P)
  BY PipeAssumption, FS_Product, Zenon DEF PipeAssumption
<1>2. IsFiniteSet(D)
  BY <1>1, FS_Subset, Zenon
<1>3. R \subseteq D
  BY PipeAssumption, Zenon DEF PipeAssumption
<1>4. R = D
  BY <1>2, <1>3, FS_Subset, Zenon DEF FdRefs, PipeRefs
<1>5. ASSUME NEW e \in Procs, NEW s \in Slots, fdpage[e][s] = Other(end) PROVE FALSE
  <2>1. Other(end) # end /\ Other(end) # NULL
    BY PipeAssumption, Zenon DEF PipeAssumption, Other
  <2>2. <<e, s>> \in D
    BY <1>5, <2>1, Zenon
  <2>3. fdpage[e][s] = end
    BY <1>4, <2>2, Zenon
  <2> QED
    BY <1>5, <2>1, <2>3, Zenon
<1> QED
  BY <1>5, Zenon DEF Open

\* While e is in read(), write() or pipeisclosed() every descriptor has its page.
LEMMA AllPages ==
    ASSUME TypeOK, Calls, Pages, NEW e \in Procs, op[e] \in InPipe
    PROVE  \A d \in Procs, s \in Slots : fdpage[d][s] # NULL => datapage[d][s]
<1> SUFFICES ASSUME NEW d \in Procs, NEW s \in Slots, fdpage[d][s] # NULL PROVE datapage[d][s]
  BY Zenon
<1>1. Maps(d) /\ Maps(e) /\ status[e] = "alive" /\ op[e] # "fork"
  BY Zenon DEF Calls, CallOf, Maps, InPipe
<1>2. status[d] # "embryo"
  BY <1>1, Zenon DEF Pages, EmbryoOf
<1>3. status[d] \notin {"none", "dead"}
  BY <1>1, Zenon DEF Pages, PagesOf
<1>4. status[d] = "alive"
  BY <1>2, <1>3, Zenon DEF TypeOK
<1> QED
  BY <1>4, Zenon DEF Pages, PagesOf

-----------------------------------------------------------------------------
(* What a step leaves alone *)

\* A step of e concerns no call but e's.
LEMMA OthersKept ==
    ASSUME TypeOK, NEW e \in Procs, run(e) \/ step(e) \/ call(e) \/ env_free(e)
    PROVE  \A d \in Procs \ {e} : Kept(d)
<1> USE DEF TypeOK, Kept, Goto, locals
<1>0. ASSUME Return(e), stale' = stale PROVE \A d \in Procs \ {e} : Kept(d)
  BY <1>0, Zenon DEF Return
<1>1. CASE run(e)
  BY <1>1, Zenon DEF run
<1>2. CASE env_free(e)
  BY <1>2, ZenonT(30) DEF env_free, Return
<1>3. CASE step(e)
  <2>1. CASE _pipeisclosed_first(e)
    BY <2>1, Zenon DEF _pipeisclosed_first
  <2>2. CASE _pipeisclosed_second(e)
    BY <2>2, Zenon DEF _pipeisclosed_second, compare
  <2>3. CASE _pipeisclosed_return(e)
    BY <2>3, Zenon DEF _pipeisclosed_return, Return
  <2>4. CASE devpipe_read_test(e)
    BY <1>0, <2>4, Zenon DEF devpipe_read_test
  <2>5. CASE devpipe_read_byte(e)
    BY <2>5, Zenon DEF devpipe_read_byte
  <2>6. CASE devpipe_read_inc(e)
    BY <1>0, <2>6, ZenonT(30) DEF devpipe_read_inc
  <2>7. CASE devpipe_write_test(e)
    BY <2>7, Zenon DEF devpipe_write_test, write_test
  <2>8. CASE devpipe_write_byte(e)
    BY <2>8, Zenon DEF devpipe_write_byte
  <2>9. CASE devpipe_write_inc(e)
    BY <1>0, <2>9, Zenon DEF devpipe_write_inc
  <2>10. CASE devpipe_close_data(e)
    BY <1>0, <2>10, Zenon DEF devpipe_close_data
  <2>11. CASE dup_data(e)
    BY <2>11, Zenon DEF dup_data
  <2>12. CASE dup_fd(e)
    BY <2>12, Zenon DEF dup_fd, Return
  <2>13. CASE fork_duppage(e)
    BY <1>0, <2>13, Zenon DEF fork_duppage
  <2> QED
    BY <1>3, <2>1, <2>2, <2>3, <2>4, <2>5, <2>6, <2>7, <2>8, <2>9, <2>10, <2>11, <2>12, <2>13,
       Zenon DEF step
<1>4. CASE call(e)
  <2>1. CASE \E s \in Slots : pipeisclosed(e, s)
    BY <2>1, ZenonT(30) DEF pipeisclosed, Call
  <2>2. CASE \E s \in Slots : close(e, s)
    BY <2>2 DEF close, Call
  <2>3. ASSUME NEW s \in Slots, NEW o, NEW end, devpipe(e, s, o, end)
        PROVE  \A d \in Procs \ {e} : Kept(d)
    BY <2>3, Zenon DEF devpipe, Call
  <2>4. CASE \E s \in Slots, t \in DupTo : dup(e, s, t)
    BY <2>4 DEF dup, Call
  <2>5. CASE \E c \in Procs : fork(e, c)
    BY <2>5 DEF fork, Call
  <2> QED
    BY <1>4, <2>1, <2>2, <2>3, <2>4, <2>5, Zenon DEF call
<1> QED
  BY <1>1, <1>2, <1>3, <1>4, Zenon

\* A call stays where it is when its process keeps its locals and its descriptors.
LEMMA CallStays ==
    ASSUME NEW d \in Procs, CallOf(d), Kept(d), fdpage'[d] = fdpage[d], datapage'[d] = datapage[d],
           running' = running, status[d] = "alive" => status'[d] = "alive"
    PROVE  CallOf(d)'
<1>1. (op[d] = "none" <=> pc[d] = "idle")' /\ (op[d] # "none" \/ d \in running => status[d] = "alive")'
  BY Zenon DEF CallOf, Kept
<1>2. op'[d] \in InPipe =>
          /\ fd'[d] \in Slots /\ fdpage'[d][fd'[d]] # NULL
          /\ pc'[d] \in {"test", "byte", "inc", "closed", "ref_fd", "ref_pipe", "answer"}
          /\ op'[d] = "query" => pc'[d] \in {"closed", "ref_fd", "ref_pipe", "answer"}
          /\ op'[d] = "read" => fdpage'[d][fd'[d]] = "r"
          /\ op'[d] # "query" /\ pc'[d] = "answer" => seen'[d] = 1
  BY Zenon DEF CallOf, Kept
<1>3. op'[d] \in {"close", "dup"} =>
          /\ arg'[d] \in Slots /\ fdpage'[d][arg'[d]] = NULL
          /\ pc'[d] \in {"unmap_data", "map_data", "map_fd"}
          /\ op'[d] = "close" => pc'[d] = "unmap_data"
          /\ op'[d] = "dup" => fd'[d] \in Slots /\ fdpage'[d][fd'[d]] # NULL
          /\ pc'[d] = "map_fd" => datapage'[d][arg'[d]]
  BY Zenon DEF CallOf, Kept
<1> QED
  BY <1>1, <1>2, <1>3, Zenon DEF CallOf, InPipe

\* A step that works on the descriptors and pages of the running environment e.
LEMMA OwnStep ==
    ASSUME IInv, NEW e \in Procs, e \in running, UNCHANGED <<status, running>>,
           \A d \in Procs \ {e} : Kept(d) /\ fdpage'[d] = fdpage[d] /\ datapage'[d] = datapage[d],
           op[e] # "fork", op'[e] # "fork", Maps(e)' => Maps(e),
           \A end \in {"r", "w"} : Open(end)' => Open(end),
           CallOf(e)', PagesOf(e)', CountOf(e)', AnswerOf(e)'
    PROVE  Calls' /\ Pages' /\ Answers'
<1>0. Calls /\ Pages /\ Answers
  BY Zenon DEF IInv
<1>1. \A d \in Procs : Maps(d)' => Maps(d)
  BY Zenon DEF Maps
<1>2. ASSUME NEW d \in Procs PROVE CallOf(d)'
  <2>1. CASE d = e
    BY <2>1, Zenon
  <2>2. CASE d # e
    <3>1. CallOf(d)
      BY <1>0, Zenon DEF Calls
    <3>2. Kept(d) /\ fdpage'[d] = fdpage[d] /\ datapage'[d] = datapage[d]
      BY <2>2, Zenon
    <3> QED
      BY <3>1, <3>2, CallStays, Zenon
  <2> QED
    BY <2>1, <2>2, Zenon
<1>3. ASSUME NEW d \in Procs PROVE ForkOf(d)'
  <2>1. CASE d = e
    BY <2>1, Zenon DEF ForkOf
  <2>2. CASE d # e
    <3>1. ForkOf(d)
      BY <1>0, Zenon DEF Calls
    <3> QED
      BY <1>1, <2>2, <3>1, Zenon DEF ForkOf, Kept
  <2> QED
    BY <2>1, <2>2, Zenon
<1>4. ASSUME NEW d \in Procs PROVE PagesOf(d)'
  <2>1. CASE d = e
    BY <2>1, Zenon
  <2>2. CASE d # e
    BY <1>0, <2>2, ZenonT(30) DEF Pages, PagesOf, Maps
  <2> QED
    BY <2>1, <2>2, Zenon
<1>5. ASSUME NEW c \in Procs, (status[c] = "embryo" /\ Maps(c))',
             NEW d \in Procs \ {c}, Maps(d)'
      PROVE  op'[d] = "fork" /\ arg'[d] = c
  <2>1. op[d] = "fork" /\ arg[d] = c
    BY <1>0, <1>1, <1>5, Zenon DEF Pages, EmbryoOf
  <2> QED
    BY <2>1, Zenon DEF Kept
<1>6. ASSUME NEW d \in Procs PROVE CountOf(d)' /\ AnswerOf(d)'
  <2>1. CASE d = e
    BY <2>1, Zenon
  <2>2. CASE d # e
    <3>1. CountOf(d)'
      BY <1>0, <2>2, Zenon DEF Answers, OneCPU, CountOf
    <3>2. ASSUME pc'[d] = "answer", seen'[d] = 1 PROVE ~Open(Other(fdpage[d][fd[d]]))'
      <4>1. pc[d] = "answer" /\ seen[d] = 1 /\ fd'[d] = fd[d] /\ fdpage'[d] = fdpage[d]
        BY <2>2, <3>2, Zenon DEF Kept
      <4>2. ~Open(Other(fdpage[d][fd[d]]))
        BY <1>0, <4>1, Zenon DEF Answers, AnswerOf
      <4> QED
        BY <4>1, <4>2, Zenon DEF Other
    <3> QED
      BY <3>1, <3>2, Zenon DEF AnswerOf
  <2> QED
    BY <2>1, <2>2, Zenon
<1> QED
  BY <1>0, <1>2, <1>3, <1>4, <1>5, <1>6, Zenon DEF Calls, Pages, EmbryoOf, Answers, OneCPU

\* A step that changes no page table.
LEMMA QuietStep ==
    ASSUME IInv, NEW e \in Procs, e \in running, UNCHANGED <<fdpage, datapage, status, running>>,
           \A d \in Procs \ {e} : Kept(d), op[e] # "fork", op'[e] # "fork",
           CallOf(e)', CountOf(e)', AnswerOf(e)'
    PROVE  Calls' /\ Pages' /\ Answers'
<1>1. PagesOf(e)'
  BY Zenon DEF IInv, Pages, PagesOf, Maps
<1>2. Maps(e)' => Maps(e)
  BY Zenon DEF Maps
<1>3. \A end \in {"r", "w"} : Open(end)' => Open(end)
  BY Zenon DEF Open
<1> QED
  BY <1>1, <1>2, <1>3, OwnStep, Zenon

\* A call that has returned.
LEMMA Returned ==
    ASSUME NEW e \in Procs, TypeOK, status'[e] = "alive", Return(e)
    PROVE  op'[e] = "none" /\ CallOf(e)' /\ CountOf(e)' /\ AnswerOf(e)'
<1>1. op'[e] = "none" /\ pc'[e] = "idle"
  BY Zenon DEF Return, TypeOK
<1> QED
  BY <1>1, Zenon DEF CallOf, CountOf, AnswerOf, InPipe

\* A call of read(), write() or pipeisclosed() that goes on.
LEMMA GoesOn ==
    ASSUME NEW e \in Procs, CallOf(e), e \in running, op[e] \in InPipe,
           op' = op, fd' = fd, UNCHANGED <<fdpage, status>>,
           pc'[e] \in {"test", "byte", "inc", "closed"}, op[e] = "query" => pc'[e] = "closed"
    PROVE  op'[e] # "fork" /\ CallOf(e)' /\ CountOf(e)' /\ AnswerOf(e)'
<1>1. CallOf(e)'
  BY Zenon DEF CallOf, InPipe
<1> QED
  BY <1>1, Zenon DEF CountOf, AnswerOf, InPipe

\* The steps of read() and write().
LEMMA StepRing ==
    ASSUME IInv, NEW e \in Procs,
           \/ devpipe_read_test(e) \/ devpipe_read_byte(e) \/ devpipe_read_inc(e)
           \/ devpipe_write_test(e) \/ devpipe_write_byte(e) \/ devpipe_write_inc(e)
    PROVE  Calls' /\ Pages' /\ Answers'
<1>1. /\ e \in running /\ op[e] \in {"read", "write"}
      /\ UNCHANGED <<fdpage, datapage, status, running>>
  BY Zenon DEF devpipe_read_test, devpipe_read_byte, devpipe_read_inc, devpipe_write_test,
               devpipe_write_byte, devpipe_write_inc, write_test, At, maps
<1>2. TypeOK /\ CallOf(e) /\ status'[e] = "alive"
  BY <1>1, Zenon DEF IInv, Calls, CallOf
<1>3. \A d \in Procs \ {e} : Kept(d)
  BY <1>2, OthersKept, Zenon DEF step
<1>4. \/ Return(e)
      \/ op' = op /\ fd' = fd /\ pc'[e] \in {"test", "byte", "inc", "closed"}
  BY <1>2, Zenon
     DEF devpipe_read_test, devpipe_read_byte, devpipe_read_inc, devpipe_write_test,
         devpipe_write_byte, devpipe_write_inc, write_test, Goto, TypeOK
<1>5. op'[e] # "fork" /\ CallOf(e)' /\ CountOf(e)' /\ AnswerOf(e)'
  <2>1. CASE Return(e)
    BY <1>2, <2>1, Returned, Zenon
  <2>2. CASE op' = op /\ fd' = fd /\ pc'[e] \in {"test", "byte", "inc", "closed"}
    BY <1>1, <1>2, <2>2, GoesOn, Zenon DEF InPipe
  <2> QED
    BY <1>4, <2>1, <2>2, Zenon
<1> QED
  BY <1>1, <1>3, <1>5, QuietStep, Zenon

\* The calls that begin in lib/pipe.c.
LEMMA StepBegin ==
    ASSUME IInv, NEW e \in Procs, NEW s \in Slots,
           pipeisclosed(e, s) \/ devpipe(e, s, "read", "r") \/ devpipe(e, s, "write", "w")
    PROVE  Calls' /\ Pages' /\ Answers'
<1>1. /\ e \in running /\ pc[e] = "idle" /\ UNCHANGED <<fdpage, datapage, status, running>>
      /\ fdpage[e][s] # NULL /\ seen' = seen
  BY PipeAssumption, Zenon DEF PipeAssumption, pipeisclosed, devpipe, Call, maps
<1>2. TypeOK /\ CallOf(e) /\ op[e] = "none" /\ status[e] = "alive"
  BY <1>1, Zenon DEF IInv, Calls, CallOf
<1>3. \A d \in Procs \ {e} : Kept(d)
  BY <1>2, OthersKept, Zenon DEF call
<1>4. /\ fd'[e] = s
      /\ \/ op'[e] = "query" /\ pc'[e] = "closed"
         \/ op'[e] = "write" /\ pc'[e] = "test"
         \/ op'[e] = "read" /\ pc'[e] = "test" /\ fdpage[e][s] = "r"
  BY <1>2, Zenon DEF pipeisclosed, devpipe, Call, Goto, TypeOK
<1>5. op'[e] # "fork" /\ CallOf(e)' /\ CountOf(e)' /\ AnswerOf(e)'
  <2>1. CallOf(e)'
    BY <1>1, <1>2, <1>4, Zenon DEF CallOf, InPipe
  <2> QED
    BY <1>4, <2>1, Zenon DEF CountOf, AnswerOf
<1> QED
  BY <1>1, <1>2, <1>3, <1>5, QuietStep, Zenon

\* The two reads of _pipeisclosed() and its return.
LEMMA StepClosed ==
    ASSUME IInv, NEW e \in Procs,
           _pipeisclosed_first(e) \/ _pipeisclosed_second(e) \/ _pipeisclosed_return(e)
    PROVE  Calls' /\ Pages' /\ Answers'
<1>1. /\ e \in running /\ pc[e] \in {"closed", "ref_fd", "ref_pipe", "answer"}
      /\ UNCHANGED <<fdpage, datapage, status, running>>
  BY Zenon DEF _pipeisclosed_first, _pipeisclosed_second, _pipeisclosed_return, compare, Checking, maps
<1>2. TypeOK /\ CallOf(e) /\ status'[e] = "alive" /\ op[e] # "none"
  BY <1>1, Zenon DEF IInv, Calls, CallOf
<1>3. op[e] \in InPipe
  <2>1. op[e] \notin {"close", "dup"}
    BY <1>1, <1>2, Zenon DEF CallOf
  <2>2. op[e] # "fork"
    BY <1>1, Zenon DEF IInv, Calls, ForkOf
  <2> QED
    BY <1>2, <2>1, <2>2, Zenon DEF TypeOK, Ops, InPipe
<1>4. \A d \in Procs \ {e} : Kept(d)
  BY <1>2, OthersKept, Zenon DEF step
<1>5. op'[e] # "fork" /\ CallOf(e)' /\ CountOf(e)' /\ AnswerOf(e)'
  <2>1. CASE _pipeisclosed_first(e)
    <3>1. /\ op' = op /\ fd' = fd
          /\ \/ pc'[e] = "ref_pipe" /\ seen'[e] = FdRefs(fdpage[e][fd[e]])
             \/ pc'[e] = "ref_fd" /\ seen'[e] = PipeRefs
      BY <1>2, <2>1, Zenon DEF _pipeisclosed_first, Goto, TypeOK
    <3>2. CallOf(e)'
      BY <1>1, <1>2, <1>3, <3>1, Zenon DEF CallOf, InPipe
    <3>3. CountOf(e)'
      <4>1. PipeRefs' = PipeRefs /\ FdRefs(fdpage[e][fd[e]])' = FdRefs(fdpage[e][fd[e]])
        BY <1>1, <3>1, Zenon DEF PipeRefs, FdRefs
      <4> QED
        BY <3>1, <4>1, Zenon DEF CountOf
    <3> QED
      BY <1>3, <3>1, <3>2, <3>3, Zenon DEF AnswerOf, InPipe
  <2>2. CASE _pipeisclosed_second(e)
    <3>1. /\ op' = op /\ fd' = fd /\ pc[e] \in {"ref_fd", "ref_pipe"}
          /\ \/ pc'[e] \in {"closed", "test"} /\ (op[e] = "query" => pc'[e] = "closed")
             \/ /\ pc'[e] = "answer" /\ ~stale[e]
                /\ seen'[e] = IF seen[e] = SecondRef(e) THEN 1 ELSE 0
                /\ op[e] # "query" => seen'[e] = 1
      BY <1>2, <2>2, Zenon DEF _pipeisclosed_second, compare, Checking, Goto, TypeOK
    <3>2. CASE pc'[e] \in {"closed", "test"} /\ (op[e] = "query" => pc'[e] = "closed")
      BY <1>1, <1>2, <1>3, <3>1, <3>2, GoesOn, Zenon
    <3>3. CASE /\ pc'[e] = "answer" /\ ~stale[e]
               /\ seen'[e] = IF seen[e] = SecondRef(e) THEN 1 ELSE 0
               /\ op[e] # "query" => seen'[e] = 1
      <4>1. CallOf(e)'
        BY <1>1, <1>2, <1>3, <3>1, <3>3, Zenon DEF CallOf, InPipe
      <4>2. fd[e] \in Slots /\ fdpage[e][fd[e]] \in {"r", "w"}
        BY <1>2, <1>3 DEF CallOf, TypeOK
      <4>3. seen'[e] = 1 => FdRefs(fdpage[e][fd[e]]) = PipeRefs
        BY <1>1, <3>1, <3>3 DEF IInv, Answers, CountOf, SecondRef
      <4>4. seen'[e] = 1 => ~Open(Other(fdpage[e][fd[e]]))
        BY <1>2, <1>3, <4>2, <4>3, AllPages, CountsAgree, Zenon DEF IInv
      <4>5. AnswerOf(e)'
        BY <1>1, <3>1, <4>4, Zenon DEF AnswerOf, Open, Other
      <4> QED
        BY <1>3, <3>1, <3>3, <4>1, <4>5, Zenon DEF CountOf, InPipe
    <3> QED
      BY <3>1, <3>2, <3>3, Zenon
  <2>3. CASE _pipeisclosed_return(e)
    BY <1>2, <2>3, Returned, Zenon DEF _pipeisclosed_return
  <2> QED
    BY <2>1, <2>2, <2>3, Zenon
<1> QED
  BY <1>1, <1>3, <1>4, <1>5, QuietStep, Zenon DEF InPipe

\* close(), and dup(), which closes the new descriptor t first.
LEMMA StepClose ==
    ASSUME IInv, NEW e \in Procs, NEW s \in Slots, NEW t \in Slots, close(e, t) \/ dup(e, s, t)
    PROVE  Calls' /\ Pages' /\ Answers'
<1>1. /\ e \in running /\ pc[e] = "idle" /\ UNCHANGED <<datapage, status, running>>
      /\ fdpage' = [fdpage EXCEPT ![e][t] = NULL]
      /\ fdpage[e][t] # NULL \/ fdpage[e][s] # NULL
  BY Zenon DEF close, dup, Call
<1>2. TypeOK /\ CallOf(e) /\ op[e] = "none" /\ status[e] = "alive"
  BY <1>1, Zenon DEF IInv, Calls, CallOf
<1>3. \A d \in Procs \ {e} : Kept(d)
  <2>1. CASE close(e, t)
    BY <1>2, <2>1, OthersKept, Zenon DEF call
  <2>2. CASE dup(e, s, t)
    BY <1>2, <2>2, Zenon DEF dup, Call, Kept, Goto, TypeOK
  <2> QED
    BY <2>1, <2>2, Zenon
<1>4. /\ fdpage'[e][t] = NULL
      /\ \A x \in Slots \ {t} : fdpage'[e][x] = fdpage[e][x]
      /\ \A d \in Procs \ {e} : fdpage'[d] = fdpage[d] /\ datapage'[d] = datapage[d]
  BY <1>1, <1>2, Zenon DEF TypeOK
<1>5. /\ arg'[e] = t
      /\ \/ op'[e] = "close" /\ pc'[e] = "unmap_data"
         \/ /\ op'[e] = "dup" /\ pc'[e] \in {"unmap_data", "map_data"}
            /\ fd'[e] = s /\ s # t /\ fdpage[e][s] # NULL
  BY <1>2, ZenonT(30) DEF close, dup, Call, Goto, TypeOK
<1>6. op'[e] # "fork" /\ CallOf(e)'
  <2>1. CASE op'[e] = "close" /\ pc'[e] = "unmap_data"
    BY <1>1, <1>2, <1>4, <1>5, <2>1, Zenon DEF CallOf, InPipe
  <2>2. CASE /\ op'[e] = "dup" /\ pc'[e] \in {"unmap_data", "map_data"}
             /\ fd'[e] = s /\ s # t /\ fdpage[e][s] # NULL
    BY <1>1, <1>2, <1>4, <1>5, <2>2, Zenon DEF CallOf, InPipe
  <2> QED
    BY <1>5, <2>1, <2>2, Zenon
<1>7. PagesOf(e)' /\ (Maps(e)' => Maps(e))
  BY <1>1, <1>2, <1>4, Zenon DEF IInv, Pages, PagesOf, Maps
<1>8. ASSUME NEW end \in {"r", "w"}, Open(end)' PROVE Open(end)
  <2>1. PICK d \in Procs, x \in Slots : fdpage'[d][x] = end
    BY <1>8, Zenon DEF Open
  <2>2. fdpage[d][x] = end
    BY <1>4, <2>1, PipeAssumption, Zenon DEF PipeAssumption
  <2> QED
    BY <2>2, Zenon DEF Open
<1>9. CountOf(e)' /\ AnswerOf(e)'
  BY <1>5, Zenon DEF CountOf, AnswerOf
<1> QED
  BY <1>1, <1>2, <1>3, <1>4, <1>6, <1>7, <1>8, <1>9, OwnStep, Zenon

\* The pipe page goes away next to a descriptor that is closed.
LEMMA StepUnmap ==
    ASSUME IInv, NEW e \in Procs, devpipe_close_data(e)
    PROVE  Calls' /\ Pages' /\ Answers'
<1>1. /\ e \in running /\ pc[e] = "unmap_data" /\ UNCHANGED <<fdpage, status, running>>
      /\ datapage' = [datapage EXCEPT ![e][arg[e]] = FALSE]
  BY Zenon DEF devpipe_close_data
<1>2. TypeOK /\ CallOf(e) /\ status'[e] = "alive"
  BY <1>1, Zenon DEF IInv, Calls, CallOf
<1>3. \A d \in Procs \ {e} : Kept(d)
  BY <1>2, OthersKept, Zenon DEF step
<1>4. op[e] \in {"close", "dup"} /\ arg[e] \in Slots /\ fdpage[e][arg[e]] = NULL
  <2>1. op[e] \notin InPipe /\ op[e] # "none"
    BY <1>1, <1>2, Zenon DEF CallOf
  <2>2. op[e] # "fork"
    BY <1>1, Zenon DEF IInv, Calls, ForkOf
  <2>3. op[e] \in {"close", "dup"}
    BY <1>2, <2>1, <2>2, Zenon DEF TypeOK, Ops, InPipe
  <2> QED
    BY <1>2, <2>3, Zenon DEF CallOf
<1>5. /\ \A d \in Procs \ {e} : fdpage'[d] = fdpage[d] /\ datapage'[d] = datapage[d]
      /\ \A x \in Slots : /\ datapage'[e][x] => datapage[e][x]
                          /\ x # arg[e] => datapage'[e][x] = datapage[e][x]
  BY <1>1, <1>2, <1>4, Zenon DEF TypeOK
<1>6. op'[e] # "fork" /\ CallOf(e)' /\ CountOf(e)' /\ AnswerOf(e)'
  <2>1. CASE op[e] = "dup"
    <3>1. op' = op /\ fd' = fd /\ arg' = arg /\ pc'[e] = "map_data"
      BY <1>2, <2>1, Zenon DEF devpipe_close_data, Goto, TypeOK
    <3>2. CallOf(e)'
      BY <1>1, <1>2, <2>1, <3>1, Zenon DEF CallOf, InPipe
    <3> QED
      BY <2>1, <3>1, <3>2, Zenon DEF CountOf, AnswerOf
  <2>2. CASE op[e] # "dup"
    BY <1>2, <2>2, Returned, Zenon DEF devpipe_close_data
  <2> QED
    BY <2>1, <2>2, Zenon
<1>7. PagesOf(e)' /\ (Maps(e)' => Maps(e))
  BY <1>1, <1>2, <1>4, <1>5, Zenon DEF IInv, Pages, PagesOf, Maps
<1>8. \A end \in {"r", "w"} : Open(end)' => Open(end)
  BY <1>1, Zenon DEF Open
<1> QED
  BY <1>1, <1>3, <1>4, <1>5, <1>6, <1>7, <1>8, OwnStep, Zenon

\* dup() maps the pipe page next to the new descriptor, and then the descriptor.
LEMMA StepDup ==
    ASSUME IInv, NEW e \in Procs, dup_data(e) \/ dup_fd(e)
    PROVE  Calls' /\ Pages' /\ Answers'
<1>1. e \in running /\ op[e] = "dup" /\ UNCHANGED <<status, running>>
  BY Zenon DEF dup_data, dup_fd, At
<1>2. /\ TypeOK /\ CallOf(e) /\ status'[e] = "alive"
      /\ arg[e] \in Slots /\ fd[e] \in Slots /\ fdpage[e][fd[e]] # NULL /\ fdpage[e][arg[e]] = NULL
  BY <1>1, Zenon DEF IInv, Calls, CallOf
<1>3. \A d \in Procs \ {e} : Kept(d)
  BY <1>2, OthersKept, Zenon DEF step
<1>4. CASE dup_data(e)
  <2>1. /\ fdpage' = fdpage /\ op' = op /\ fd' = fd /\ arg' = arg /\ pc'[e] = "map_fd"
        /\ datapage'[e][arg[e]] = TRUE
        /\ \A x \in Slots \ {arg[e]} : datapage'[e][x] = datapage[e][x]
        /\ \A d \in Procs \ {e} : datapage'[d] = datapage[d]
    BY <1>2, <1>4, Zenon DEF dup_data, Goto, TypeOK
  <2>2. CallOf(e)' /\ CountOf(e)' /\ AnswerOf(e)'
    <3>1. CallOf(e)'
      BY <1>1, <1>2, <2>1, Zenon DEF CallOf, InPipe
    <3> QED
      BY <2>1, <3>1, Zenon DEF CountOf, AnswerOf
  <2>3. PagesOf(e)' /\ (Maps(e)' => Maps(e))
    BY <1>1, <1>2, <2>1, Zenon DEF IInv, Pages, PagesOf, Maps
  <2>4. \A end \in {"r", "w"} : Open(end)' => Open(end)
    BY <2>1, Zenon DEF Open
  <2>5. op[e] # "fork" /\ op'[e] # "fork"
    BY <1>1, <2>1, Zenon
  <2> QED
    BY <1>1, <1>3, <2>1, <2>2, <2>3, <2>4, <2>5, OwnStep, Zenon
<1>5. CASE dup_fd(e)
  <2>1. /\ datapage' = datapage /\ Return(e) /\ datapage[e][arg[e]]
        /\ fdpage'[e][arg[e]] = fdpage[e][fd[e]]
        /\ \A x \in Slots \ {arg[e]} : fdpage'[e][x] = fdpage[e][x]
        /\ \A d \in Procs \ {e} : fdpage'[d] = fdpage[d]
    <3>1. datapage[e][arg[e]]
      BY <1>1, <1>2, <1>5, Zenon DEF dup_fd, At, CallOf
    <3> QED
      BY <1>2, <1>5, <3>1, Zenon DEF dup_fd, TypeOK
  <2>2. op'[e] = "none" /\ CallOf(e)' /\ CountOf(e)' /\ AnswerOf(e)'
    BY <1>2, <2>1, Returned, Zenon
  <2>3. PagesOf(e)' /\ (Maps(e)' => Maps(e))
    <3>1. \A x \in Slots : fdpage[e][x] # NULL => datapage[e][x]
      BY <1>1, <1>2, Zenon DEF IInv, Pages, PagesOf
    <3>2. \A x \in Slots : fdpage'[e][x] # NULL => datapage'[e][x]
      BY <2>1, <3>1, Zenon
    <3> QED
      BY <1>2, <3>2, Zenon DEF PagesOf, Maps
  <2>4. ASSUME NEW end \in {"r", "w"}, Open(end)' PROVE Open(end)
    <3>1. PICK d \in Procs, x \in Slots : fdpage'[d][x] = end
      BY <2>4, Zenon DEF Open
    <3>2. fdpage[d][x] = end \/ fdpage[e][fd[e]] = end
      BY <2>1, <3>1, Zenon
    <3> QED
      BY <1>2, <3>2, Zenon DEF Open
  <2>5. op[e] # "fork" /\ op'[e] # "fork"
    BY <1>1, <2>2, Zenon
  <2> QED
    BY <1>1, <1>3, <2>1, <2>2, <2>3, <2>4, <2>5, OwnStep, Zenon
<1> QED
  BY <1>4, <1>5, Zenon

\* Calls are kept, and no end is opened: the answers stay true.
LEMMA AnswersStay ==
    ASSUME IInv, NEW d \in Procs, Kept(d), fdpage'[d] = fdpage[d],
           \A end \in {"r", "w"} : Open(end)' => Open(end)
    PROVE  AnswerOf(d)'
<1> SUFFICES ASSUME pc'[d] = "answer", seen'[d] = 1 PROVE ~Open(Other(fdpage[d][fd[d]]))'
  BY Zenon DEF AnswerOf
<1>1. pc[d] = "answer" /\ seen[d] = 1 /\ fd'[d] = fd[d]
  BY Zenon DEF Kept
<1>2. ~Open(Other(fdpage[d][fd[d]]))
  BY <1>1, Zenon DEF IInv, Answers, AnswerOf
<1> QED
  BY <1>1, <1>2, Zenon DEF Other

\* fork() makes a child that maps nothing yet.
LEMMA StepFork ==
    ASSUME IInv, Lapses = {}, NEW e \in Procs, NEW c \in Procs, fork(e, c)
    PROVE  Calls' /\ Pages' /\ Answers'
<1>0. Calls /\ Pages /\ Answers /\ TypeOK
  BY Zenon DEF IInv
<1>1. /\ e \in running /\ pc[e] = "idle" /\ UNCHANGED <<fdpage, datapage, running>>
      /\ Alone(e) /\ status[c] = "none"
  BY Zenon DEF fork, Call, maps
<1>2. op[e] = "none" /\ status[e] = "alive" /\ c # e
  BY <1>0, <1>1, Zenon DEF Calls, CallOf
<1>3. \A d \in Procs \ {e} : Kept(d)
  BY <1>0, OthersKept, Zenon DEF call
<1>4. /\ op'[e] = "fork" /\ pc'[e] = "duppage" /\ arg'[e] = c
      /\ status'[c] = "embryo" /\ \A d \in Procs \ {c} : status'[d] = status[d]
  BY <1>0, Zenon DEF fork, Call, Goto, TypeOK
<1>5. \A d \in Procs : (Maps(d)' <=> Maps(d)) /\ (Maps(d) => d = e)
  BY <1>1, Zenon DEF Maps, Alone
<1>6. \A d \in Procs : op[d] = "fork" => arg[d] # c
  BY <1>0, <1>1, Zenon DEF Calls, ForkOf
<1>7. ASSUME NEW d \in Procs PROVE CallOf(d)'
  <2>1. CASE d = e
    BY <1>1, <1>2, <1>4, <2>1, Zenon DEF CallOf, InPipe
  <2>2. CASE d # e
    <3>1. CallOf(d) /\ Kept(d)
      BY <1>0, <1>3, <2>2, Zenon DEF Calls
    <3>2. d = c => op[d] = "none" /\ d \notin running
      BY <1>1, <3>1, Zenon DEF CallOf
    <3> QED
      BY <1>1, <1>4, <3>1, <3>2 DEF CallOf, Kept, InPipe
  <2> QED
    BY <2>1, <2>2, Zenon
<1>8. ASSUME NEW d \in Procs PROVE ForkOf(d)'
  <2>1. CASE d = e
    BY <1>2, <1>3, <1>4, <1>5, <1>6, <2>1, Zenon DEF ForkOf, Kept
  <2>2. CASE d # e
    <3>1. ForkOf(d) /\ Kept(d)
      BY <1>0, <1>3, <2>2, Zenon DEF Calls
    <3>2. ASSUME op[d] = "fork", NEW x \in Procs, op'[x] = "fork", arg'[x] = arg[d] PROVE x = d
      <4>1. x # e
        BY <1>4, <1>6, <3>2, Zenon
      <4> QED
        BY <1>3, <3>1, <3>2, <4>1, Zenon DEF ForkOf, Kept
    <3> QED
      BY <1>4, <1>5, <1>6, <3>1, <3>2, ZenonT(30) DEF ForkOf, Kept
  <2> QED
    BY <2>1, <2>2, Zenon
<1>9. ASSUME NEW d \in Procs PROVE PagesOf(d)' /\ EmbryoOf(d)'
  <2>1. PagesOf(d)
    BY <1>0, Zenon DEF Pages
  <2>2. PagesOf(d)'
    BY <1>1, <1>4, <1>5, <2>1, Zenon DEF PagesOf
  <2>3. EmbryoOf(d)'
    BY <1>1, <1>2, <1>4, <1>5, Zenon DEF EmbryoOf
  <2> QED
    BY <2>2, <2>3, Zenon
<1>10. ASSUME NEW d \in Procs PROVE CountOf(d)' /\ AnswerOf(d)'
  <2>1. CASE d = e
    BY <1>4, <2>1, Zenon DEF CountOf, AnswerOf
  <2>2. CASE d # e
    <3>1. CountOf(d)'
      BY <1>0, <1>1, <2>2, Zenon DEF Answers, OneCPU, CountOf
    <3>2. \A end \in {"r", "w"} : Open(end)' => Open(end)
      BY <1>1, Zenon DEF Open
    <3> QED
      BY <1>1, <1>3, <2>2, <3>1, <3>2, AnswersStay, Zenon
  <2> QED
    BY <2>1, <2>2, Zenon
<1> QED
  BY <1>0, <1>1, <1>7, <1>8, <1>9, <1>10, Zenon DEF Calls, Pages, Answers, OneCPU

\* The end of an environment.
LEMMA StepFree ==
    ASSUME IInv, NEW e \in Procs, env_free(e)
    PROVE  Calls' /\ Pages' /\ Answers'
<1>0. Calls /\ Pages /\ Answers /\ TypeOK
  BY Zenon DEF IInv
<1>1. /\ status[e] = "alive" /\ running' = running \ {e} /\ Return(e)
      /\ e \in running \/ \E d \in running : pc[d] = "idle"
  BY Zenon DEF env_free
<1>2. \A d \in Procs \ {e} : Kept(d)
  BY <1>0, OthersKept, Zenon
<1>3. /\ \A s \in Slots : fdpage'[e][s] = NULL /\ datapage'[e][s] = FALSE
      /\ \A d \in Procs \ {e} : fdpage'[d] = fdpage[d] /\ datapage'[d] = datapage[d]
      /\ status'[e] = "dead" /\ \A d \in Procs \ {e} : status'[d] = status[d]
  BY <1>0, Zenon DEF env_free, TypeOK
<1>4. op'[e] = "none" /\ pc'[e] = "idle"
  BY <1>0, <1>1, Zenon DEF Return, TypeOK
<1>5. ~Maps(e)' /\ \A d \in Procs \ {e} : Maps(d)' <=> Maps(d)
  BY <1>3, Zenon DEF Maps
<1>6. ASSUME NEW d \in Procs PROVE CallOf(d)'
  <2>1. CASE d = e
    BY <1>1, <1>4, <2>1, Zenon DEF CallOf, InPipe
  <2>2. CASE d # e
    <3>1. CallOf(d) /\ Kept(d)
      BY <1>0, <1>2, <2>2, Zenon DEF Calls
    <3> QED
      BY <1>1, <1>3, <2>2, <3>1 DEF CallOf, Kept, InPipe
  <2> QED
    BY <2>1, <2>2, Zenon
<1>7. ASSUME NEW d \in Procs PROVE ForkOf(d)'
  <2>1. CASE d = e
    BY <1>4, <2>1, Zenon DEF ForkOf
  <2>2. CASE d # e
    <3>1. ForkOf(d) /\ Kept(d)
      BY <1>0, <1>2, <2>2, Zenon DEF Calls
    <3>2. op[d] = "fork" => arg[d] # e
      BY <1>1, <3>1, Zenon DEF ForkOf
    <3>3. \A x \in Procs : op'[x] = "fork" => x # e
      BY <1>4, Zenon
    <3> QED
      BY <1>2, <1>3, <1>5, <2>2, <3>1, <3>2, <3>3, ZenonT(30) DEF ForkOf, Kept
  <2> QED
    BY <2>1, <2>2, Zenon
<1>8. ASSUME NEW d \in Procs PROVE PagesOf(d)' /\ EmbryoOf(d)'
  <2>1. PagesOf(d) /\ EmbryoOf(d)
    BY <1>0, Zenon DEF Pages
  <2>2. PagesOf(d)'
    BY <1>3, <1>5, <2>1, Zenon DEF PagesOf
  <2>3. EmbryoOf(d)'
    BY <1>2, <1>3, <1>5, <2>1 DEF EmbryoOf, Kept
  <2> QED
    BY <2>2, <2>3, Zenon
<1>9. ASSUME NEW end \in {"r", "w"}, Open(end)' PROVE Open(end)
  <2>1. end # NULL
    BY PipeAssumption, Zenon DEF PipeAssumption
  <2> QED
    BY <1>3, <1>9, <2>1, Zenon DEF Open
<1>10. ASSUME NEW d \in Procs PROVE CountOf(d)' /\ AnswerOf(d)'
  <2>1. CASE d = e
    BY <1>1, <1>4, <2>1, Zenon DEF CountOf, AnswerOf
  <2>2. CASE d # e
    <3>1. ASSUME d \in running' PROVE pc'[d] = "idle"
      BY <1>0, <1>1, <1>2, <2>2, <3>1, Zenon DEF Answers, OneCPU, Kept
    <3>2. CountOf(d)'
      BY <3>1, Zenon DEF CountOf
    <3> QED
      BY <1>2, <1>3, <1>9, <2>2, <3>2, AnswersStay, Zenon
  <2> QED
    BY <2>1, <2>2, Zenon
<1> QED
  BY <1>0, <1>1, <1>6, <1>7, <1>8, <1>10, Zenon DEF Calls, Pages, Answers, OneCPU

\* With one CPU an environment that is put on it is the only one.
LEMMA StepRun ==
    ASSUME IInv, NCPU = 1, NEW e \in Procs, run(e)
    PROVE  Calls' /\ Pages' /\ Answers'
<1>0. Calls /\ Pages /\ Answers /\ TypeOK
  BY Zenon DEF IInv
<1>1. status[e] = "alive" /\ UNCHANGED <<fdpage, datapage, status>> /\ op' = op /\ pc' = pc
      /\ fd' = fd /\ arg' = arg /\ seen' = seen /\ stale'[e] = (pc[e] \in Checking)
  BY <1>0, Zenon DEF run, maps, locals, TypeOK
<1>2. running' = {e}
  <2>1. CASE Cardinality(running) < 1 /\ running' = running \cup {e}
    <3>1. IsFiniteSet(running)
      BY <1>0, PipeAssumption, FS_Subset, Zenon DEF PipeAssumption, TypeOK
    <3>2. running = {}
      BY <2>1, <3>1, FS_CardinalityType, FS_EmptySet
    <3> QED
      BY <2>1, <3>2, Zenon
  <2>2. CASE \E d \in running : running' = (running \ {d}) \cup {e}
    BY <1>0, <2>2, Zenon DEF Answers, OneCPU
  <2> QED
    BY <2>1, <2>2, Zenon DEF run
<1>3. \A d \in Procs \ {e} : Kept(d)
  BY <1>0, OthersKept, Zenon
<1>4. ASSUME NEW d \in Procs PROVE CallOf(d)'
  <2>1. CallOf(d)
    BY <1>0, Zenon DEF Calls
  <2> QED
    BY <1>1, <1>2, <2>1, Zenon DEF CallOf, InPipe
<1>5. ASSUME NEW d \in Procs PROVE ForkOf(d)' /\ PagesOf(d)' /\ EmbryoOf(d)'
  <2>1. ForkOf(d) /\ PagesOf(d) /\ EmbryoOf(d)
    BY <1>0, Zenon DEF Calls, Pages
  <2>2. ForkOf(d)'
    BY <1>1, <2>1, Zenon DEF ForkOf, Maps
  <2>3. PagesOf(d)' /\ EmbryoOf(d)'
    BY <1>1, <2>1, Zenon DEF PagesOf, EmbryoOf, Maps
  <2> QED
    BY <2>2, <2>3, Zenon
<1>6. ASSUME NEW d \in Procs PROVE CountOf(d)' /\ AnswerOf(d)'
  <2>1. CountOf(d)'
    BY <1>1, <1>2, Zenon DEF CountOf, Checking
  <2>2. AnswerOf(d)'
    BY <1>0, <1>1, Zenon DEF Answers, AnswerOf, Open, Other
  <2> QED
    BY <2>1, <2>2, Zenon
<1> QED
  BY <1>0, <1>2, <1>4, <1>5, <1>6, Zenon DEF Calls, Pages, Answers, OneCPU

\* While e forks, the child c maps nothing but what e gives it, and nobody else
\* maps anything.
LEMMA Forking ==
    ASSUME IInv, NEW e \in Procs, op[e] = "fork", NEW c \in Procs, c = arg[e]
    PROVE  /\ c # e /\ status[c] = "embryo" /\ status[e] = "alive" /\ op[c] = "none"
           /\ c \notin running /\ \A d \in Procs : Maps(d) => d \in {e, c}
           /\ \A d \in Procs : op[d] = "fork" /\ arg[d] = c => d = e
           /\ \A d \in Procs \ {e} : op[d] = "fork" => ~Maps(e) /\ ~Maps(c)
<1>1. /\ c # e /\ status[c] = "embryo" /\ \A d \in Procs : Maps(d) => d \in {e, c}
      /\ \A d \in Procs : op[d] = "fork" /\ arg[d] = c => d = e
  BY ZenonT(30) DEF IInv, Calls, ForkOf
<1>2. status[e] = "alive" /\ op[c] = "none" /\ c \notin running
  BY <1>1, Zenon DEF IInv, Calls, CallOf
<1>3. ASSUME NEW d \in Procs \ {e}, op[d] = "fork" PROVE ~Maps(e) /\ ~Maps(c)
  <2>1. ForkOf(d) /\ arg[d] # c /\ d # c
    BY <1>1, <1>2, <1>3, Zenon DEF IInv, Calls
  <2>2. arg[d] # e
    BY <1>2, <1>3, <2>1, Zenon DEF ForkOf
  <2> QED
    BY <1>3, <2>1, <2>2, Zenon DEF ForkOf
<1> QED
  BY <1>1, <1>2, <1>3, Zenon

\* duppage() maps a page into the child.
LEMMA ChildPage ==
    ASSUME IInv, NEW e \in Procs, op[e] = "fork", NEW c \in Procs, c = arg[e], e \in running,
           Maps(e) \/ Maps(c), op' = op, pc' = pc, fd' = fd, arg' = arg, seen' = seen,
           UNCHANGED <<status, running, stale>>, \A d \in Procs : Kept(d),
           \A d \in Procs \ {c} : fdpage'[d] = fdpage[d] /\ datapage'[d] = datapage[d],
           \A end \in {"r", "w"} : Open(end)' => Open(end)
    PROVE  Calls' /\ Pages' /\ Answers'
<1>0. Calls /\ Pages /\ Answers
  BY Zenon DEF IInv
<1>1. /\ c # e /\ status[c] = "embryo" /\ status[e] = "alive" /\ op[c] = "none"
      /\ c \notin running /\ \A d \in Procs : Maps(d) => d \in {e, c}
      /\ \A d \in Procs : op[d] = "fork" => d = e
  <2>1. \A d \in Procs \ {e} : op[d] = "fork" => ~Maps(e) /\ ~Maps(c)
    BY Forking
  <2>2. \A d \in Procs : op[d] = "fork" => d = e
    BY <2>1, Zenon
  <2> QED
    BY <2>2, Forking, Zenon
<1>2. \A d \in Procs : Maps(d)' => d \in {e, c}
  BY <1>1 DEF Maps
<1>3. ASSUME NEW d \in Procs PROVE CallOf(d)'
  <2>1. CallOf(d)
    BY <1>0, Zenon DEF Calls
  <2>2. op[d] # "none" => fdpage'[d] = fdpage[d] /\ datapage'[d] = datapage[d]
    BY <1>1, Zenon
  <2> QED
    BY <2>1, <2>2, Zenon DEF CallOf, InPipe
<1>4. ASSUME NEW d \in Procs PROVE ForkOf(d)'
  <2>1. ForkOf(d)
    BY <1>0, Zenon DEF Calls
  <2> QED
    BY <1>1, <1>2, <2>1, Zenon DEF ForkOf
<1>5. ASSUME NEW d \in Procs PROVE PagesOf(d)' /\ EmbryoOf(d)'
  <2>1. PagesOf(d)
    BY <1>0, Zenon DEF Pages
  <2>2. PagesOf(d)'
    <3>1. CASE d = c
      BY <1>1, <3>1, Zenon DEF PagesOf
    <3>2. CASE d # c
      BY <2>1, <3>2, Zenon DEF PagesOf, Maps
    <3> QED
      BY <3>1, <3>2, Zenon
  <2>3. EmbryoOf(d)'
    BY <1>1, <1>2, Zenon DEF EmbryoOf
  <2> QED
    BY <2>2, <2>3, Zenon
<1>6. ASSUME NEW d \in Procs PROVE CountOf(d)' /\ AnswerOf(d)'
  <2>1. pc[e] = "duppage"
    BY <1>0, Zenon DEF Calls, ForkOf
  <2>2. CountOf(d)'
    BY <1>0, <2>1, Zenon DEF Answers, OneCPU, CountOf
  <2>3. CASE d = c
    <3>1. pc[c] = "idle"
      BY <1>0, <1>1, Zenon DEF Calls, CallOf
    <3> QED
      BY <2>2, <2>3, <3>1, Zenon DEF AnswerOf
  <2>4. CASE d # c
    BY <2>2, <2>4, AnswersStay, Zenon
  <2> QED
    BY <2>3, <2>4, Zenon
<1> QED
  BY <1>0, <1>3, <1>4, <1>5, <1>6, Zenon DEF Calls, Pages, Answers, OneCPU

\* The loop of fork() over the pages, and its end.
LEMMA StepDuppage ==
    ASSUME IInv, NEW e \in Procs, fork_duppage(e)
    PROVE  Calls' /\ Pages' /\ Answers'
<1>0. Calls /\ Pages /\ Answers /\ TypeOK
  BY Zenon DEF IInv
<1>1. e \in running /\ op[e] = "fork" /\ UNCHANGED <<running, stale>>
  BY Zenon DEF fork_duppage, At
<1>2. PICK c \in Procs : c = arg[e]
  BY <1>0, <1>1, Zenon DEF Calls, ForkOf
<1>3. /\ c # e /\ status[c] = "embryo" /\ status[e] = "alive" /\ op[c] = "none"
      /\ c \notin running /\ \A d \in Procs : Maps(d) => d \in {e, c}
      /\ \A d \in Procs : op[d] = "fork" /\ arg[d] = c => d = e
      /\ \A d \in Procs \ {e} : op[d] = "fork" => ~Maps(e) /\ ~Maps(c)
  BY <1>1, <1>2, Forking, ZenonT(30)
<1>4. \A d \in Procs \ {e} : Kept(d)
  BY <1>0, OthersKept, Zenon DEF step
<1> DEFINE fds == {s \in Slots : fdpage[e][s] # fdpage[c][s]}
           data == {s \in Slots : datapage[e][s] # datapage[c][s]}
<1>5. \/ /\ fds # {} /\ fdpage' = [fdpage EXCEPT ![c][Min(fds)] = fdpage[e][Min(fds)]]
         /\ UNCHANGED <<datapage, status, locals>>
      \/ /\ data # {} /\ datapage' = [datapage EXCEPT ![c][Min(data)] = TRUE]
         /\ UNCHANGED <<fdpage, status, locals>>
      \/ /\ fds = {} /\ data = {} /\ status' = [status EXCEPT ![c] = "alive"]
         /\ Return(e) /\ UNCHANGED maps
  BY <1>2, Zenon DEF fork_duppage
<1>6. fds \in SUBSET Nat /\ data \in SUBSET Nat
  BY PipeAssumption, Zenon DEF PipeAssumption
<1>7. CASE /\ fds # {} /\ fdpage' = [fdpage EXCEPT ![c][Min(fds)] = fdpage[e][Min(fds)]]
           /\ UNCHANGED <<datapage, status, locals>>
  <2>1. PICK m \in fds : m = Min(fds)
    BY <1>6, <1>7, MinIn, Zenon
  <2>2. m \in Slots /\ fdpage[e][m] # fdpage[c][m]
    BY <2>1, Zenon
  <2>3. /\ fdpage'[c][m] = fdpage[e][m] /\ \A s \in Slots \ {m} : fdpage'[c][s] = fdpage[c][s]
        /\ \A d \in Procs \ {c} : fdpage'[d] = fdpage[d] /\ datapage'[d] = datapage[d]
    BY <1>0, <1>7, <2>1, <2>2, Zenon DEF TypeOK
  <2>4. Maps(e) \/ Maps(c)
    BY <2>2, Zenon DEF Maps
  <2>5. ASSUME NEW end \in {"r", "w"}, Open(end)' PROVE Open(end)
    <3>1. PICK d \in Procs, x \in Slots : fdpage'[d][x] = end
      BY <2>5, Zenon DEF Open
    <3>2. fdpage[d][x] = end \/ fdpage[e][m] = end
      BY <2>3, <3>1, Zenon
    <3> QED
      BY <2>2, <3>2, Zenon DEF Open
  <2>6. op' = op /\ pc' = pc /\ fd' = fd /\ arg' = arg /\ seen' = seen /\ \A d \in Procs : Kept(d)
    BY <1>1, <1>7, Zenon DEF locals, Kept
  <2> QED
    BY <1>1, <1>2, <1>7, <2>3, <2>4, <2>5, <2>6, ChildPage, Zenon
<1>8. CASE /\ data # {} /\ datapage' = [datapage EXCEPT ![c][Min(data)] = TRUE]
           /\ UNCHANGED <<fdpage, status, locals>>
  <2>1. PICK m \in data : m = Min(data)
    BY <1>6, <1>8, MinIn, Zenon
  <2>2. m \in Slots /\ (datapage[e][m] \/ datapage[c][m])
    BY <1>0, <2>1 DEF TypeOK
  <2>3. \A d \in Procs \ {c} : fdpage'[d] = fdpage[d] /\ datapage'[d] = datapage[d]
    BY <1>0, <1>8, Zenon DEF TypeOK
  <2>4. Maps(e) \/ Maps(c)
    BY <2>2, Zenon DEF Maps
  <2>5. \A end \in {"r", "w"} : Open(end)' => Open(end)
    BY <1>8, Zenon DEF Open
  <2>6. op' = op /\ pc' = pc /\ fd' = fd /\ arg' = arg /\ seen' = seen /\ \A d \in Procs : Kept(d)
    BY <1>1, <1>8, Zenon DEF locals, Kept
  <2> QED
    BY <1>1, <1>2, <1>8, <2>3, <2>4, <2>5, <2>6, ChildPage, Zenon
<1>9. CASE /\ fds = {} /\ data = {} /\ status' = [status EXCEPT ![c] = "alive"]
           /\ Return(e) /\ UNCHANGED maps
  <2>1. /\ status'[c] = "alive" /\ \A d \in Procs \ {c} : status'[d] = status[d]
        /\ fdpage' = fdpage /\ datapage' = datapage
    BY <1>0, <1>9, Zenon DEF TypeOK, maps
  <2>2. op'[e] = "none" /\ CallOf(e)' /\ CountOf(e)' /\ AnswerOf(e)'
    BY <1>0, <1>3, <1>9, <2>1, Returned, Zenon
  <2>3. \A d \in Procs : Maps(d)' <=> Maps(d)
    BY <2>1, Zenon DEF Maps
  <2>4. ASSUME NEW d \in Procs PROVE CallOf(d)'
    <3>1. CallOf(d)
      BY <1>0, Zenon DEF Calls
    <3>2. CASE d = e
      BY <2>2, <3>2, Zenon
    <3>3. CASE d # e
      <4>1. Kept(d) /\ (status[d] = "alive" => status'[d] = "alive")
        BY <1>4, <2>1, <3>3, Zenon
      <4> QED
        BY <1>1, <2>1, <3>1, <4>1, CallStays, Zenon
    <3> QED
      BY <3>2, <3>3, Zenon
  <2>5. ASSUME NEW d \in Procs PROVE ForkOf(d)'
    <3>1. ForkOf(d)
      BY <1>0, Zenon DEF Calls
    <3>2. CASE d = e
      BY <2>2, <3>2, Zenon DEF ForkOf
    <3>3. CASE d # e
      <4>1. op[d] = "fork" => arg[d] # c
        BY <1>3, <3>3, Zenon
      <4>2. \A x \in Procs : op'[x] = "fork" => op[x] = "fork" /\ arg'[x] = arg[x]
        BY <1>4, <2>2, Zenon DEF Kept
      <4> QED
        BY <1>4, <2>1, <2>3, <3>1, <3>3, <4>1, <4>2, ZenonT(30) DEF ForkOf, Kept
    <3> QED
      BY <3>2, <3>3, Zenon
  <2>6. ASSUME NEW d \in Procs PROVE PagesOf(d)' /\ EmbryoOf(d)'
    <3>1. PagesOf(d) /\ PagesOf(e)
      BY <1>0, Zenon DEF Pages
    <3>2. \A s \in Slots : fdpage[c][s] = fdpage[e][s] /\ datapage[c][s] = datapage[e][s]
      BY <1>9, Zenon
    <3>3. PagesOf(d)'
      <4>1. CASE d = c
        BY <1>3, <2>1, <3>1, <3>2, <4>1, ZenonT(30) DEF PagesOf
      <4>2. CASE d # c
        BY <2>1, <2>3, <3>1, <4>2, Zenon DEF PagesOf
      <4> QED
        BY <4>1, <4>2, Zenon
    <3>4. EmbryoOf(d)'
      BY <1>3, <2>1, <2>3, Zenon DEF EmbryoOf
    <3> QED
      BY <3>3, <3>4, Zenon
  <2>7. ASSUME NEW d \in Procs PROVE CountOf(d)' /\ AnswerOf(d)'
    <3>1. CASE d = e
      BY <2>2, <3>1, Zenon
    <3>2. CASE d # e
      <4>1. CountOf(d)'
        BY <1>0, <1>1, <3>2, Zenon DEF Answers, OneCPU, CountOf
      <4>2. \A end \in {"r", "w"} : Open(end)' => Open(end)
        BY <2>1, Zenon DEF Open
      <4> QED
        BY <1>4, <2>1, <3>2, <4>1, <4>2, AnswersStay, ZenonT(30)
    <3> QED
      BY <3>1, <3>2, Zenon
  <2> QED
    BY <1>0, <1>1, <2>4, <2>5, <2>6, <2>7, Zenon DEF Calls, Pages, Answers, OneCPU
<1> QED
  BY <1>5, <1>7, <1>8, <1>9, Zenon

-----------------------------------------------------------------------------
(* Types *)

TypeMaps == /\ fdpage \in [Procs -> [Slots -> {"r", "w", NULL}]]
            /\ datapage \in [Procs -> [Slots -> BOOLEAN]]
            /\ status \in [Procs -> {"none", "embryo", "alive", "dead"}]
            /\ running \subseteq Procs
TypeCall == /\ op \in [Procs -> Ops] /\ pc \in [Procs -> Labels]
            /\ fd \in [Procs -> Slots \cup {NULL}]
            /\ arg \in [Procs -> Slots \cup Procs \cup {NULL}]
            /\ taken \in [Procs -> Byte \cup {NULL}]
            /\ some \in [Procs -> BOOLEAN] /\ stale \in [Procs -> BOOLEAN]
            /\ seen \in [Procs -> Nat]
TypeRing == /\ p_rpos \in Nat /\ p_wpos \in Nat
            /\ p_buf \in [0 .. PIPEBUFSIZ - 1 -> Byte \cup {NULL}]
            /\ sent \in Seq(Byte) /\ got \in Seq(Byte)

\* The reference counts are numbers.
LEMMA RefsType == PipeRefs \in Nat /\ \A end : FdRefs(end) \in Nat
<1>1. IsFiniteSet(Procs \X Slots)
  BY PipeAssumption, FS_Product, Zenon DEF PipeAssumption
<1>2. PipeRefs \in Nat
  BY <1>1, FS_Subset, FS_CardinalityType, Zenon DEF PipeRefs
<1>3. ASSUME NEW end PROVE FdRefs(end) \in Nat
  BY <1>1, FS_Subset, FS_CardinalityType, Zenon DEF FdRefs
<1> QED
  BY <1>2, <1>3, Zenon

\* Returning from a call.
LEMMA ReturnType ==
    ASSUME TypeCall, NEW e \in Procs, Return(e), stale' \in [Procs -> BOOLEAN]
    PROVE  TypeCall'
BY Zenon DEF TypeCall, Return, Ops, Labels

\* The types of what _pipeisclosed(), read() and write() work with.
LEMMA TypePipe ==
    ASSUME TypeOK, RingInv, NEW e \in Procs, step(e),
           ~devpipe_close_data(e), ~dup_data(e), ~dup_fd(e), ~fork_duppage(e)
    PROVE  TypeMaps' /\ TypeCall'
<1>0. TypeMaps /\ TypeCall /\ TypeRing
  BY Zenon DEF TypeOK, TypeMaps, TypeCall, TypeRing
<1>1. CASE _pipeisclosed_first(e)
  <2>1. PICK l \in Labels, n \in Nat :
           pc' = [pc EXCEPT ![e] = l] /\ seen' = [seen EXCEPT ![e] = n]
    BY <1>1, RefsType, Zenon DEF _pipeisclosed_first, Goto, Labels
  <2> QED
    BY <1>0, <1>1, <2>1, Zenon DEF _pipeisclosed_first, maps, TypeMaps, TypeCall
<1>2. CASE _pipeisclosed_second(e)
  BY <1>0, <1>2, Zenon DEF _pipeisclosed_second, compare, Goto, maps, TypeMaps, TypeCall, Labels
<1>3. CASE _pipeisclosed_return(e)
  BY <1>0, <1>3, ReturnType, Zenon DEF _pipeisclosed_return, maps, TypeMaps, TypeCall
<1>4. CASE devpipe_read_test(e)
  BY <1>0, <1>4, ReturnType, Zenon DEF devpipe_read_test, Goto, maps, TypeMaps, TypeCall, Labels
<1>5. CASE devpipe_read_byte(e)
  <2>1. p_rpos % PIPEBUFSIZ \in 0 .. PIPEBUFSIZ - 1
    BY <1>0, PipeAssumption DEF PipeAssumption, TypeRing
  <2>2. p_buf[p_rpos % PIPEBUFSIZ] \in Byte \cup {NULL}
    BY <1>0, <2>1, Zenon DEF TypeRing
  <2> QED
    BY <1>0, <1>5, <2>2, ZenonT(30) DEF devpipe_read_byte, Goto, maps, TypeMaps, TypeCall, Labels
<1>6. CASE devpipe_read_inc(e)
  BY <1>0, <1>6, ReturnType, ZenonT(30) DEF devpipe_read_inc, Goto, maps, TypeMaps, TypeCall, Labels
<1>7. CASE devpipe_write_test(e)
  BY <1>0, <1>7, Zenon DEF devpipe_write_test, write_test, Goto, maps, TypeMaps, TypeCall, Labels
<1>8. CASE devpipe_write_byte(e)
  BY <1>0, <1>8, Zenon DEF devpipe_write_byte, Goto, maps, TypeMaps, TypeCall, Labels
<1>9. CASE devpipe_write_inc(e)
  BY <1>0, <1>9, ReturnType, ZenonT(30) DEF devpipe_write_inc, Goto, maps, TypeMaps, TypeCall, Labels
<1> QED
  BY <1>1, <1>2, <1>3, <1>4, <1>5, <1>6, <1>7, <1>8, <1>9, ZenonT(30) DEF step

\* The types of what close(), dup(), fork() and the others work with.
LEMMA TypeRest ==
    ASSUME TypeOK, Calls, NEW e \in Procs,
           \/ run(e) \/ call(e) \/ env_free(e)
           \/ devpipe_close_data(e) \/ dup_data(e) \/ dup_fd(e) \/ fork_duppage(e)
    PROVE  TypeMaps' /\ TypeCall' /\ UNCHANGED ring
<1>0. TypeMaps /\ TypeCall
  BY Zenon DEF TypeOK, TypeMaps, TypeCall
<1>1. CASE run(e)
  BY <1>0, <1>1 DEF run, maps, locals, TypeMaps, TypeCall
<1>2. CASE env_free(e)
  BY <1>0, <1>2, ReturnType, Zenon DEF env_free, TypeMaps, TypeCall
<1>3. CASE devpipe_close_data(e)
  BY <1>0, <1>3, ReturnType, Zenon DEF devpipe_close_data, Goto, TypeMaps, TypeCall, Labels
<1>4. CASE dup_data(e)
  BY <1>0, <1>4, Zenon DEF dup_data, Goto, TypeMaps, TypeCall, Labels
<1>5. CASE dup_fd(e)
  <2>1. fd[e] \in Slots
    BY <1>5, Zenon DEF dup_fd, At, Calls, CallOf
  <2>2. fdpage[e][fd[e]] \in {"r", "w", NULL}
    BY <1>0, <2>1, Zenon DEF TypeMaps
  <2>3. TypeCall'
    BY <1>0, <1>5, ReturnType, Zenon DEF dup_fd, TypeCall
  <2> QED
    BY <1>0, <1>5, <2>2, <2>3, Zenon DEF dup_fd, TypeMaps
<1>6. CASE fork_duppage(e)
  <2>1. arg[e] \in Procs
    BY <1>6, Zenon DEF fork_duppage, At, Calls, ForkOf
  <2> DEFINE fds == {s \in Slots : fdpage[e][s] # fdpage[arg[e]][s]}
  <2>2. fds # {} => Min(fds) \in Slots
    BY PipeAssumption, MinIn, Zenon DEF PipeAssumption
  <2>3. fds # {} => fdpage[e][Min(fds)] \in {"r", "w", NULL}
    BY <1>0, <2>2, Zenon DEF TypeMaps
  <2>4. \/ UNCHANGED <<locals, stale>>
        \/ Return(e) /\ stale' = stale
    BY <1>6, Zenon DEF fork_duppage
  <2>5. TypeCall'
    BY <1>0, <2>4, ReturnType, Zenon DEF TypeCall, locals
  <2>6. \/ /\ fds # {} /\ fdpage' = [fdpage EXCEPT ![arg[e]][Min(fds)] = fdpage[e][Min(fds)]]
           /\ UNCHANGED <<datapage, status>>
        \/ /\ \E x : datapage' = [datapage EXCEPT ![arg[e]][x] = TRUE]
           /\ UNCHANGED <<fdpage, status>>
        \/ /\ status' = [status EXCEPT ![arg[e]] = "alive"]
           /\ UNCHANGED <<fdpage, datapage>>
    BY <1>6, Zenon DEF fork_duppage, maps
  <2>7. running' = running /\ UNCHANGED ring
    BY <1>6, Zenon DEF fork_duppage
  <2> HIDE DEF fds
  <2>8. TypeMaps'
    <3>1. CASE /\ fds # {} /\ fdpage' = [fdpage EXCEPT ![arg[e]][Min(fds)] = fdpage[e][Min(fds)]]
               /\ UNCHANGED <<datapage, status>>
      BY <1>0, <2>3, <2>7, <3>1, Zenon DEF TypeMaps
    <3>2. CASE /\ \E x : datapage' = [datapage EXCEPT ![arg[e]][x] = TRUE]
               /\ UNCHANGED <<fdpage, status>>
      <4>1. PICK x : datapage' = [datapage EXCEPT ![arg[e]][x] = TRUE]
        BY <3>2, Zenon
      <4>2. [datapage[arg[e]] EXCEPT ![x] = TRUE] \in [Slots -> BOOLEAN]
        BY <1>0, <2>1, Zenon DEF TypeMaps
      <4>3. datapage' = [datapage EXCEPT ![arg[e]] = [datapage[arg[e]] EXCEPT ![x] = TRUE]]
        BY <1>0, <4>1, Zenon DEF TypeMaps
      <4> QED
        BY <1>0, <2>7, <3>2, <4>2, <4>3, Zenon DEF TypeMaps
    <3>3. CASE /\ status' = [status EXCEPT ![arg[e]] = "alive"]
               /\ UNCHANGED <<fdpage, datapage>>
      BY <1>0, <2>7, <3>3, Zenon DEF TypeMaps
    <3> QED
      BY <2>6, <3>1, <3>2, <3>3, Zenon
  <2> QED
    BY <2>5, <2>7, <2>8, Zenon
<1>7. CASE call(e)
  <2>1. ASSUME NEW s \in Slots, pipeisclosed(e, s)
        PROVE  TypeMaps' /\ TypeCall' /\ UNCHANGED ring
    BY <1>0, <2>1, Zenon DEF pipeisclosed, Call, Goto, maps, TypeMaps, TypeCall, Ops, Labels
  <2>2. ASSUME NEW s \in Slots, close(e, s)
        PROVE  TypeMaps' /\ TypeCall' /\ UNCHANGED ring
    BY <1>0, <2>2, Zenon DEF close, Call, Goto, TypeMaps, TypeCall, Ops, Labels
  <2>3. ASSUME NEW s \in Slots, NEW o \in {"read", "write"}, NEW end, devpipe(e, s, o, end)
        PROVE  TypeMaps' /\ TypeCall' /\ UNCHANGED ring
    BY <1>0, <2>3, Zenon DEF devpipe, Call, Goto, maps, TypeMaps, TypeCall, Ops, Labels
  <2>4. ASSUME NEW s \in Slots, NEW t \in Slots, dup(e, s, t)
        PROVE  TypeMaps' /\ TypeCall' /\ UNCHANGED ring
    BY <1>0, <2>4, Zenon DEF dup, Call, Goto, TypeMaps, TypeCall, Ops, Labels
  <2>5. ASSUME NEW c \in Procs, fork(e, c)
        PROVE  TypeMaps' /\ TypeCall' /\ UNCHANGED ring
    BY <1>0, <2>5, Zenon DEF fork, Call, Goto, maps, TypeMaps, TypeCall, Ops, Labels
  <2>6. DupTo \subseteq Slots
    BY PipeAssumption, Zenon DEF PipeAssumption
  <2> QED
    BY <1>7, <2>1, <2>2, <2>3, <2>4, <2>5, <2>6, Zenon DEF call
<1> QED
  BY <1>1, <1>2, <1>3, <1>4, <1>5, <1>6, <1>7, Zenon

-----------------------------------------------------------------------------
(* The ring *)

\* Where the ring is not touched, and no call comes to a byte.
LEMMA RingStays ==
    ASSUME RingInv, UNCHANGED ring,
           \A d \in Procs : op'[d] \in {"read", "write"} =>
               /\ op[d] = op'[d]
               /\ pc'[d] \in {"byte", "inc"} => pc[d] = pc'[d] /\ taken'[d] = taken[d]
    PROVE  RingInv'
<1>1. UNCHANGED <<p_rpos, p_wpos, p_buf, sent, got>>
  BY Zenon DEF ring
<1>2. ASSUME NEW e \in Procs PROVE RingOf(e)'
  <2>1. RingOf(e)
    BY Zenon DEF RingInv
  <2> QED
    BY <1>1, <2>1, Zenon DEF RingOf
<1> QED
  BY <1>1, <1>2, Zenon DEF RingInv

\* read() and write() begin when nobody else does the same.
LEMMA RingBegin ==
    ASSUME TypeOK, RingInv, NEW e \in Procs, NEW s \in Slots,
           devpipe(e, s, "read", "r") \/ devpipe(e, s, "write", "w")
    PROVE  RingInv'
<1>1. UNCHANGED <<p_rpos, p_wpos, p_buf, sent, got, taken>>
  BY Zenon DEF devpipe, ring
<1>2. PICK o \in {"read", "write"} :
         /\ op' = [op EXCEPT ![e] = o] /\ pc' = [pc EXCEPT ![e] = "test"]
         /\ \A d \in Procs : op[d] # o
         /\ o = "write" => p_wpos < MaxBytes
  BY Zenon DEF devpipe, Call, Goto
<1>3. /\ op'[e] = o /\ pc'[e] = "test"
      /\ \A d \in Procs \ {e} : op'[d] = op[d] /\ pc'[d] = pc[d]
  BY <1>2, Zenon DEF TypeOK
<1>4. ASSUME NEW d \in Procs PROVE RingOf(d)'
  <2>1. RingOf(d)
    BY Zenon DEF RingInv
  <2>2. CASE d = e
    BY <1>1, <1>2, <1>3, <2>2, Zenon DEF RingOf
  <2>3. CASE d # e
    BY <1>1, <1>2, <1>3, <2>1, <2>3, ZenonT(30) DEF RingOf
  <2> QED
    BY <2>2, <2>3, Zenon
<1> QED
  BY <1>1, <1>4, Zenon DEF RingInv

\* A step of read() or write() inside the ring.
LEMMA RingStep ==
    ASSUME TypeOK, RingInv, NEW e \in Procs,
           \/ devpipe_read_test(e) \/ devpipe_read_byte(e)
           \/ devpipe_write_test(e) \/ devpipe_write_byte(e)
    PROVE  RingInv' /\ TypeRing'
<1>0. /\ TypeRing /\ RingOf(e) /\ PIPEBUFSIZ \in Nat \ {0} /\ MaxBytes \in Nat
      /\ Text \in [0 .. MaxBytes - 1 -> Byte]
  BY PipeAssumption, Zenon DEF TypeOK, TypeRing, RingInv, PipeAssumption
<1>1. \A d \in Procs \ {e} : Kept(d)
  BY OthersKept, Zenon DEF step
<1>2. CASE devpipe_read_test(e)
  <2>1. UNCHANGED ring /\ TypeRing'
    BY <1>0, <1>2, Zenon DEF devpipe_read_test, ring, TypeRing
  <2>2. CASE p_rpos # p_wpos /\ Goto(e, "byte") /\ UNCHANGED <<op, fd, arg, taken, some, seen>>
    <3>1. /\ op[e] = "read" /\ pc'[e] = "byte" /\ op' = op /\ p_rpos < p_wpos
          /\ UNCHANGED <<p_rpos, p_wpos, p_buf, sent, got>>
      BY <1>0, <1>2, <2>1, <2>2 DEF devpipe_read_test, At, Goto, TypeOK, RingInv, ring, TypeRing
    <3>2. ASSUME NEW d \in Procs PROVE RingOf(d)'
      <4>1. RingOf(d)
        BY Zenon DEF RingInv
      <4> QED
        BY <1>1, <3>1, <4>1, Zenon DEF RingOf, Kept
    <3> QED
      BY <2>1, <3>1, <3>2, Zenon DEF RingInv
  <2>3. CASE \/ Return(e)
             \/ Goto(e, "closed") /\ UNCHANGED <<op, fd, arg, taken, some, seen>>
    <3>1. op'[e] = "none" \/ (op'[e] = op[e] /\ pc'[e] = "closed")
      BY <2>3, Zenon DEF Return, Goto, TypeOK
    <3> QED
      BY <1>1, <2>1, <3>1, RingStays, Zenon DEF Kept
  <2> QED
    BY <1>2, <2>2, <2>3, Zenon DEF devpipe_read_test
<1>3. CASE devpipe_read_byte(e)
  <2>1. /\ op[e] = "read" /\ pc[e] = "byte" /\ UNCHANGED <<p_rpos, p_wpos, p_buf, sent, got>>
        /\ op' = op /\ pc'[e] = "inc" /\ taken'[e] = p_buf[p_rpos % PIPEBUFSIZ]
    BY <1>3, Zenon DEF devpipe_read_byte, At, Goto, TypeOK, ring
  <2>2. p_rpos < p_wpos /\ taken'[e] = sent[p_rpos + 1]
    <3>1. p_rpos < p_wpos
      BY <1>0, <2>1, Zenon DEF RingOf
    <3>2. p_rpos \in Nat /\ p_rpos <= p_rpos
      BY <1>0 DEF TypeRing
    <3>3. p_buf[p_rpos % PIPEBUFSIZ] = sent[p_rpos + 1]
      BY <3>1, <3>2, Zenon DEF RingInv
    <3> QED
      BY <2>1, <3>1, <3>3, Zenon
  <2>3. ASSUME NEW d \in Procs PROVE RingOf(d)'
    <3>1. RingOf(d)
      BY Zenon DEF RingInv
    <3> QED
      BY <1>1, <2>1, <2>2, <3>1, Zenon DEF RingOf, Kept
  <2> QED
    BY <1>0, <2>1, <2>3, Zenon DEF RingInv, TypeRing
<1>4. CASE devpipe_write_test(e)
  <2>1. /\ op[e] = "write" /\ UNCHANGED <<p_rpos, p_wpos, p_buf, sent, got>> /\ op' = op
        /\ pc'[e] \in {"closed", "byte"}
        /\ pc'[e] = "byte" => p_wpos < p_rpos + PIPEBUFSIZ
    BY <1>0, <1>4 DEF devpipe_write_test, write_test, At, Goto, TypeOK, ring, TypeRing
  <2>2. ASSUME NEW d \in Procs PROVE RingOf(d)'
    <3>1. RingOf(d)
      BY Zenon DEF RingInv
    <3> QED
      BY <1>1, <2>1, <3>1, Zenon DEF RingOf, Kept
  <2> QED
    BY <1>0, <2>1, <2>2, Zenon DEF RingInv, TypeRing
<1>5. CASE devpipe_write_byte(e)
  <2>1. /\ op[e] = "write" /\ pc[e] = "byte" /\ UNCHANGED <<p_rpos, p_wpos, sent, got>>
        /\ op' = op /\ pc'[e] = "inc"
        /\ p_buf' = [p_buf EXCEPT ![p_wpos % PIPEBUFSIZ] = Text[p_wpos]]
    BY <1>5, Zenon DEF devpipe_write_byte, At, Goto, TypeOK
  <2>2. p_wpos < MaxBytes /\ p_wpos < p_rpos + PIPEBUFSIZ
    BY <1>0, <2>1, Zenon DEF RingOf
  <2>3. p_wpos % PIPEBUFSIZ \in 0 .. PIPEBUFSIZ - 1 /\ Text[p_wpos] \in Byte
    BY <1>0, <2>2 DEF TypeRing
  <2>4. TypeRing' /\ p_buf'[p_wpos % PIPEBUFSIZ] = Text[p_wpos]
    BY <1>0, <2>1, <2>3, Zenon DEF TypeRing
  <2>5. ASSUME NEW i \in Nat, p_rpos <= i, i < p_wpos
        PROVE  p_buf'[i % PIPEBUFSIZ] = sent[i + 1]
    <3>1. i % PIPEBUFSIZ # p_wpos % PIPEBUFSIZ
      <4>1. p_wpos \in Nat /\ p_wpos < i + PIPEBUFSIZ
        BY <1>0, <2>2, <2>5 DEF TypeRing
      <4> QED
        BY <1>0, <2>5, <4>1, ModApart, Zenon
    <3>2. p_buf'[i % PIPEBUFSIZ] = p_buf[i % PIPEBUFSIZ]
      <4>1. i % PIPEBUFSIZ \in 0 .. PIPEBUFSIZ - 1
        BY <1>0
      <4> QED
        BY <1>0, <2>1, <3>1, <4>1, Zenon DEF TypeRing
    <3> QED
      BY <2>5, <3>2, Zenon DEF RingInv
  <2>6. ASSUME NEW d \in Procs PROVE RingOf(d)'
    <3>1. RingOf(d)
      BY Zenon DEF RingInv
    <3> QED
      BY <1>1, <2>1, <2>2, <2>4, <3>1, Zenon DEF RingOf, Kept
  <2> QED
    BY <2>1, <2>4, <2>5, <2>6, Zenon DEF RingInv
<1> QED
  BY <1>2, <1>3, <1>4, <1>5, Zenon

\* devpipe_read() takes the byte that is next.
LEMMA RingTake ==
    ASSUME TypeOK, RingInv, NEW e \in Procs, devpipe_read_inc(e)
    PROVE  /\ RingInv' /\ TypeRing'
           /\ Len(got) < Len(sent) /\ got' = Append(got, sent[Len(got) + 1]) /\ sent' = sent
<1>0. /\ p_rpos \in Nat /\ p_wpos \in Nat /\ sent \in Seq(Byte) /\ got \in Seq(Byte)
      /\ PIPEBUFSIZ \in Nat \ {0} /\ RingOf(e) /\ TypeRing
  BY PipeAssumption, Zenon DEF TypeOK, TypeRing, RingInv, PipeAssumption
<1>1. \A d \in Procs \ {e} : Kept(d)
  BY OthersKept, Zenon DEF step
<1>2. /\ op[e] = "read" /\ pc[e] = "inc" /\ UNCHANGED <<p_wpos, p_buf, sent>>
      /\ p_rpos' = p_rpos + 1 /\ got' = Append(got, taken[e])
  BY Zenon DEF devpipe_read_inc, At
<1>3. op'[e] = "none" \/ (op'[e] = "read" /\ pc'[e] = "test")
  <2>1. CASE Return(e)
    BY <2>1, Zenon DEF Return, TypeOK
  <2>2. CASE Goto(e, "test") /\ UNCHANGED op
    BY <1>2, <2>2, Zenon DEF Goto, TypeOK
  <2> QED
    BY <2>1, <2>2, Zenon DEF devpipe_read_inc
<1>4. /\ p_rpos < p_wpos /\ taken[e] = sent[p_rpos + 1]
      /\ \A d \in Procs \ {e} : op[d] # "read"
  BY <1>0, <1>2, Zenon DEF RingOf
<1>5. Len(got) = p_rpos /\ Len(sent) = p_wpos /\ p_wpos <= p_rpos + PIPEBUFSIZ
  BY Zenon DEF RingInv
<1>6. taken[e] \in Byte
  BY <1>0, <1>4, <1>5
<1>7. got' \in Seq(Byte) /\ Len(got') = p_rpos'
  BY <1>0, <1>2, <1>5, <1>6
<1>8. ASSUME NEW d \in Procs PROVE RingOf(d)'
  <2>1. RingOf(d)
    BY Zenon DEF RingInv
  <2>2. CASE d = e
    BY <1>3, <2>2, <1>1, <1>4, Zenon DEF RingOf, Kept
  <2>3. CASE d # e
    <3>1. op'[d] = op[d] /\ pc'[d] = pc[d] /\ op[d] # "read"
      BY <1>1, <1>4, <2>3, Zenon DEF Kept
    <3>2. op[d] = "write" => \A f \in Procs : op'[f] = "write" => f = d
      BY <1>1, <1>3, <2>1, Zenon DEF RingOf, Kept
    <3> QED
      BY <1>0, <1>2, <2>1, <3>1, <3>2 DEF RingOf
  <2> QED
    BY <2>2, <2>3, Zenon
<1>9. \A i \in Nat : p_rpos' <= i /\ i < p_wpos' => p_buf'[i % PIPEBUFSIZ] = sent'[i + 1]
  <2>1. \A i \in Nat : p_rpos <= i /\ i < p_wpos => p_buf[i % PIPEBUFSIZ] = sent[i + 1]
    BY Zenon DEF RingInv
  <2>2. \A i \in Nat : p_rpos + 1 <= i => p_rpos <= i
    BY <1>0
  <2> QED
    BY <1>2, <2>1, <2>2, Zenon
<1>10. p_rpos' <= p_wpos' /\ p_wpos' <= p_rpos' + PIPEBUFSIZ /\ p_rpos' \in Nat
  BY <1>0, <1>2, <1>4, <1>5
<1>11. RingInv'
  BY <1>2, <1>5, <1>7, <1>8, <1>9, <1>10, Zenon DEF RingInv
<1>12. TypeRing'
  BY <1>0, <1>2, <1>7, <1>10, Zenon DEF TypeRing
<1> QED
  BY <1>2, <1>4, <1>5, <1>11, <1>12, Zenon

\* devpipe_write() puts its byte behind the others, where there is room.
LEMMA RingPut ==
    ASSUME TypeOK, RingInv, NEW e \in Procs, devpipe_write_inc(e)
    PROVE  /\ RingInv' /\ TypeRing'
           /\ Len(sent) - Len(got) < PIPEBUFSIZ /\ got' = got
           /\ \E b \in Byte : sent' = Append(sent, b)
<1>0. /\ p_rpos \in Nat /\ p_wpos \in Nat /\ sent \in Seq(Byte) /\ got \in Seq(Byte)
      /\ PIPEBUFSIZ \in Nat \ {0} /\ RingOf(e) /\ TypeRing
      /\ MaxBytes \in Nat /\ Text \in [0 .. MaxBytes - 1 -> Byte]
  BY PipeAssumption, Zenon DEF TypeOK, TypeRing, RingInv, PipeAssumption
<1>1. \A d \in Procs \ {e} : Kept(d)
  BY OthersKept, Zenon DEF step
<1>2. /\ op[e] = "write" /\ pc[e] = "inc" /\ UNCHANGED <<p_rpos, p_buf, got>>
      /\ p_wpos' = p_wpos + 1 /\ sent' = Append(sent, p_buf[p_wpos % PIPEBUFSIZ])
  BY Zenon DEF devpipe_write_inc, At
<1>3. op'[e] = "none" \/ (op'[e] = "write" /\ pc'[e] = "test" /\ p_wpos' < MaxBytes)
  <2>1. CASE Return(e)
    BY <2>1, Zenon DEF Return, TypeOK
  <2>2. CASE p_wpos' < MaxBytes /\ Goto(e, "test") /\ UNCHANGED op
    BY <1>2, <2>2, Zenon DEF Goto, TypeOK
  <2> QED
    BY <2>1, <2>2, Zenon DEF devpipe_write_inc
<1>4. /\ p_wpos < MaxBytes /\ p_wpos < p_rpos + PIPEBUFSIZ
      /\ p_buf[p_wpos % PIPEBUFSIZ] = Text[p_wpos]
      /\ \A d \in Procs \ {e} : op[d] # "write"
  BY <1>0, <1>2, Zenon DEF RingOf
<1>5. Len(got) = p_rpos /\ Len(sent) = p_wpos /\ p_rpos <= p_wpos
  BY Zenon DEF RingInv
<1>6. Text[p_wpos] \in Byte /\ sent' = Append(sent, Text[p_wpos])
  BY <1>0, <1>2, <1>4
<1>7. /\ sent' \in Seq(Byte) /\ Len(sent') = p_wpos' /\ sent'[p_wpos + 1] = Text[p_wpos]
      /\ \A i \in Nat : i < p_wpos => sent'[i + 1] = sent[i + 1]
  BY <1>0, <1>2, <1>5, <1>6
<1>8. ASSUME NEW d \in Procs PROVE RingOf(d)'
  <2>1. RingOf(d)
    BY Zenon DEF RingInv
  <2>2. CASE d = e
    BY <1>3, <2>2, <1>1, <1>4, Zenon DEF RingOf, Kept
  <2>3. CASE d # e
    <3>1. op'[d] = op[d] /\ pc'[d] = pc[d] /\ op[d] # "write" /\ taken'[d] = taken[d]
      BY <1>1, <1>4, <2>3, Zenon DEF Kept
    <3>2. op[d] = "read" => \A f \in Procs : op'[f] = "read" => f = d
      BY <1>1, <1>3, <2>1, Zenon DEF RingOf, Kept
    <3>3. op[d] = "read" /\ pc[d] = "inc" => taken[d] = sent'[p_rpos + 1]
      BY <1>0, <1>7, <2>1, ZenonT(30) DEF RingOf
    <3>4. op[d] = "read" /\ pc[d] \in {"byte", "inc"} => p_rpos < p_wpos'
      BY <1>0, <1>2, <2>1 DEF RingOf
    <3> QED
      BY <1>2, <3>1, <3>2, <3>3, <3>4, Zenon DEF RingOf
  <2> QED
    BY <2>2, <2>3, Zenon
<1>9. ASSUME NEW i \in Nat, p_rpos' <= i, i < p_wpos'
      PROVE  p_buf'[i % PIPEBUFSIZ] = sent'[i + 1]
  <2>1. CASE i = p_wpos
    BY <1>2, <1>4, <1>7, <2>1, Zenon
  <2>2. CASE i # p_wpos
    <3>1. p_rpos <= i /\ i < p_wpos
      BY <1>0, <1>2, <1>9, <2>2
    <3>2. p_buf[i % PIPEBUFSIZ] = sent[i + 1]
      BY <3>1, Zenon DEF RingInv
    <3> QED
      BY <1>2, <1>7, <3>1, <3>2, Zenon
  <2> QED
    BY <2>1, <2>2, Zenon
<1>10. /\ p_rpos' <= p_wpos' /\ p_wpos' <= p_rpos' + PIPEBUFSIZ /\ p_wpos' \in Nat
       /\ Len(sent) - Len(got) < PIPEBUFSIZ
  BY <1>0, <1>2, <1>4, <1>5
<1>11. RingInv'
  BY <1>2, <1>5, <1>7, <1>8, <1>9, <1>10, Zenon DEF RingInv
<1>12. TypeRing'
  BY <1>0, <1>2, <1>7, <1>10, Zenon DEF TypeRing
<1> QED
  BY <1>2, <1>6, <1>10, <1>11, <1>12, Zenon

\* Every other step.
LEMMA RingQuiet ==
    ASSUME TypeOK, Calls, RingInv, NEW e \in Procs,
           \/ run(e) \/ call(e) \/ env_free(e)
           \/ _pipeisclosed_first(e) \/ _pipeisclosed_second(e) \/ _pipeisclosed_return(e)
           \/ devpipe_close_data(e) \/ dup_data(e) \/ dup_fd(e) \/ fork_duppage(e)
    PROVE  RingInv' /\ UNCHANGED ring
<1>0. UNCHANGED ring
  <2>1. CASE _pipeisclosed_first(e) \/ _pipeisclosed_second(e) \/ _pipeisclosed_return(e)
    BY <2>1, Zenon DEF _pipeisclosed_first, _pipeisclosed_second, compare, _pipeisclosed_return
  <2> QED
    BY <2>1, TypeRest, Zenon
<1>1. \A d \in Procs \ {e} : Kept(d)
  BY OthersKept, Zenon DEF step
<1>2. ASSUME \/ op'[e] \notin {"read", "write"}
             \/ op'[e] = op[e] /\ pc'[e] \notin {"byte", "inc"}
             \/ op' = op /\ pc' = pc /\ taken' = taken
      PROVE  RingInv'
  <2>1. ASSUME NEW d \in Procs, op'[d] \in {"read", "write"}
        PROVE  /\ op[d] = op'[d]
               /\ pc'[d] \in {"byte", "inc"} => pc[d] = pc'[d] /\ taken'[d] = taken[d]
    BY <1>1, <1>2, <2>1, Zenon DEF Kept
  <2> QED
    BY <1>0, <2>1, RingStays, Zenon
<1>3. CASE run(e)
  BY <1>2, <1>3, Zenon DEF run, locals
<1>4. ASSUME Return(e) PROVE RingInv'
  <2>1. op'[e] = "none"
    BY <1>4, Zenon DEF Return, TypeOK
  <2> QED
    BY <1>2, <2>1, Zenon
<1>5. CASE env_free(e) \/ _pipeisclosed_return(e) \/ dup_fd(e)
  BY <1>4, <1>5, Zenon DEF env_free, _pipeisclosed_return, dup_fd
<1>6. CASE _pipeisclosed_first(e)
  <2>1. op'[e] = op[e] /\ pc'[e] \in {"ref_fd", "ref_pipe"}
    BY <1>6, Zenon DEF _pipeisclosed_first, Goto, TypeOK
  <2>2. pc'[e] \notin {"byte", "inc"}
    BY <2>1, Zenon
  <2> QED
    BY <1>0, <1>2, <2>1, <2>2, Zenon
<1>7. CASE _pipeisclosed_second(e)
  <2>1. op'[e] = op[e] /\ pc'[e] \in {"closed", "answer", "test"}
    BY <1>7, Zenon DEF _pipeisclosed_second, compare, Goto, TypeOK
  <2>2. pc'[e] \notin {"byte", "inc"}
    BY <2>1, Zenon
  <2> QED
    BY <1>0, <1>2, <2>1, <2>2, Zenon
<1>8. CASE devpipe_close_data(e)
  <2>1. CASE op[e] = "dup" /\ UNCHANGED op
    <3>1. op'[e] \notin {"read", "write"}
      BY <2>1, Zenon
    <3> QED
      BY <1>0, <1>2, <3>1, Zenon
  <2> QED
    BY <1>4, <1>8, <2>1, Zenon DEF devpipe_close_data
<1>9. CASE dup_data(e)
  <2>1. op'[e] = "dup"
    BY <1>9, Zenon DEF dup_data, At
  <2>2. op'[e] \notin {"read", "write"}
    BY <2>1, Zenon
  <2> QED
    BY <1>0, <1>2, <2>2, Zenon
<1>10. CASE fork_duppage(e)
  BY <1>2, <1>4, <1>10, Zenon DEF fork_duppage, locals
<1>11. CASE call(e)
  <2>1. CASE \E s \in Slots : devpipe(e, s, "read", "r") \/ devpipe(e, s, "write", "w")
    <3>1. PICK s \in Slots : devpipe(e, s, "read", "r") \/ devpipe(e, s, "write", "w")
      BY <2>1, Zenon
    <3> QED
      BY <1>0, <3>1, RingBegin, Zenon
  <2>2. ASSUME op'[e] \in {"query", "close", "dup", "fork"} PROVE RingInv'
    BY <1>2, <2>2, Zenon
  <2>3. CASE \E s \in Slots : pipeisclosed(e, s) \/ close(e, s)
    BY <2>2, <2>3, Zenon DEF pipeisclosed, close, Call, TypeOK
  <2>4. CASE \E s \in Slots, t \in DupTo : dup(e, s, t)
    BY <2>2, <2>4, Zenon DEF dup, Call, TypeOK
  <2>5. CASE \E c \in Procs : fork(e, c)
    BY <2>2, <2>5, ZenonT(30) DEF fork, Call, TypeOK
  <2> QED
    BY <1>11, <2>1, <2>3, <2>4, <2>5, Zenon DEF call
<1> QED
  BY <1>0, <1>3, <1>5, <1>6, <1>7, <1>8, <1>9, <1>10, <1>11, ZenonT(30)

-----------------------------------------------------------------------------
(* The invariant is inductive *)

LEMMA InitIInv ==
    ASSUME Init
    PROVE  IInv
<1>0. /\ Parent \in Procs /\ {0, 1} \subseteq Slots /\ PIPEBUFSIZ \in Nat \ {0}
      /\ NULL \notin {"r", "w"}
  BY PipeAssumption, Zenon DEF PipeAssumption
<1>1. /\ \A e \in Procs : /\ op[e] = "none" /\ pc[e] = "idle"
                          /\ status[e] = IF e = Parent THEN "alive" ELSE "none"
      /\ running = {Parent}
      /\ \A e \in Procs, s \in Slots :
            /\ fdpage[e][s] = IF e = Parent /\ s = 0 THEN "r" ELSE IF e = Parent /\ s = 1 THEN "w" ELSE NULL
            /\ datapage[e][s] = (e = Parent /\ s \in {0, 1})
  BY <1>0, Zenon DEF Init
<1>2. TypeOK
  <2>1. TypeMaps
    BY <1>0, Zenon DEF Init, TypeMaps
  <2>2. TypeCall
    BY Zenon DEF Init, TypeCall, Ops, Labels
  <2>3. TypeRing
    BY DEF Init, TypeRing
  <2> QED
    BY <2>1, <2>2, <2>3, Zenon DEF TypeOK, TypeMaps, TypeCall, TypeRing
<1>3. ASSUME NEW e \in Procs PROVE CallOf(e) /\ ForkOf(e)
  BY <1>1, Zenon DEF CallOf, ForkOf, InPipe
<1>4. ASSUME NEW e \in Procs PROVE PagesOf(e) /\ EmbryoOf(e)
  <2>1. Maps(e) => e = Parent
    BY <1>1, Zenon DEF Maps
  <2>2. status[e] = "alive" => e = Parent
    BY <1>1, Zenon
  <2>3. status[e] \in {"none", "dead"} => e # Parent
    BY <1>1, Zenon
  <2>4. status[e] # "embryo"
    BY <1>1, Zenon
  <2>5. \A s \in Slots : fdpage[e][s] # NULL => datapage[e][s]
    BY ZenonT(30), <1>1
  <2> QED
    BY <2>1, <2>3, <2>4, <2>5, Zenon DEF PagesOf, EmbryoOf
<1>5. Answers
  BY <1>1, Zenon DEF Answers, OneCPU, CountOf, AnswerOf
<1>6. RingInv
  BY <1>0, <1>1 DEF Init, RingInv, RingOf
<1> QED
  BY <1>2, <1>3, <1>4, <1>5, <1>6, Zenon DEF IInv, Calls, Pages

LEMMA NextIInv ==
    ASSUME NCPU = 1, Lapses = {}, IInv, [Next]_vars
    PROVE  IInv'
<1>0. TypeOK /\ Calls /\ Pages /\ Answers /\ RingInv /\ TypeRing
  BY Zenon DEF IInv, TypeOK, TypeRing
<1>1. CASE UNCHANGED vars
  <2>0. UNCHANGED <<fdpage, datapage, p_rpos, p_wpos, p_buf, sent, got, status, running,
                    op, pc, fd, arg, taken, some, seen, stale>>
    BY <1>1, Zenon DEF vars, maps, ring, locals
  <2>1. TypeOK'
    BY <1>0, <2>0, Zenon DEF TypeOK
  <2>2. Calls'
    <3>1. ASSUME NEW e \in Procs PROVE CallOf(e)'
      <4>1. CallOf(e)
        BY <1>0, Zenon DEF Calls
      <4> QED
        BY <2>0, <4>1, Zenon DEF CallOf
    <3>2. ASSUME NEW e \in Procs PROVE ForkOf(e)'
      <4>1. ForkOf(e)
        BY <1>0, Zenon DEF Calls
      <4> QED
        BY <2>0, <4>1, Zenon DEF ForkOf, Maps
    <3> QED
      BY <3>1, <3>2, Zenon DEF Calls
  <2>5. Pages'
    BY <1>0, <2>0, ZenonT(30) DEF Pages, PagesOf, EmbryoOf, Maps
  <2>3. Answers'
    BY <1>0, <2>0, Zenon DEF Answers, OneCPU, CountOf, AnswerOf, FdRefs, PipeRefs, Open
  <2>4. RingInv'
    BY <1>0, <2>0, Zenon DEF RingInv, RingOf
  <2> QED
    BY <2>1, <2>2, <2>3, <2>4, <2>5, Zenon DEF IInv
<1>2. ASSUME NEW e \in Procs, run(e) \/ step(e) \/ call(e) \/ env_free(e) PROVE IInv'
  <2> DEFINE quiet == \/ run(e) \/ call(e) \/ env_free(e)
                      \/ devpipe_close_data(e) \/ dup_data(e) \/ dup_fd(e) \/ fork_duppage(e)
             closed == _pipeisclosed_first(e) \/ _pipeisclosed_second(e) \/ _pipeisclosed_return(e)
             inner == \/ devpipe_read_test(e) \/ devpipe_read_byte(e)
                      \/ devpipe_write_test(e) \/ devpipe_write_byte(e)
             inc == devpipe_read_inc(e) \/ devpipe_write_inc(e)
  <2>1. TypeMaps' /\ TypeCall'
    BY <1>0, <1>2, TypePipe, TypeRest, Zenon
  <2>2. RingInv' /\ TypeRing'
    <3>1. CASE quiet \/ closed
      <4>1. RingInv' /\ UNCHANGED ring
        BY <1>0, <3>1, RingQuiet, Zenon
      <4> QED
        BY <1>0, <4>1, Zenon DEF ring, TypeRing
    <3>2. CASE inner
      BY <1>0, <3>2, RingStep, Zenon
    <3>3. CASE inc
      BY <1>0, <3>3, RingTake, RingPut, Zenon
    <3> QED
      BY <1>2, <3>1, <3>2, <3>3, Zenon DEF step
  <2>3. TypeOK'
    BY <2>1, <2>2, Zenon DEF TypeOK, TypeMaps, TypeCall, TypeRing
  <2>4. Calls' /\ Pages' /\ Answers'
    <3>1. CASE run(e)
      BY <3>1, StepRun, Zenon
    <3>2. CASE env_free(e)
      BY <3>2, StepFree, Zenon
    <3>3. CASE closed
      BY <3>3, StepClosed, Zenon
    <3>4. CASE inner \/ inc
      BY <3>4, StepRing, Zenon
    <3>5. CASE devpipe_close_data(e) \/ dup_data(e) \/ dup_fd(e) \/ fork_duppage(e)
      BY <3>5, StepUnmap, StepDup, StepDuppage, Zenon
    <3>6. CASE call(e)
      <4>1. ASSUME NEW s \in Slots, \/ pipeisclosed(e, s) \/ close(e, s)
                                    \/ devpipe(e, s, "read", "r") \/ devpipe(e, s, "write", "w")
            PROVE  Calls' /\ Pages' /\ Answers'
        BY <4>1, StepBegin, StepClose, Zenon
      <4>2. ASSUME NEW s \in Slots, NEW t \in DupTo, dup(e, s, t)
            PROVE  Calls' /\ Pages' /\ Answers'
        <5>1. t \in Slots
          BY PipeAssumption, Zenon DEF PipeAssumption
        <5> QED
          BY <4>2, <5>1, StepClose, Zenon
      <4>3. ASSUME NEW c \in Procs, fork(e, c)
            PROVE  Calls' /\ Pages' /\ Answers'
        BY <4>3, StepFork, Zenon
      <4> QED
        BY <3>6, <4>1, <4>2, <4>3, Zenon DEF call
    <3> QED
      BY <1>2, <3>1, <3>2, <3>3, <3>4, <3>5, <3>6, Zenon DEF step
  <2> QED
    BY <2>2, <2>3, <2>4, Zenon DEF IInv
<1> QED
  BY <1>1, <1>2, Zenon DEF Next, over

-----------------------------------------------------------------------------
(* A pipe is a Fifo *)

Eofs == \E e \in Procs : op[e] = "read" /\ pc[e] = "answer"

\* A step that maps or unmaps descriptors opens no end anew, and answers no read().
LEMMA EndsClose ==
    ASSUME IInv, NEW e \in Procs, run(e) \/ step(e) \/ call(e) \/ env_free(e)
    PROVE  \/ fdpage' = fdpage
           \/ (Open("w")' => Open("w")) /\ (Eofs' => Eofs)
<1>0. TypeOK /\ Calls
  BY Zenon DEF IInv
<1>1. \A d \in Procs \ {e} : op'[d] = op[d] /\ pc'[d] = pc[d]
  BY <1>0, OthersKept, Zenon DEF Kept
<1>2. ASSUME op'[e] # "read" PROVE Eofs' => Eofs
  BY <1>1, <1>2, Zenon DEF Eofs
<1>3. ASSUME Return(e) PROVE op'[e] # "read"
  <2>1. op'[e] = "none"
    BY <1>0, <1>3, Zenon DEF Return, TypeOK
  <2> QED
    BY <2>1, Zenon
<1>4. NULL # "w"
  BY PipeAssumption, Zenon DEF PipeAssumption
<1>5. ASSUME NEW t \in Slots, fdpage' = [fdpage EXCEPT ![e][t] = NULL]
      PROVE  Open("w")' => Open("w")
  <2>1. /\ fdpage'[e][t] = NULL /\ \A x \in Slots \ {t} : fdpage'[e][x] = fdpage[e][x]
        /\ \A d \in Procs \ {e} : fdpage'[d] = fdpage[d]
    BY <1>0, <1>5, Zenon DEF TypeOK
  <2> QED
    BY <1>4, <2>1, Zenon DEF Open
<1>6. CASE call(e)
  <2>1. CASE \E s \in Slots : close(e, s)
    <3>1. op'[e] # "read"
      <4>1. op'[e] = "close"
        BY <1>0, <2>1, Zenon DEF close, Call, TypeOK
      <4> QED
        BY <4>1, Zenon
    <3> QED
      BY <1>2, <1>5, <2>1, <3>1, Zenon DEF close
  <2>2. CASE \E s \in Slots, t \in DupTo : dup(e, s, t)
    <3>1. op'[e] # "read"
      <4>1. op'[e] = "dup"
        BY <1>0, <2>2, Zenon DEF dup, Call, TypeOK
      <4> QED
        BY <4>1, Zenon
    <3>2. DupTo \subseteq Slots
      BY PipeAssumption, Zenon DEF PipeAssumption
    <3> QED
      BY <1>2, <1>5, <2>2, <3>1, <3>2, Zenon DEF dup
  <2> QED
    BY <1>6, <2>1, <2>2, Zenon DEF call, pipeisclosed, devpipe, fork, maps
<1>7. CASE dup_fd(e)
  <2>1. PICK a \in Slots : a = arg[e]
    BY <1>0, <1>7, Zenon DEF dup_fd, At, Calls, CallOf
  <2>2. fd[e] \in Slots
    BY <1>0, <1>7, Zenon DEF dup_fd, At, Calls, CallOf
  <2>3. /\ fdpage'[e][a] = fdpage[e][fd[e]] /\ \A x \in Slots \ {a} : fdpage'[e][x] = fdpage[e][x]
        /\ \A d \in Procs \ {e} : fdpage'[d] = fdpage[d]
    BY <1>0, <1>7, <2>1, Zenon DEF dup_fd, TypeOK
  <2>4. ASSUME Open("w")' PROVE Open("w")
    <3>1. PICK d \in Procs, x \in Slots : fdpage'[d][x] = "w"
      BY <2>4, Zenon DEF Open
    <3>2. fdpage[d][x] = "w" \/ fdpage[e][fd[e]] = "w"
      BY <2>3, <3>1, Zenon
    <3> QED
      BY <2>2, <3>2, Zenon DEF Open
  <2> QED
    BY <1>2, <1>3, <1>7, <2>4, Zenon DEF dup_fd
<1>8. CASE env_free(e)
  <2>1. /\ \A x \in Slots : fdpage'[e][x] = NULL
        /\ \A d \in Procs \ {e} : fdpage'[d] = fdpage[d]
    BY <1>0, <1>8, Zenon DEF env_free, TypeOK
  <2>2. Open("w")' => Open("w")
    BY <1>4, <2>1, Zenon DEF Open
  <2> QED
    BY <1>2, <1>3, <1>8, <2>2, Zenon DEF env_free
<1>9. CASE fork_duppage(e)
  <2>1. PICK c \in Procs : c = arg[e]
    BY <1>0, <1>9, Zenon DEF fork_duppage, At, Calls, ForkOf
  <2> DEFINE fds == {s \in Slots : fdpage[e][s] # fdpage[c][s]}
  <2>2. ASSUME fds # {}, fdpage' = [fdpage EXCEPT ![c][Min(fds)] = fdpage[e][Min(fds)]],
               UNCHANGED locals
        PROVE  (Open("w")' => Open("w")) /\ (Eofs' => Eofs)
    <3>1. fds \in SUBSET Nat
      BY PipeAssumption, Zenon DEF PipeAssumption
    <3>2. PICK m \in fds : m = Min(fds)
      BY <2>2, <3>1, MinIn, Zenon
    <3>3. /\ m \in Slots /\ fdpage'[c][m] = fdpage[e][m]
          /\ \A s \in Slots \ {m} : fdpage'[c][s] = fdpage[c][s]
          /\ \A d \in Procs \ {c} : fdpage'[d] = fdpage[d]
      BY <1>0, <2>2, <3>2, ZenonT(30) DEF TypeOK
    <3>4. Open("w")' => Open("w")
      BY <3>3, ZenonT(30) DEF Open
    <3> QED
      BY <2>2, <3>4, Zenon DEF Eofs, locals
  <2> QED
    BY <1>9, <2>1, <2>2, Zenon DEF fork_duppage, maps
<1> QED
  BY <1>6, <1>7, <1>8, <1>9, ZenonT(30) DEF step, run, maps, _pipeisclosed_first, _pipeisclosed_second,
     compare, _pipeisclosed_return, devpipe_read_test, devpipe_read_byte, devpipe_read_inc,
     devpipe_write_test, write_test, devpipe_write_byte, devpipe_write_inc,
     devpipe_close_data, dup_data

\* Every step puts a byte in, takes one out, closes the write end, begins or ends an
\* answer of end-of-file, or is none of the queue's business.
LEMMA NextFifo ==
    ASSUME IInv, IInv', [Next]_vars
    PROVE  [F!Next]_<<sent, got, Open("w"), Eofs>>
<1>0. TypeOK /\ Calls /\ Answers /\ RingInv
  BY Zenon DEF IInv
<1>1. CASE UNCHANGED vars
  BY <1>1, Zenon DEF vars, maps, ring, locals, Open, Eofs
<1>2. ASSUME Eofs PROVE ~Open("w")
  <2>1. PICK d \in Procs : op[d] = "read" /\ pc[d] = "answer"
    BY <1>2, Zenon DEF Eofs
  <2>2. fdpage[d][fd[d]] = "r" /\ seen[d] = 1
    BY <1>0, <2>1, Zenon DEF Calls, CallOf, InPipe
  <2>3. Other(fdpage[d][fd[d]]) = "w"
    BY <2>2, Zenon DEF Other
  <2> QED
    BY <1>0, <2>1, <2>2, <2>3, Zenon DEF Answers, AnswerOf
<1>3. ASSUME Eofs' PROVE ~Open("w")'
  <2>0. Calls' /\ Answers'
    BY Zenon DEF IInv
  <2>1. PICK d \in Procs : op'[d] = "read" /\ pc'[d] = "answer"
    BY <1>3, Zenon DEF Eofs
  <2>2. (fdpage[d][fd[d]])' = "r" /\ seen'[d] = 1
    BY <2>0, <2>1, Zenon DEF Calls, CallOf, InPipe
  <2>3. Other(fdpage[d][fd[d]])' = "w"
    BY <2>2, Zenon DEF Other
  <2> QED
    BY <2>0, <2>1, <2>2, <2>3, Zenon DEF Answers, AnswerOf
<1>4. ASSUME NEW e \in Procs, run(e) \/ step(e) \/ call(e) \/ env_free(e)
      PROVE  [F!Next]_<<sent, got, Open("w"), Eofs>>
  <2>1. \/ fdpage' = fdpage
        \/ (Open("w")' => Open("w")) /\ (Eofs' => Eofs)
    BY <1>4, EndsClose, Zenon
  <2>2. CASE sent' = sent /\ got' = got
    <3>1. Open("w")' \in BOOLEAN /\ Open("w") \in BOOLEAN /\ Eofs' \in BOOLEAN /\ Eofs \in BOOLEAN
      BY Zenon DEF Open, Eofs
    <3>2. fdpage' = fdpage => Open("w")' = Open("w")
      BY Zenon DEF Open
    <3>3. CASE Open("w") /\ ~Open("w")'
      <4>1. Eofs' = Eofs
        BY <1>2, <2>1, <3>1, <3>2, <3>3, Zenon
      <4> QED
        BY <2>2, <3>1, <3>3, <4>1, Zenon DEF F!Next, F!Close, Eofs
    <3>4. CASE Open("w")' = Open("w") /\ ~Open("w")
      BY <2>2, <3>1, <3>4, Zenon DEF F!Next, F!Eof, Eofs
    <3>5. CASE Open("w")' = Open("w") /\ Open("w")
      BY <1>2, <1>3, <2>2, <3>1, <3>5, ZenonT(30)
    <3> QED
      BY <2>1, <3>1, <3>2, <3>3, <3>4, <3>5, Zenon
  <2>3. ASSUME devpipe_read_inc(e) \/ devpipe_write_inc(e)
        PROVE  Open("w")' = Open("w") /\ Eofs' = Eofs
    <3>1. fdpage' = fdpage /\ pc[e] # "answer" /\ pc'[e] # "answer"
      <4>1. fdpage' = fdpage /\ pc[e] = "inc"
        BY <2>3, Zenon DEF devpipe_read_inc, devpipe_write_inc, At, maps
      <4>2. pc'[e] \in {"idle", "test"}
        BY <1>0, <2>3, Zenon DEF devpipe_read_inc, devpipe_write_inc, Return, Goto, TypeOK
      <4> QED
        BY <4>1, <4>2, Zenon
    <3>2. \A d \in Procs \ {e} : op'[d] = op[d] /\ pc'[d] = pc[d]
      BY <1>0, <1>4, OthersKept, Zenon DEF Kept
    <3> QED
      BY <3>1, <3>2, Zenon DEF Open, Eofs
  <2>4. CASE devpipe_read_inc(e)
    <3>1. Len(got) < Len(sent) /\ got' = Append(got, sent[Len(got) + 1]) /\ sent' = sent
      BY <1>0, <2>4, RingTake, Zenon
    <3> QED
      BY <2>3, <2>4, <3>1, Zenon DEF F!Next, F!Take, Eofs
  <2>5. CASE devpipe_write_inc(e)
    <3>1. /\ Len(sent) - Len(got) < PIPEBUFSIZ /\ got' = got
          /\ \E b \in Byte : sent' = Append(sent, b)
      BY <1>0, <2>5, RingPut, Zenon
    <3> QED
      BY <2>3, <2>5, <3>1, Zenon DEF F!Next, F!Put, Eofs
  <2>6. (sent' = sent /\ got' = got) \/ devpipe_read_inc(e) \/ devpipe_write_inc(e)
    BY <1>0, <1>4, RingQuiet, Zenon
       DEF step, ring, devpipe_read_test, devpipe_read_byte, devpipe_write_test, write_test,
           devpipe_write_byte
  <2> QED
    BY <2>2, <2>4, <2>5, <2>6, Zenon
<1> QED
  BY <1>1, <1>4, Zenon DEF Next, over

-----------------------------------------------------------------------------
(* Theorems *)

\* On one CPU, and if programs fork only while nobody else uses the pipe, the
\* invariant holds in every state of the calls on a pipe.
THEOREM PipeInv ==
    ASSUME NCPU = 1, Lapses = {}
    PROVE  Spec => []IInv
<1>1. Init => IInv
  BY InitIInv, Zenon
<1>2. IInv /\ [Next]_vars => IInv'
  BY NextIInv, Zenon
<1> QED
  BY <1>1, <1>2, PTL DEF Spec

\* When _pipeisclosed() says that the other end is closed, nobody has it open:
\* the order in which close(), dup() and fork() map and unmap the two pages, and the
\* retry when env_runs has moved, are enough.
THEOREM ClosedIsTrueHolds ==
    ASSUME NCPU = 1, Lapses = {}
    PROVE  Spec => []ClosedIsTrue
<1>1. IInv => ClosedIsTrue
  BY Zenon DEF IInv, Answers, AnswerOf, ClosedIsTrue
<1>2. Spec => []IInv
  BY PipeInv, Zenon
<1> QED
  BY <1>1, <1>2, PTL

\* A pipe is a bounded queue: the bytes arrive in the order in which they were
\* written, none is lost or overwritten, and a read() is answered with end-of-file
\* only when nobody has the write end.
THEOREM IsFifoHolds ==
    ASSUME NCPU = 1, Lapses = {}
    PROVE  Spec => IsFifo
<1>1. Init => F!Init
  <2> SUFFICES ASSUME Init PROVE F!Init
    BY Zenon
  <2>1. fdpage[Parent][1] = "w" /\ Parent \in Procs /\ 1 \in Slots
    BY PipeAssumption, Zenon DEF PipeAssumption, Init
  <2>2. \A e \in Procs : op[e] # "read"
    BY Zenon DEF Init
  <2> QED
    BY <2>1, <2>2, Zenon DEF Init, F!Init, Open
<1>2. IInv /\ IInv' /\ [Next]_vars => [F!Next]_<<sent, got, Open("w"), Eofs>>
  BY NextFifo, Zenon
<1>3. Spec => []IInv
  BY PipeInv, Zenon
<1> QED
  BY <1>1, <1>2, <1>3, PTL DEF Spec, IsFifo, F!Spec, F!vars, Eofs
=============================================================================
