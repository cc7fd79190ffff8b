-------------------------------- MODULE Fork --------------------------------
(***************************************************************************)
(* Copy-on-write fork (lib/fork.c): fork(), duppage() and the page fault    *)
(* handler pgfault(), all user code.                                        *)
(*                                                                          *)
(* One step is one system call or one access to memory.  Environments run   *)
(* on any number of CPUs.  The memory of an environment is a page table pte *)
(* over the pages that hold values; that a page is free exactly if nobody   *)
(* maps it is shown in module Pmap.  fork() works on the very stack page    *)
(* that it duplicates: the code between its system calls writes to Stack,   *)
(* and may take a page fault there.                                         *)
(***************************************************************************)
EXTENDS Naturals, FiniteSets, FiniteSetsExt

CONSTANTS Envs, Env0,
          Pages,
          InitPage, \* the pages of the first environment
          Near(_, _), \* where page_alloc() looks first: see there
          PFTEMP,   \* where pgfault() maps the page it copies to
          Data,     \* writable pages of a program
          Text,     \* read-only pages of a program
          Shared,   \* pages mapped with PTE_SHARE
          Stack,    \* the user stack
          UXSTACK,  \* the exception stack, the highest page below UTOP
          Val, Zero,
          Writes,   \* Writes[e]: the values that e writes; they tell who wrote
          MaxForks, \* bound: calls of fork()
          NULL

\* W: PTE_W.  COW: PTE_COW.  RO: neither.  SHARE: PTE_SHARE and PTE_W.
Perm == {"W", "COW", "RO", "SHARE"}
Entry == [pp : Pages, perm : Perm]

VAs == {PFTEMP, Stack, UXSTACK} \cup Data \cup Text \cup Shared
Private == Data \cup Text \cup {Stack}

ASSUME ForkAssumption ==
    /\ Env0 \in Envs /\ NULL \notin Envs /\ NULL \notin Entry
    /\ Zero \in Val /\ MaxForks \in Nat /\ Writes \in [Envs -> SUBSET Val]
    /\ VAs \subseteq Nat /\ IsFiniteSet(VAs) /\ NULL \notin VAs
    /\ \A va \in VAs \ {UXSTACK} : va < UXSTACK
    /\ \A va \in VAs \ {PFTEMP} : va > PFTEMP
    /\ Data \cap Text = {} /\ Data \cap Shared = {} /\ Text \cap Shared = {}
    /\ Stack \notin Data \cup Text \cup Shared /\ PFTEMP # UXSTACK
    /\ {PFTEMP, UXSTACK} \cap (Private \cup Shared) = {}
    /\ InitPage \in [Private \cup Shared -> Pages]
    /\ \A v, w \in Private \cup Shared : InitPage[v] = InitPage[w] => v = w

VARIABLES pte,         \* pte[e][va]: a page and its permission, or NULL
          content,     \* the value in each page
          status,      \* "none", "embryo" (created, not runnable), "alive"
          fork_at,     \* "none", the next step of duppage(), or "finish"
          fork_child,  \* the child
          fork_pn,     \* the page that duppage() is at
          pf_at,       \* "none", or the next step of pgfault()
          pf_va,       \* the address that it handles
          forks        \* how often fork() was called

forkVars == <<fork_at, fork_child, fork_pn>>
pfVars == <<pf_at, pf_va>>
vars == <<pte, content, status, forkVars, pfVars, forks>>

TypeOK == /\ pte \in [Envs -> [VAs -> Entry \cup {NULL}]]
          /\ content \in [Pages -> Val]
          /\ status \in [Envs -> {"none", "embryo", "alive"}]
          /\ fork_at \in [Envs -> {"none", "child", "parent", "finish"}]
          /\ fork_child \in [Envs -> Envs \cup {NULL}]
          /\ fork_pn \in [Envs -> VAs \cup {NULL}]
          /\ pf_at \in [Envs -> {"none", "alloc", "copy", "map"}]
          /\ pf_va \in [Envs -> VAs \cup {NULL}]
          /\ forks \in 0 .. MaxForks

\* The pages that nobody maps.
Unmapped(t) == Pages \ {t[x[1]][x[2]].pp : x \in {y \in Envs \X VAs : t[y[1]][y[2]] # NULL}}
Free == Unmapped(pte)

\* page_alloc(): a free page.  All pages are alike; which one is taken matters only
\* to the number of states, which Near keeps small.
page_alloc(e, va) ==
    LET free == Free
        near == Near(e, va) \cap free
    IN  CHOOSE p \in free : near # {} => p \in near

\* The memory when the page tables become t.  page_alloc() clears a page before it
\* is used again; here it is cleared as soon as nobody maps it.
Remap(t) == LET free == Unmapped(t)
            IN  /\ pte' = t
                /\ content' = [p \in Pages |-> IF p \in free THEN Zero ELSE content[p]]

Mapped(e) == {va \in VAs : pte[e][va] # NULL}

InitPerm(va) == IF va \in Text THEN "RO" ELSE IF va \in Shared THEN "SHARE" ELSE "W"

\* The first environment, with its program and stack loaded.
Init == /\ pte = [e \in Envs |-> [va \in VAs |->
                    IF e = Env0 /\ va \in Private \cup Shared
                    THEN [pp |-> InitPage[va], perm |-> InitPerm(va)] ELSE NULL]]
        /\ content = [p \in Pages |-> Zero]
        /\ status = [e \in Envs |-> IF e = Env0 THEN "alive" ELSE "none"]
        /\ fork_at = [e \in Envs |-> "none"]
        /\ fork_child = [e \in Envs |-> NULL] /\ fork_pn = [e \in Envs |-> NULL]
        /\ pf_at = [e \in Envs |-> "none"] /\ pf_va = [e \in Envs |-> NULL]
        /\ forks = 0

-----------------------------------------------------------------------------
(* Accesses to memory and page faults *)

\* e executes user code outside pgfault(); inside fork() only the stack is written.
Executes(e, va) == /\ status[e] = "alive" /\ pf_at[e] = "none"
                   /\ va \in Data \cup Shared \cup {Stack} /\ pte[e][va] # NULL
                   /\ fork_at[e] # "none" => va = Stack

write(e, va, v) ==
    /\ Executes(e, va)
    /\ pte[e][va].perm \in {"W", "SHARE"}
    /\ content' = [content EXCEPT ![pte[e][va].pp] = v]
    /\ UNCHANGED <<pte, status, forkVars, pfVars, forks>>

\* A write to a copy-on-write page; it is repeated when pgfault() has returned.
page_fault(e, va) ==
    /\ Executes(e, va)
    /\ pte[e][va].perm = "COW"
    /\ pf_at' = [pf_at EXCEPT ![e] = "alloc"]
    /\ pf_va' = [pf_va EXCEPT ![e] = va]
    /\ UNCHANGED <<pte, content, status, forkVars, forks>>

\* sys_page_alloc(PFTEMP).
pgfault_alloc(e) ==
    /\ pf_at[e] = "alloc"
    /\ Free # {}
    /\ Remap([pte EXCEPT ![e][PFTEMP] = [pp |-> page_alloc(e, pf_va[e]), perm |-> "W"]])
    /\ pf_at' = [pf_at EXCEPT ![e] = "copy"]
    /\ UNCHANGED <<status, forkVars, pf_va, forks>>

\* memmove(PFTEMP, addr), with v the value copied.
copy(e, v) ==
    /\ pf_at[e] = "copy"
    /\ content' = [content EXCEPT ![pte[e][PFTEMP].pp] = v]
    /\ pf_at' = [pf_at EXCEPT ![e] = "map"]
    /\ UNCHANGED <<pte, status, forkVars, pf_va, forks>>

\* Mutant of pgfault_copy: the page that replaces the shared one is left clear.
pgfault_copy_Clear(e) == copy(e, Zero)

pgfault_copy(e) == copy(e, content[pte[e][pf_va[e]].pp])

\* sys_page_map(PFTEMP, addr).  PFTEMP stays mapped.
pgfault_map(e) ==
    /\ pf_at[e] = "map"
    /\ Remap([pte EXCEPT ![e][pf_va[e]] = [pp |-> pte[e][PFTEMP].pp, perm |-> "W"]])
    /\ pf_at' = [pf_at EXCEPT ![e] = "none"]
    /\ pf_va' = [pf_va EXCEPT ![e] = NULL]
    /\ UNCHANGED <<status, forkVars, forks>>
-----------------------------------------------------------------------------
(* fork() *)

\* The user stack is in use whenever fork() makes a system call.
Forking(e, at) == /\ status[e] = "alive" /\ pf_at[e] = "none"
                  /\ fork_at[e] = at

\* Mutant of Next_pn: the loop goes up to and including the exception stack.
Next_pn_Inclusive(e, from) == {va \in Mapped(e) : from <= va}

\* The pages that the loop of fork() still has to pass.
Next_pn(e, from) == {va \in Mapped(e) : from <= va /\ va < UXSTACK}

\* The loop goes on at the first mapped page from address "from".
Loop(e, from) ==
    LET todo == Next_pn(e, from)
    IN  IF todo = {} THEN /\ fork_at' = [fork_at EXCEPT ![e] = "finish"]
                          /\ fork_pn' = [fork_pn EXCEPT ![e] = NULL]
        ELSE /\ fork_at' = [fork_at EXCEPT ![e] = "child"]
             /\ fork_pn' = [fork_pn EXCEPT ![e] = Min(todo)]

\* set_pgfault_handler(), which allocates the exception stack the first time,
\* and sys_exofork().
fork(e, c) ==
    /\ Forking(e, "none")
    /\ status[c] = "none"
    /\ forks < MaxForks /\ forks' = forks + 1
    /\ IF pte[e][UXSTACK] # NULL THEN UNCHANGED <<pte, content>>
       ELSE /\ Free # {}
            /\ Remap([pte EXCEPT ![e][UXSTACK] = [pp |-> page_alloc(e, UXSTACK), perm |-> "W"]])
    /\ status' = [status EXCEPT ![c] = "embryo"]
    /\ fork_child' = [fork_child EXCEPT ![e] = c]
    /\ Loop(e, 0)
    /\ UNCHANGED pfVars

\* The first sys_page_map() of duppage(), into the child.  A page that is shared
\* or read-only is done with it.
duppage_child(e) ==
    LET c  == fork_child[e]
        pn == fork_pn[e]
        from == pte[e][pn]
    IN  /\ Forking(e, "child")
        /\ IF from.perm \in {"W", "COW"}
           THEN /\ pte' = [pte EXCEPT ![c][pn] = [from EXCEPT !.perm = "COW"]]
                /\ fork_at' = [fork_at EXCEPT ![e] = "parent"]
                /\ UNCHANGED fork_pn
           ELSE /\ pte' = [pte EXCEPT ![c][pn] = from]
                /\ Loop(e, pn + 1)
        /\ UNCHANGED <<content, status, fork_child, pfVars, forks>>

\* The second one, which maps the page of the parent again, with perm; the page
\* may have changed since the first, if it is the stack.
remap_parent(e, perm) ==
    LET pn == fork_pn[e]
    IN  /\ Forking(e, "parent")
        /\ pte' = [pte EXCEPT ![e][pn] = [@ EXCEPT !.perm = perm]]
        /\ Loop(e, pn + 1)
        /\ UNCHANGED <<content, status, fork_child, pfVars, forks>>

\* Mutant of duppage_parent: the page stays writable.
duppage_parent_KeepW(e) == remap_parent(e, "W")

duppage_parent(e) == remap_parent(e, "COW")

\* The child gets an exception stack of its own and may run.
fork_finish(e) ==
    LET c == fork_child[e]
    IN  /\ Forking(e, "finish")
        /\ Free # {}
        /\ Remap([pte EXCEPT ![c][UXSTACK] = [pp |-> page_alloc(c, UXSTACK), perm |-> "W"]])
        /\ status' = [status EXCEPT ![c] = "alive"]
        /\ fork_at' = [fork_at EXCEPT ![e] = "none"]
        /\ fork_child' = [fork_child EXCEPT ![e] = NULL]
        /\ UNCHANGED <<fork_pn, pfVars, forks>>

\* exit(), and every panic() of this code: out of memory, or a fault on a page
\* that is not copy-on-write.  A child that is not finished stays as it is.
exit(e) ==
    /\ status[e] = "alive"
    /\ Remap([pte EXCEPT ![e] = [va \in VAs |-> NULL]])
    /\ status' = [status EXCEPT ![e] = "none"]
    /\ fork_at' = [fork_at EXCEPT ![e] = "none"]
    /\ fork_child' = [fork_child EXCEPT ![e] = NULL]
    /\ fork_pn' = [fork_pn EXCEPT ![e] = NULL]
    /\ pf_at' = [pf_at EXCEPT ![e] = "none"]
    /\ pf_va' = [pf_va EXCEPT ![e] = NULL]
    /\ UNCHANGED forks

\* Every environment has ended.
over == (\A e \in Envs : status[e] # "alive") /\ UNCHANGED vars

Next == \/ over
        \/ \E e \in Envs :
             \/ \E va \in VAs : page_fault(e, va) \/ \E v \in Writes[e] : write(e, va, v)
             \/ pgfault_alloc(e) \/ pgfault_copy(e) \/ pgfault_map(e)
             \/ \E c \in Envs : fork(e, c)
             \/ duppage_child(e) \/ duppage_parent(e) \/ fork_finish(e)
             \/ exit(e)

Spec == Init /\ [][Next]_vars

-----------------------------------------------------------------------------
(* Properties *)

Alive == {e \in Envs : status[e] = "alive"}

\* A page that an environment can write to without a fault, and that is not meant
\* to be shared, is mapped by no other environment that runs: fork() has marked
\* it copy-on-write on both sides before the child starts.
WritableIsPrivate ==
    /\ TypeOK
    /\ \A e, f \in Alive : \A va \in Private \cup {UXSTACK}, wa \in VAs :
          /\ pte[e][va] # NULL /\ pte[f][wa] # NULL
          /\ pte[e][va].perm = "W" /\ pte[e][va].pp = pte[f][wa].pp
          => e = f /\ wa \in {va, PFTEMP}

\* "Neither user exception stack should ever be marked copy-on-write"
\* (lib/fork.c:116): an environment that can fault has one of its own.
ExceptionStack ==
    \A e \in Alive : (pf_at[e] # "none" \/ fork_at[e] # "none")
                       => pte[e][UXSTACK] # NULL /\ pte[e][UXSTACK].perm = "W"

\* The memory that each environment sees.
Mem == [e \in Envs |-> [va \in Private \cup Shared |->
            IF status[e] = "alive" THEN content[pte[e][va].pp] ELSE NULL]]

\* fork() gives the child a copy of the parent's memory, and no write of one is
\* seen by the other, except on pages marked PTE_SHARE.
M == INSTANCE PrivateMemory WITH Data <- Data \cup Text, live <- Alive, mem <- Mem
ForkCopies == M!Spec
=============================================================================
