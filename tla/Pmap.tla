-------------------------------- MODULE Pmap --------------------------------
(***************************************************************************)
(* Physical pages and address spaces: the page allocator and page tables    *)
(* (kern/pmap.c), the system calls that edit them (kern/syscall.c), their   *)
(* creation and destruction with an environment (kern/env.c), and the TLBs  *)
(* of the CPUs.                                                             *)
(*                                                                          *)
(* One step is one kernel entry of one CPU (modules KernelLock and Env), or *)
(* a memory access of user code, which loads the TLB.  The functions of     *)
(* pmap.c are operators on the memory m, a record of                        *)
(*   ref   pages[].pp_ref, counted modulo RefMod                            *)
(*   free  the pages on page_free_list; page_alloc takes any of them        *)
(*   dir   envs[].env_pgdir                                                 *)
(*   pde   for a page directory, its entries below UTOP                     *)
(*   pte   for a page table, its entries: a page and whether it is writable *)
(* A function that can run out of memory is the set of its possible results,*)
(* empty when it fails.  The kernel's own mappings above UTOP never change. *)
(*                                                                          *)
(* Lapses names the clauses of the contract with user programs that may be  *)
(* broken; the programs of this repository break none:                      *)
(*   "remote_edit"  changing the memory of a child that is running          *)
(*   "bad_map"      sys_page_map of an unmapped page, or read-only as write *)
(*   "bad_send"     the same for sys_ipc_try_send                           *)
(***************************************************************************)
EXTENDS Integers, FiniteSets

CONSTANTS CPUS, Envs, Pages,
          Env0,     \* the environment that i386_init creates
          VAs,      \* page addresses <<PDX, PTX>> below UTOP
          RefMod,   \* number of values of pp_ref (2^16 in the code)
          UTOP,     \* the address that means "no page" to the IPC calls
          NULL,
          Lapses

PDES == {va[1] : va \in VAs}
PTES == {va[2] : va \in VAs}

ASSUME PmapAssumption == /\ Env0 \in Envs
                         /\ VAs \subseteq Nat \X Nat
                         /\ IsFiniteSet(VAs) /\ IsFiniteSet(Envs) /\ IsFiniteSet(Pages)
                         /\ RefMod \in Nat
                         /\ RefMod > 2 * Cardinality(Envs) * (1 + Cardinality(VAs))
                         /\ NULL \notin Envs \cup Pages \cup VAs \cup {UTOP}
                         /\ NULL \notin [pp : Pages, w : BOOLEAN]
                         /\ Lapses \subseteq {"remote_edit", "bad_map", "bad_send"}

VARIABLES mem,            \* the memory m
          env_parent_id,  \* the parent, NULL if it is gone
          env_status,     \* "DYING", or "OK" for every other status
          env_ipc_dstva,  \* where a blocked receiver wants a page, NULL if not receiving
          curenv,         \* the environment that a CPU executes, NULL if it is halted
          tlb,            \* the translations that a CPU has cached
          panicstr        \* why the kernel has panicked, NULL if it has not

vars == <<mem, env_parent_id, env_status, env_ipc_dstva, curenv, tlb, panicstr>>

Mapping == [pp : Pages, w : BOOLEAN]
Mem == [ref  : [Pages -> 0 .. RefMod - 1],
        free : SUBSET Pages,
        dir  : [Envs -> Pages \cup {NULL}],
        pde  : [Pages -> [PDES -> Pages \cup {NULL}]],
        pte  : [Pages -> [PTES -> Mapping \cup {NULL}]]]

TypeOK == /\ mem \in Mem
          /\ env_parent_id \in [Envs -> Envs \cup {NULL}]
          /\ env_status \in [Envs -> {"OK", "DYING"}]
          /\ env_ipc_dstva \in [Envs -> VAs \cup {NULL, UTOP}]
          /\ curenv \in [CPUS -> Envs \cup {NULL}]
          /\ tlb \in [CPUS -> [VAs -> Mapping \cup {NULL}]]
          /\ panicstr \in {NULL, "sys_page_map", "sys_page_map: no memory",
                          "sys_ipc_try_send", "sys_ipc_try_send: no memory"}

-----------------------------------------------------------------------------
(* kern/pmap.c *)

\* page_alloc(): a page and the memory without it.
page_alloc(m) == {<<p, [m EXCEPT !.free = @ \ {p}]>> : p \in m.free}

\* page_free() of a page that page_insert() has refused.
page_free(m, p) == [m EXCEPT !.free = @ \cup {p}]

\* Mutant of page_decref: the page is freed one reference too early.
page_decref_Early(m, p) ==
    LET r == (m.ref[p] - 1) % RefMod
    IN  [m EXCEPT !.ref[p] = r, !.free = IF r <= 1 THEN @ \cup {p} ELSE @]

page_decref(m, p) ==
    LET r == (m.ref[p] - 1) % RefMod
    IN  [m EXCEPT !.ref[p] = r, !.free = IF r = 0 THEN @ \cup {p} ELSE @]

\* pgdir_walk(d, va, create): the memory with a page table for va.
pgdir_walk(m, d, va) ==
    IF m.pde[d][va[1]] # NULL
    THEN {m}
    ELSE {[a[2] EXCEPT !.ref[a[1]] = (@ + 1) % RefMod,
                       !.pde[d][va[1]] = a[1],
                       !.pte[a[1]] = [j \in PTES |-> NULL]] : a \in page_alloc(m)}

\* page_lookup(): the mapping of va, or NULL.
page_lookup(m, d, va) ==
    IF m.pde[d][va[1]] = NULL THEN NULL ELSE m.pte[m.pde[d][va[1]]][va[2]]

page_remove(m, d, va) ==
    IF page_lookup(m, d, va) = NULL
    THEN m
    ELSE [page_decref(m, page_lookup(m, d, va).pp) EXCEPT !.pte[m.pde[d][va[1]]][va[2]] = NULL]

\* Mutant of page_insert: the reference is counted after the old page has been
\* removed, so that re-inserting a page frees it.
page_insert_LateRef(m, d, p, va, w) ==
    {LET m2 == page_remove(m1, d, va)
     IN  [m2 EXCEPT !.ref[p] = (@ + 1) % RefMod,
                    !.pte[m1.pde[d][va[1]]][va[2]] = [pp |-> p, w |-> w]] :
        m1 \in pgdir_walk(m, d, va)}

\* page_insert(): the reference is counted before the old page is removed, so
\* that a page may be re-inserted where it is.
page_insert(m, d, p, va, w) ==
    {LET m2 == page_remove([m1 EXCEPT !.ref[p] = (@ + 1) % RefMod], d, va)
     IN  [m2 EXCEPT !.pte[m1.pde[d][va[1]]][va[2]] = [pp |-> p, w |-> w]] :
        m1 \in pgdir_walk(m, d, va)}

-----------------------------------------------------------------------------
(* kern/env.c *)

\* env_setup_vm(): a page directory that is empty below UTOP.
env_setup_vm(m, e) ==
    {[a[2] EXCEPT !.ref[a[1]] = (@ + 1) % RefMod,
                  !.dir[e] = a[1],
                  !.pde[a[1]] = [i \in PDES |-> NULL]] : a \in page_alloc(m)}

\* How many references to page p the address space with directory d holds.
Held(m, d, p) ==
    Cardinality({va \in VAs : page_lookup(m, d, va) # NULL /\ page_lookup(m, d, va).pp = p})
      + Cardinality({i \in PDES : m.pde[d][i] = p})
      + (IF d = p THEN 1 ELSE 0)

\* The loops of env_free(): page_remove() for every page, page_decref() for
\* every page table and for the page directory.
free_vm(m, e) ==
    LET d    == m.dir[e]
        ref2 == [p \in Pages |-> (m.ref[p] - Held(m, d, p)) % RefMod]
    IN  [m EXCEPT !.ref = ref2,
                  !.free = @ \cup {p \in Pages : Held(m, d, p) > 0 /\ ref2[p] = 0},
                  !.dir[e] = NULL,
                  !.pte = [t \in Pages |-> IF \E i \in PDES : m.pde[d][i] = t
                                           THEN [j \in PTES |-> NULL] ELSE m.pte[t]],
                  !.pde[d] = [i \in PDES |-> NULL]]

-----------------------------------------------------------------------------
(* Entering and leaving the kernel *)

NoTlb == [va \in VAs |-> NULL]

\* i386_init() has created one environment and mapped its program at the address
\* va, and runs it on one CPU.
Init == /\ LET m0 == [ref  |-> [p \in Pages |-> 0],
                     free |-> Pages,
                     dir  |-> [e \in Envs |-> NULL],
                     pde  |-> [p \in Pages |-> [i \in PDES |-> NULL]],
                     pte  |-> [p \in Pages |-> [j \in PTES |-> NULL]]]
           IN  \E m1 \in env_setup_vm(m0, Env0), va \in VAs :
                 \E a \in page_alloc(m1) : mem \in page_insert(a[2], a[2].dir[Env0], a[1], va, TRUE)
        /\ env_parent_id = [e \in Envs |-> NULL]
        /\ env_status = [e \in Envs |-> "OK"]
        /\ env_ipc_dstva = [e \in Envs |-> NULL]
        /\ \E c \in CPUS : curenv = [d \in CPUS |-> IF d = c THEN Env0 ELSE NULL]
        /\ tlb = [c \in CPUS |-> NoTlb]
        /\ panicstr = NULL

Running(e) == \E c \in CPUS : curenv[c] = e

\* CPU c enters the kernel, and its environment is no zombie.
Trapped(c) == /\ panicstr = NULL
              /\ curenv[c] # NULL
              /\ env_status[curenv[c]] # "DYING"

\* Mutant of env_run: cr3 is not loaded.
env_run_NoLcr3(c, e) == /\ curenv' = [curenv EXCEPT ![c] = e]
                        /\ tlb' = tlb

\* The kernel lets c continue with environment e, or halts it; both load cr3,
\* which empties the TLB.
env_run(c, e) == /\ curenv' = [curenv EXCEPT ![c] = e]
                 /\ tlb' = [tlb EXCEPT ![c] = NoTlb]

\* c gives up its environment: sched_yield() finds another one or halts.  Which
\* environments are runnable is the matter of module Env; here any may be that
\* exists, is not blocked, and is not on another CPU.
sched_yield(c) ==
    \/ env_run(c, NULL)
    \/ \E e \in Envs : /\ mem'.dir[e] # NULL
                       /\ env_ipc_dstva'[e] = NULL
                       /\ ~\E d \in CPUS \ {c} : curenv[d] = e
                       /\ env_run(c, e)

\* The timer interrupt.
irq_timer(c) ==
    /\ panicstr = NULL
    /\ curenv[c] = NULL \/ Trapped(c)
    /\ UNCHANGED <<mem, env_parent_id, env_status, env_ipc_dstva, panicstr>>
    /\ sched_yield(c)

\* User code on c accesses its page at va; the hardware walks the page tables.
user_access(c, va) ==
    /\ panicstr = NULL
    /\ curenv[c] # NULL
    /\ tlb[c][va] = NULL
    /\ page_lookup(mem, mem.dir[curenv[c]], va) # NULL
    /\ tlb' = [tlb EXCEPT ![c][va] = page_lookup(mem, mem.dir[curenv[c]], va)]
    /\ UNCHANGED <<mem, env_parent_id, env_status, env_ipc_dstva, curenv, panicstr>>

\* Mutant of envid2env: any environment may be changed.
envid2env_NoPerm(c, e) == mem.dir[e] # NULL

\* envid2env() with checkperm: the caller itself or a child of it.
envid2env(c, e) == mem.dir[e] # NULL /\ (e = curenv[c] \/ env_parent_id[e] = curenv[c])

\* The contract: the memory of a child is changed only while it does not run.
MayEdit(c, e) == e = curenv[c] \/ ~Running(e) \/ "remote_edit" \in Lapses

Returns(c) == /\ env_run(c, curenv[c])
              /\ UNCHANGED <<env_parent_id, env_status, env_ipc_dstva>>

-----------------------------------------------------------------------------
(* Environments come and go *)

\* sys_exofork(); it fails if there is no page for the page directory.
sys_exofork(c) ==
    /\ Trapped(c)
    /\ \E e \in Envs : /\ mem.dir[e] = NULL
                       /\ mem' \in env_setup_vm(mem, e)
                       /\ env_parent_id' = [env_parent_id EXCEPT ![e] = curenv[c]]
                       /\ env_ipc_dstva' = [env_ipc_dstva EXCEPT ![e] = NULL]
                       /\ env_run(c, curenv[c])
    /\ UNCHANGED <<env_status, panicstr>>

\* env_free(e).  Its env_id will not be used again, so its children are orphans.
env_free(e) ==
    /\ mem' = free_vm(mem, e)
    /\ env_parent_id' = [f \in Envs |-> IF f = e \/ env_parent_id[f] = e
                                        THEN NULL ELSE env_parent_id[f]]
    /\ env_status' = [env_status EXCEPT ![e] = "OK"]
    /\ env_ipc_dstva' = [env_ipc_dstva EXCEPT ![e] = NULL]

\* sys_env_destroy(): a child that runs on another CPU becomes a zombie.
sys_env_destroy(c, e) ==
    /\ Trapped(c)
    /\ envid2env(c, e)
    /\ UNCHANGED panicstr
    /\ \/ /\ e = curenv[c]
          /\ env_free(e)
          /\ sched_yield(c)
       \/ /\ e # curenv[c] /\ ~Running(e)
          /\ env_free(e)
          /\ env_run(c, curenv[c])
       \/ /\ e # curenv[c] /\ Running(e) /\ env_status[e] # "DYING"
          /\ env_status' = [env_status EXCEPT ![e] = "DYING"]
          /\ env_run(c, curenv[c])
          /\ UNCHANGED <<mem, env_parent_id, env_ipc_dstva>>

\* trap() of a zombie.
trap_zombie(c) ==
    /\ panicstr = NULL
    /\ curenv[c] # NULL
    /\ env_status[curenv[c]] = "DYING"
    /\ env_free(curenv[c])
    /\ sched_yield(c)
    /\ UNCHANGED panicstr

-----------------------------------------------------------------------------
(* System calls on memory *)

\* Mutant of sys_page_alloc: the page is lost if page_insert() fails.
sys_page_alloc_Lost(c, e, va, w) ==
    /\ Trapped(c)
    /\ envid2env(c, e) /\ MayEdit(c, e)
    /\ \E a \in page_alloc(mem) :
          LET done == page_insert(a[2], mem.dir[e], a[1], va, w)
          IN  \/ mem' \in done
              \/ done = {} /\ mem' = a[2]
    /\ Returns(c)
    /\ UNCHANGED panicstr

\* sys_page_alloc().  If no page table can be had, the new page is freed again.
sys_page_alloc(c, e, va, w) ==
    /\ Trapped(c)
    /\ envid2env(c, e) /\ MayEdit(c, e)
    /\ \E a \in page_alloc(mem) :
          LET done == page_insert(a[2], mem.dir[e], a[1], va, w)
          IN  \/ mem' \in done
              \/ done = {} /\ mem' = page_free(a[2], a[1])
    /\ Returns(c)
    /\ UNCHANGED panicstr

\* Mutant of sys_page_map: the write permission of the source is not looked at.
sys_page_map_NoWCheck(c, src, srcva, dst, dstva, w) ==
    /\ Trapped(c)
    /\ envid2env(c, src) /\ envid2env(c, dst) /\ MayEdit(c, dst)
    /\ Returns(c)
    /\ page_lookup(mem, mem.dir[src], srcva) # NULL
    /\ mem' \in page_insert(mem, mem.dir[dst], page_lookup(mem, mem.dir[src], srcva).pp, dstva, w)
    /\ UNCHANGED panicstr

\* sys_page_map(): every failure but a bad environment panics.
sys_page_map(c, src, srcva, dst, dstva, w) ==
    LET from == page_lookup(mem, mem.dir[src], srcva)
        bad  == IF from = NULL THEN TRUE ELSE w /\ ~from.w
        done == page_insert(mem, mem.dir[dst], from.pp, dstva, w)
    IN  /\ Trapped(c)
        /\ envid2env(c, src) /\ envid2env(c, dst) /\ MayEdit(c, dst)
        /\ Returns(c)
        /\ \/ bad /\ "bad_map" \in Lapses /\ panicstr' = "sys_page_map" /\ UNCHANGED mem
           \/ ~bad /\ done = {} /\ panicstr' = "sys_page_map: no memory" /\ UNCHANGED mem
           \/ ~bad /\ mem' \in done /\ UNCHANGED panicstr

sys_page_unmap(c, e, va) ==
    /\ Trapped(c)
    /\ envid2env(c, e) /\ MayEdit(c, e)
    /\ mem' = page_remove(mem, mem.dir[e], va)
    /\ Returns(c)
    /\ UNCHANGED panicstr

sys_ipc_recv(c, dstva) ==
    /\ Trapped(c)
    /\ env_ipc_dstva' = [env_ipc_dstva EXCEPT ![curenv[c]] = dstva]
    /\ UNCHANGED <<mem, env_parent_id, env_status, panicstr>>
    /\ sched_yield(c)

\* sys_ipc_try_send() of the page at srcva, or of none, to a waiting receiver.
\* If srcva is not mapped, pte is used uninitialised: the send may fail, panic,
\* or go through without a page.
sys_ipc_try_send(c, e, srcva, w) ==
    LET page == srcva # UTOP
        from == page_lookup(mem, mem.dir[curenv[c]], srcva)
        bad  == page /\ IF from = NULL THEN TRUE ELSE w /\ ~from.w
        done == page_insert(mem, mem.dir[e], from.pp, env_ipc_dstva[e], w)
        sent == env_ipc_dstva' = [env_ipc_dstva EXCEPT ![e] = NULL]
    IN  /\ Trapped(c)
        /\ mem.dir[e] # NULL /\ env_ipc_dstva[e] # NULL
        /\ env_run(c, curenv[c])
        /\ UNCHANGED <<env_parent_id, env_status>>
        /\ \/ /\ bad /\ "bad_send" \in Lapses
              /\ \/ panicstr' = "sys_ipc_try_send" /\ UNCHANGED env_ipc_dstva
                 \/ from = NULL /\ env_ipc_dstva[e] = UTOP /\ sent /\ UNCHANGED panicstr
              /\ UNCHANGED mem
           \/ ~bad /\ (page => env_ipc_dstva[e] = UTOP) /\ sent /\ UNCHANGED <<mem, panicstr>>
           \/ /\ ~bad /\ page /\ env_ipc_dstva[e] # UTOP
              /\ \/ mem' \in done /\ sent /\ UNCHANGED panicstr
                 \/ /\ done = {} /\ panicstr' = "sys_ipc_try_send: no memory"
                    /\ UNCHANGED <<mem, env_ipc_dstva>>

\* panic() keeps the kernel lock for ever.
monitor == panicstr # NULL /\ UNCHANGED vars

Next == \/ monitor
        \/ \E c \in CPUS :
             \/ irq_timer(c) \/ trap_zombie(c) \/ sys_exofork(c)
             \/ \E e \in Envs : sys_env_destroy(c, e)
             \/ \E va \in VAs : user_access(c, va)
             \/ \E e \in Envs, va \in VAs : \/ sys_page_unmap(c, e, va)
                                           \/ \E w \in BOOLEAN : sys_page_alloc(c, e, va, w)
             \/ \E va \in VAs \cup {UTOP} : sys_ipc_recv(c, va)
             \/ \E e \in Envs, va \in VAs \cup {UTOP}, w \in BOOLEAN : sys_ipc_try_send(c, e, va, w)
             \/ \E src, dst \in Envs, srcva, dstva \in VAs, w \in BOOLEAN :
                  sys_page_map(c, src, srcva, dst, dstva, w)

Spec == Init /\ [][Next]_vars

-----------------------------------------------------------------------------
(* Properties *)

Live == {e \in Envs : mem.dir[e] # NULL}

\* The mapping of address va in environment e.
Map(e, va) == page_lookup(mem, mem.dir[e], va)

\* How many pointers to page p the address spaces hold.
RefCount(p) == Cardinality({e \in Live : mem.dir[e] = p})
               + Cardinality({x \in Live \X PDES : mem.pde[mem.dir[x[1]]][x[2]] = p})
               + Cardinality({x \in Live \X VAs : Map(x[1], x[2]) # NULL /\ Map(x[1], x[2]).pp = p})

RefsExact == \A p \in Pages : mem.ref[p] = RefCount(p)
FreeIffUnreferenced == mem.free = {p \in Pages : RefCount(p) = 0}

\* pp_ref is "the count of pointers (usually in page table entries) to this
\* page" (inc/memlayout.h:182), across page_insert, page_remove, env_setup_vm,
\* env_free and their failures, and a page is on page_free_list exactly if
\* nothing points to it: none is freed while in use and none leaks, even when a
\* call fails half-way.
CountsExact == TypeOK /\ RefsExact /\ FreeIffUnreferenced

\* A page that serves as a page directory or page table has that single use: no
\* environment shares it and none can reach it through a mapping of its own.
TablesPrivate ==
    \A e \in Live : \A t \in {mem.dir[e]} \cup {mem.pde[mem.dir[e]][i] : i \in PDES} :
        t # NULL => RefCount(t) = 1

\* What a CPU has cached is what the page tables of its environment say, so no
\* user code reaches a page that was unmapped, replaced or freed
\* (kern/pmap.c:556, and the zombies of env_destroy).
TlbCoherent ==
    \A c \in CPUS, va \in VAs :
        tlb[c][va] # NULL => /\ curenv[c] \in Live
                             /\ tlb[c][va] = Map(curenv[c], va)

\* sys_ipc_try_send() of a page that is not mapped, or not writable enough, is
\* an error to its caller (kern/syscall.c:358) and no more.
SendErrorsReturned == panicstr # "sys_ipc_try_send"

\* Writable(p): some environment can write to page p.
Writable(p) == \E e \in Live, va \in VAs : Map(e, va) # NULL /\ Map(e, va).pp = p /\ Map(e, va).w
Mapped(p) == \E e \in Live, va \in VAs : Map(e, va) # NULL /\ Map(e, va).pp = p

\* A page that everybody maps read-only stays read-only for as long as it is
\* mapped: sys_page_map and sys_ipc_try_send "must not grant write access to a
\* read-only page" (kern/syscall.c:248).
ReadOnlyStays == [][\A p \in Pages : Mapped(p) /\ ~Writable(p) => ~Writable(p)']_vars

\* A step of a CPU changes the mappings of no environment but its own, a child
\* of its own, and one that asked for a page with sys_ipc_recv.
EditsAuthorised ==
    [][\A e \in Envs : \A va \in VAs :
          mem.dir[e] # NULL /\ mem'.dir[e] # NULL /\ Map(e, va) # Map(e, va)' =>
             \/ env_ipc_dstva[e] = va
             \/ \E c \in CPUS : /\ curenv[c] # NULL /\ env_status[curenv[c]] # "DYING"
                                 /\ curenv[c] \in {e, env_parent_id[e]}]_vars
=============================================================================
