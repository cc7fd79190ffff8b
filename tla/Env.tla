-------------------------------- MODULE Env ---------------------------------
(***************************************************************************)
(* Environments and scheduling: the env table (kern/env.c), the round-robin *)
(* scheduler (kern/sched.c), the traps and system calls that change an      *)
(* environment's status (kern/trap.c, kern/syscall.c), and the wake-up of   *)
(* network receivers (kern/e1000.c).                                        *)
(*                                                                          *)
(* One step is one kernel entry of one CPU: from the trap that enters the   *)
(* kernel to the env_run or sched_halt that leaves it.  Such a stretch runs *)
(* under the big kernel lock and is therefore atomic (module KernelLock).   *)
(* An operator that models a function which does not return (sched_yield,   *)
(* env_run, sched_halt) gets the values that its caller has computed so far *)
(* as parameters: cur for curenv, st for the env_status fields, wt for the  *)
(* env_e1000_waiting_rx fields.                                             *)
(*                                                                          *)
(* The kernel does not check everything that its safety rests on.  Lapses   *)
(* names the clauses of the contract between kernel and user code that a    *)
(* user program may break; no program of this repository breaks the first   *)
(* three, and a server whose client is killed breaks the last:              *)
(*   "restart"      sys_env_set_status on an environment that was started   *)
(*                  already (lib/fork.c:164, lib/spawn.c:135 start new ones)*)
(*   "rekill"       sys_env_destroy on a child that is a zombie already     *)
(*   "kill_waiter"  sys_env_destroy on a child that waits for a packet      *)
(*   "dead_send"    sys_ipc_try_send to an environment that does not exist  *)
(***************************************************************************)
EXTENDS Naturals, Sequences

CONSTANTS CPUS,      \* the CPUs
          BSP,       \* the boot CPU, the only one that device interrupts reach
          NENV,      \* size of envs[]
          NBoot,     \* number of environments that i386_init creates
          MaxGen,    \* generations before an env_id wraps (2^19 - 1 in the code)
          NULL,      \* no environment
          Ops,       \* the kinds of trap that occur
          Lapses     \* clauses that user programs may break

Envs == 0 .. NENV - 1
Gens == 1 .. MaxGen

AllOps == {"destroy", "fault", "yield", "exofork", "set_status", "ipc_send",
           "ipc_recv", "e1000_recv", "e1000_intr", "other"}
AllLapses == {"restart", "rekill", "kill_waiter", "dead_send"}

ASSUME EnvAssumption == /\ BSP \in CPUS
                        /\ NENV \in Nat \ {0}
                        /\ NBoot \in 0 .. NENV
                        /\ MaxGen \in Nat \ {0}
                        /\ NULL \notin Envs
                        /\ Ops \subseteq AllOps
                        /\ Lapses \subseteq AllLapses

Status == {"FREE", "DYING", "RUNNABLE", "RUNNING", "NOT_RUNNABLE"}

VARIABLES env_status,            \* envs[e].env_status
          env_id,                \* generation part of envs[e].env_id; 0 before the first use
          env_parent_id,         \* envs[e].env_parent_id as <<slot, generation>>, or NULL
          env_pgdir,             \* whether envs[e].env_pgdir is not null
          env_ipc_recving,       \* envs[e].env_ipc_recving
          env_e1000_waiting_rx,  \* envs[e].env_e1000_waiting_rx
          env_free_list,         \* the list through env_link
          curenv,                \* cpus[c].cpu_env
          cpu,                   \* "boot", "user", "halted", or "monitor" (for ever)
          panicstr               \* whether the kernel has panicked

vars == <<env_status, env_id, env_parent_id, env_pgdir, env_ipc_recving,
          env_e1000_waiting_rx, env_free_list, curenv, cpu, panicstr>>

\* Fields that only env_alloc and env_free change.
tableVars == <<env_id, env_parent_id, env_pgdir, env_free_list>>

EnvId(e) == <<e, env_id[e]>>
Elems(s) == {s[i] : i \in 1 .. Len(s)}

TypeOK == /\ env_status \in [Envs -> Status]
          /\ env_id \in [Envs -> 0 .. MaxGen]
          /\ env_parent_id \in [Envs -> (Envs \X (0 .. MaxGen)) \cup {NULL}]
          /\ env_pgdir \in [Envs -> BOOLEAN]
          /\ env_ipc_recving \in [Envs -> BOOLEAN]
          /\ env_e1000_waiting_rx \in [Envs -> BOOLEAN]
          /\ env_free_list \in Seq(Envs)
          /\ curenv \in [CPUS -> Envs \cup {NULL}]
          /\ cpu \in [CPUS -> {"boot", "user", "halted", "monitor"}]
          /\ panicstr \in BOOLEAN

\* env_init() puts the slots on the free list in order; i386_init() has created
\* the first NBoot environments; no CPU has called sched_yield() yet.
Init == /\ env_status = [e \in Envs |-> IF e < NBoot THEN "RUNNABLE" ELSE "FREE"]
        /\ env_id = [e \in Envs |-> IF e < NBoot THEN 1 ELSE 0]
        /\ env_parent_id = [e \in Envs |-> NULL]
        /\ env_pgdir = [e \in Envs |-> e < NBoot]
        /\ env_ipc_recving = [e \in Envs |-> FALSE]
        /\ env_e1000_waiting_rx = [e \in Envs |-> FALSE]
        /\ env_free_list = [i \in 1 .. NENV - NBoot |-> NBoot + i - 1]
        /\ curenv = [c \in CPUS |-> NULL]
        /\ cpu = [c \in CPUS |-> "boot"]
        /\ panicstr = FALSE

-----------------------------------------------------------------------------
(* Leaving the kernel *)

\* Mutant of env_run: the environment is not marked RUNNING.
env_run_NotMarked(c, cur, e, st, wt) ==
    /\ env_status' = IF cur # NULL /\ st[cur] = "RUNNING"
                     THEN [st EXCEPT ![cur] = "RUNNABLE"] ELSE st
    /\ curenv' = [curenv EXCEPT ![c] = e]
    /\ env_e1000_waiting_rx' = wt
    /\ cpu' = [cpu EXCEPT ![c] = "user"]
    /\ UNCHANGED panicstr

\* env_run().  PADDR() panics on the null page directory of a freed slot.
env_run(c, cur, e, st, wt) ==
    /\ LET old == IF cur # NULL /\ st[cur] = "RUNNING"
                  THEN [st EXCEPT ![cur] = "RUNNABLE"] ELSE st
       IN  env_status' = [old EXCEPT ![e] = "RUNNING"]
    /\ curenv' = [curenv EXCEPT ![c] = e]
    /\ env_e1000_waiting_rx' = wt
    /\ cpu' = [cpu EXCEPT ![c] = IF env_pgdir'[e] THEN "user" ELSE "monitor"]
    /\ panicstr' = (panicstr \/ ~env_pgdir'[e])

\* Mutant of sched_halt: only RUNNABLE environments are looked for.
sched_halt_OnlyRunnable(c, cur, st, wt) ==
    /\ IF \E e \in Envs : st[e] = "RUNNABLE"
       THEN /\ cpu' = [cpu EXCEPT ![c] = "halted"]
            /\ curenv' = [curenv EXCEPT ![c] = NULL]
       ELSE /\ cpu' = [cpu EXCEPT ![c] = "monitor"]
            /\ curenv' = [curenv EXCEPT ![c] = cur]
    /\ env_status' = st
    /\ env_e1000_waiting_rx' = wt
    /\ UNCHANGED panicstr

\* sched_halt(): with nothing left that could ever run, the CPU stays in the
\* monitor with the lock held; otherwise it waits for an interrupt.
sched_halt(c, cur, st, wt) ==
    /\ IF \E e \in Envs : st[e] \in {"RUNNABLE", "RUNNING", "DYING"}
       THEN /\ cpu' = [cpu EXCEPT ![c] = "halted"]
            /\ curenv' = [curenv EXCEPT ![c] = NULL]
       ELSE /\ cpu' = [cpu EXCEPT ![c] = "monitor"]
            /\ curenv' = [curenv EXCEPT ![c] = cur]
    /\ env_status' = st
    /\ env_e1000_waiting_rx' = wt
    /\ UNCHANGED panicstr

\* Mutant of Distance: the search always starts at slot 0.
Distance_FixedPriority(cur, e) == e

\* How far the search of sched_yield() goes before it looks at slot e: it starts
\* after the current environment, or after slot 0 if there is none.
Distance(cur, e) ==
    LET start == IF cur = NULL THEN 0 ELSE cur
    IN  (e + NENV - start - 1) % NENV

\* sched_yield(): the first runnable environment in circular order, else the
\* current one if it is still running, else the first that waits for a packet.
sched_yield(c, cur, st, wt) ==
    LET runnable == {e \in Envs : st[e] = "RUNNABLE"}
        waiting  == {e \in Envs : wt[e]}
        running  == cur # NULL /\ st[cur] = "RUNNING"
    IN  \/ \E e \in runnable :
             /\ \A f \in runnable : Distance(cur, e) <= Distance(cur, f)
             /\ env_run(c, cur, e, st, wt)
        \/ /\ runnable = {} /\ running
           /\ env_run(c, cur, cur, st, wt)
        \/ /\ runnable = {} /\ ~running
           /\ \E e \in waiting :
                /\ \A f \in waiting : e <= f
                /\ env_run(c, cur, e, st, [wt EXCEPT ![e] = FALSE])
        \/ /\ runnable = {} /\ ~running /\ waiting = {}
           /\ sched_halt(c, cur, st, wt)

\* The end of trap(): back to the current environment if that makes sense.
trap_return(c, cur, st, wt) ==
    IF cur # NULL /\ st[cur] = "RUNNING" THEN env_run(c, cur, cur, st, wt)
                                         ELSE sched_yield(c, cur, st, wt)

\* panic(): the CPU keeps the kernel lock, so this ends everything.
panic(c) ==
    /\ cpu' = [cpu EXCEPT ![c] = "monitor"]
    /\ panicstr' = TRUE
    /\ UNCHANGED <<env_status, env_e1000_waiting_rx, curenv>>

-----------------------------------------------------------------------------
(* Environments *)

\* envid2env() succeeds on slot e and generation g for a caller in slot cur.
envid2env(cur, e, g, checkperm) ==
    /\ env_status[e] # "FREE"
    /\ env_id[e] = g
    /\ checkperm => e = cur \/ env_parent_id[e] = EnvId(cur)

\* Mutant of env_alloc: the page directory that env_setup_vm allocated is not
\* recorded.
env_alloc_NoPgdir(e, parent) ==
    /\ env_id' = [env_id EXCEPT ![e] = IF @ < MaxGen THEN @ + 1 ELSE 1]
    /\ env_parent_id' = [env_parent_id EXCEPT ![e] = parent]
    /\ env_ipc_recving' = [env_ipc_recving EXCEPT ![e] = FALSE]
    /\ env_free_list' = Tail(env_free_list)
    /\ UNCHANGED env_pgdir

\* env_alloc(): takes the first free slot.  The rest of the new environment's
\* fields are set by the caller.
env_alloc(e, parent) ==
    /\ env_id' = [env_id EXCEPT ![e] = IF @ < MaxGen THEN @ + 1 ELSE 1]
    /\ env_parent_id' = [env_parent_id EXCEPT ![e] = parent]
    /\ env_pgdir' = [env_pgdir EXCEPT ![e] = TRUE]
    /\ env_ipc_recving' = [env_ipc_recving EXCEPT ![e] = FALSE]
    /\ env_free_list' = Tail(env_free_list)

\* Mutant of env_free: the slot is not put back on the free list.
env_free_Leaks(e) ==
    /\ env_pgdir' = [env_pgdir EXCEPT ![e] = FALSE]
    /\ UNCHANGED <<env_id, env_parent_id, env_ipc_recving, env_free_list>>

\* env_free(): the address space goes, the slot returns to the free list.
env_free(e) ==
    /\ env_pgdir' = [env_pgdir EXCEPT ![e] = FALSE]
    /\ env_free_list' = <<e>> \o env_free_list
    /\ UNCHANGED <<env_id, env_parent_id, env_ipc_recving>>

\* Mutant of env_destroy: an environment that runs elsewhere is freed at once.
env_destroy_NoZombie(c, e) ==
    LET st == [env_status EXCEPT ![e] = "FREE"]
    IN  /\ env_free(e)
        /\ IF e = curenv[c] THEN sched_yield(c, NULL, st, env_e1000_waiting_rx)
                            ELSE trap_return(c, curenv[c], st, env_e1000_waiting_rx)

\* env_destroy(e) on CPU c, then the rest of the trap.  An environment that
\* runs on another CPU becomes a zombie.
env_destroy(c, e) ==
    LET cur == curenv[c]
    IN  \/ /\ env_status[e] = "RUNNING" /\ e # cur
           /\ UNCHANGED <<tableVars, env_ipc_recving>>
           /\ trap_return(c, cur, [env_status EXCEPT ![e] = "DYING"], env_e1000_waiting_rx)
        \/ /\ ~(env_status[e] = "RUNNING" /\ e # cur)
           /\ env_free(e)
           /\ LET st == [env_status EXCEPT ![e] = "FREE"]
              IN  IF e = cur THEN sched_yield(c, NULL, st, env_e1000_waiting_rx)
                             ELSE trap_return(c, cur, st, env_e1000_waiting_rx)

-----------------------------------------------------------------------------
(* Traps *)

Stopped == \E c \in CPUS : cpu[c] = "monitor"

\* CPU c traps to the kernel from user mode; its environment is no zombie.
Trapped(c, op) == /\ ~Stopped
                  /\ op \in Ops
                  /\ cpu[c] = "user"
                  /\ env_status[curenv[c]] # "DYING"

\* i386_init() on the boot CPU, mp_main() on the others: the first scheduling.
boot(c) ==
    /\ ~Stopped
    /\ cpu[c] = "boot"
    /\ UNCHANGED <<tableVars, env_ipc_recving>>
    /\ sched_yield(c, NULL, env_status, env_e1000_waiting_rx)

\* Mutant of trap_zombie: the zombie is resumed instead of freed.
trap_zombie_Resumed(c) ==
    /\ ~Stopped
    /\ cpu[c] = "user"
    /\ env_status[curenv[c]] = "DYING"
    /\ UNCHANGED vars

\* trap(): whatever the trap was, a zombie is garbage-collected.
trap_zombie(c) ==
    /\ ~Stopped
    /\ cpu[c] = "user"
    /\ env_status[curenv[c]] = "DYING"
    /\ env_free(curenv[c])
    /\ sched_yield(c, NULL, [env_status EXCEPT ![curenv[c]] = "FREE"], env_e1000_waiting_rx)

\* The timer interrupt, from user mode or from the HALT state.
irq_timer(c) ==
    /\ ~Stopped
    /\ \/ cpu[c] = "user" /\ env_status[curenv[c]] # "DYING"
       \/ cpu[c] = "halted"
    /\ UNCHANGED <<tableVars, env_ipc_recving>>
    /\ sched_yield(c, curenv[c], env_status, env_e1000_waiting_rx)

\* A network interrupt.  The handler wakes the last environment that waits for
\* a packet.
irq_e1000(c) ==
    /\ ~Stopped
    /\ "e1000_intr" \in Ops
    /\ c = BSP
    /\ \/ cpu[c] = "user" /\ env_status[curenv[c]] # "DYING"
       \/ cpu[c] = "halted"
    /\ UNCHANGED <<tableVars, env_ipc_recving>>
    /\ \/ /\ \A e \in Envs : ~env_e1000_waiting_rx[e]
          /\ trap_return(c, curenv[c], env_status, env_e1000_waiting_rx)
       \/ \E e \in Envs :
            /\ env_e1000_waiting_rx[e]
            /\ \A f \in Envs : env_e1000_waiting_rx[f] => f <= e
            /\ trap_return(c, curenv[c], [env_status EXCEPT ![e] = "RUNNABLE"],
                           [env_e1000_waiting_rx EXCEPT ![e] = FALSE])

\* A trap that leaves the env table alone: keyboard, serial and spurious
\* interrupts, a page fault with an upcall, and every system call that only
\* returns a value, fails, or works on memory.
trap_other(c) ==
    /\ Trapped(c, "other")
    /\ UNCHANGED <<tableVars, env_ipc_recving>>
    /\ trap_return(c, curenv[c], env_status, env_e1000_waiting_rx)

\* An exception that nobody handles, a page fault without an upcall, or a
\* failed user_mem_assert(): the current environment is destroyed.
trap_fault(c) ==
    /\ Trapped(c, "fault")
    /\ env_destroy(c, curenv[c])

-----------------------------------------------------------------------------
(* System calls *)

sys_env_destroy(c, e, g) ==
    /\ Trapped(c, "destroy")
    /\ envid2env(curenv[c], e, g, TRUE)
    /\ env_status[e] = "DYING" => "rekill" \in Lapses
    /\ env_e1000_waiting_rx[e] => "kill_waiter" \in Lapses
    /\ env_destroy(c, e)

\* sys_yield(), and a sys_e1000_transmit() that finds the ring full.
sys_yield(c) ==
    /\ Trapped(c, "yield")
    /\ UNCHANGED <<tableVars, env_ipc_recving>>
    /\ sched_yield(c, curenv[c], env_status, env_e1000_waiting_rx)

\* sys_exofork() with a free slot and enough memory; it fails like trap_other.
sys_exofork(c) ==
    /\ Trapped(c, "exofork")
    /\ env_free_list # <<>>
    /\ LET e == Head(env_free_list)
       IN  /\ env_alloc(e, EnvId(curenv[c]))
           /\ trap_return(c, curenv[c], [env_status EXCEPT ![e] = "NOT_RUNNABLE"],
                          [env_e1000_waiting_rx EXCEPT ![e] = FALSE])

\* Environment e is as sys_exofork() left it.
Fresh(e) == /\ env_status[e] = "NOT_RUNNABLE"
            /\ ~env_ipc_recving[e]
            /\ ~env_e1000_waiting_rx[e]

sys_env_set_status(c, e, g, status) ==
    /\ Trapped(c, "set_status")
    /\ envid2env(curenv[c], e, g, TRUE)
    /\ Fresh(e) \/ "restart" \in Lapses
    /\ UNCHANGED <<tableVars, env_ipc_recving>>
    /\ trap_return(c, curenv[c], [env_status EXCEPT ![e] = status], env_e1000_waiting_rx)

\* Mutant of sys_ipc_try_send: the receiver need not be waiting.
sys_ipc_try_send_Unasked(c, e, g) ==
    /\ Trapped(c, "ipc_send")
    /\ envid2env(curenv[c], e, g, FALSE)
    /\ UNCHANGED tableVars
    /\ env_ipc_recving' = [env_ipc_recving EXCEPT ![e] = FALSE]
    /\ trap_return(c, curenv[c], [env_status EXCEPT ![e] = "RUNNABLE"], env_e1000_waiting_rx)

\* sys_ipc_try_send(): a send to an environment that does not exist panics.
sys_ipc_try_send(c, e, g) ==
    /\ Trapped(c, "ipc_send")
    /\ UNCHANGED tableVars
    /\ \/ /\ ~envid2env(curenv[c], e, g, FALSE)
          /\ "dead_send" \in Lapses
          /\ UNCHANGED env_ipc_recving
          /\ panic(c)
       \/ /\ envid2env(curenv[c], e, g, FALSE)
          /\ env_ipc_recving[e]
          /\ env_ipc_recving' = [env_ipc_recving EXCEPT ![e] = FALSE]
          /\ trap_return(c, curenv[c], [env_status EXCEPT ![e] = "RUNNABLE"],
                         env_e1000_waiting_rx)

\* Mutant of sys_ipc_recv: the receiver is not marked NOT_RUNNABLE.
sys_ipc_recv_Runnable(c) ==
    /\ Trapped(c, "ipc_recv")
    /\ UNCHANGED tableVars
    /\ env_ipc_recving' = [env_ipc_recving EXCEPT ![curenv[c]] = TRUE]
    /\ sched_yield(c, curenv[c], env_status, env_e1000_waiting_rx)

sys_ipc_recv(c) ==
    /\ Trapped(c, "ipc_recv")
    /\ UNCHANGED tableVars
    /\ env_ipc_recving' = [env_ipc_recving EXCEPT ![curenv[c]] = TRUE]
    /\ sched_yield(c, curenv[c], [env_status EXCEPT ![curenv[c]] = "NOT_RUNNABLE"],
                   env_e1000_waiting_rx)

\* sys_e1000_receive() with the receive ring empty.
sys_e1000_receive(c) ==
    /\ Trapped(c, "e1000_recv")
    /\ UNCHANGED <<tableVars, env_ipc_recving>>
    /\ sched_yield(c, curenv[c], [env_status EXCEPT ![curenv[c]] = "NOT_RUNNABLE"],
                   [env_e1000_waiting_rx EXCEPT ![curenv[c]] = TRUE])

\* The monitor of a CPU that found nothing to run, or that panicked.
monitor == Stopped /\ UNCHANGED vars

Next == \/ monitor
        \/ \E c \in CPUS :
             \/ boot(c) \/ trap_zombie(c) \/ irq_timer(c) \/ irq_e1000(c)
             \/ trap_other(c) \/ trap_fault(c) \/ sys_yield(c) \/ sys_exofork(c)
             \/ sys_ipc_recv(c) \/ sys_e1000_receive(c)
             \/ \E e \in Envs, g \in Gens :
                  \/ sys_env_destroy(c, e, g)
                  \/ sys_ipc_try_send(c, e, g)
                  \/ \E status \in {"RUNNABLE", "NOT_RUNNABLE"} :
                       sys_env_set_status(c, e, g, status)

Spec == Init /\ [][Next]_vars

\* The periodic LAPIC timer interrupts user code and halted CPUs, so every CPU
\* keeps entering the kernel; nothing is assumed of user programs.
Ticks(c) == boot(c) \/ trap_zombie(c) \/ irq_timer(c)
FairSpec == Spec /\ \A c \in CPUS : WF_vars(Ticks(c))

-----------------------------------------------------------------------------
(* Properties *)

User(c) == cpu[c] = "user"

\* No environment runs on two CPUs ("Never choose an environment that's
\* currently running on another CPU", kern/sched.c:25).
SingleCpu == \A c, d \in CPUS : User(c) /\ User(d) /\ curenv[c] = curenv[d] => c = d

\* The env_status fields tell the truth: a CPU in user mode executes an
\* environment that is RUNNING or DYING, and an environment with such a status
\* has a CPU (which will bring a zombie back to the kernel to be freed).
StatusMatchesCpus ==
    /\ \A c \in CPUS : User(c) => env_status[curenv[c]] \in {"RUNNING", "DYING"}
    /\ \A e \in Envs : env_status[e] \in {"RUNNING", "DYING"}
                         => \E c \in CPUS : User(c) /\ curenv[c] = e

\* The free list holds exactly the free slots, each once, and the live
\* environments are exactly those with a page directory: no slot leaks and none
\* is handed out while it is in use.
FreeListExact ==
    /\ Elems(env_free_list) = {e \in Envs : env_status[e] = "FREE"}
    /\ \A i, j \in 1 .. Len(env_free_list) : env_free_list[i] = env_free_list[j] => i = j
    /\ \A e \in Envs : env_pgdir[e] <=> env_status[e] # "FREE"

\* An environment that waits for a message or a packet is really blocked: the
\* wake-ups of sys_ipc_try_send and e1000_trap_handler, which set env_status to
\* RUNNABLE unconditionally, never hit one that is running.
WaitersAreBlocked ==
    \A e \in Envs : /\ env_ipc_recving[e] => env_status[e] \in {"NOT_RUNNABLE", "FREE"}
                    /\ env_e1000_waiting_rx[e] => env_status[e] = "NOT_RUNNABLE"
                    /\ ~(env_ipc_recving[e] /\ env_e1000_waiting_rx[e])

\* A CPU gives up for good ("No runnable environments in the system!",
\* kern/sched.c:71) only when no CPU executes user code.
MonitorMeansIdle == Stopped /\ ~panicstr => \A c \in CPUS : ~User(c)

\* The kernel does not panic: env_run() finds a page directory in the
\* environment it switches to, and no system call panics instead of failing.
NoPanic == ~panicstr

\* A zombie stays a zombie until the CPU that runs it traps; then it is freed
\* ("A zombie environment will be freed the next time it traps to the kernel",
\* kern/env.c:485).
ZombieStep ==
    \A e \in Envs : env_status[e] = "DYING" /\ env_status'[e] # "DYING" =>
        /\ env_status'[e] = "FREE"
        /\ \E c \in CPUS : User(c) /\ curenv[c] = e /\ curenv'[c] # e
ZombieFreedByItsTrap == [][ZombieStep]_vars

\* No starvation: a runnable environment gets a CPU, because the search of
\* sched_yield() starts after the environment that ran last (kern/sched.c:33).
EveryRunnableRuns ==
    \A e \in Envs : env_status[e] = "RUNNABLE" ~> env_status[e] # "RUNNABLE"

\* A zombie does not linger.
ZombiesAreReaped == \A e \in Envs : env_status[e] = "DYING" ~> env_status[e] = "FREE"
=============================================================================
