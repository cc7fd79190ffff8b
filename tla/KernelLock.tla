----------------------------- MODULE KernelLock -----------------------------
(***************************************************************************)
(* The big kernel lock (kern/spinlock.c) and every path by which a CPU      *)
(* enters and leaves the kernel: the boot CPU and the APs (kern/init.c),    *)
(* traps from user mode and from the HALT state (kern/trap.c, trap()),      *)
(* env_run() and sched_halt().  What the kernel does between taking and     *)
(* releasing the lock is the subject of the module Env; here it is the      *)
(* single program point "kernel".                                           *)
(*                                                                          *)
(* spin_lock and spin_unlock are modelled instruction by instruction where  *)
(* another CPU can see the difference: the flag lk->locked and the debug    *)
(* field lk->cpu are written by separate instructions, and holding() reads  *)
(* both.                                                                    *)
(***************************************************************************)
EXTENDS Naturals, FiniteSets

CONSTANTS CPUS,      \* the CPUs found by mp_init()
          BSP,       \* bootcpu
          NoCpu,     \* the null CpuInfo pointer
          MayPanic   \* whether code running in the kernel may call panic()

ASSUME CpuAssumption == /\ BSP \in CPUS
                        /\ NoCpu \notin CPUS
                        /\ MayPanic \in BOOLEAN

VARIABLES locked,      \* kernel_lock.locked
          lockcpu,     \* kernel_lock.cpu
          cpu_status,  \* cpus[c].cpu_status
          panicstr,    \* whether panicstr is set
          pc,          \* where each CPU is
          ret,         \* where its call of spin_lock or spin_unlock returns to
          tf_cs,       \* mode the CPU's last trap came from: "user" or "kernel"
          toBoot       \* CPUs that the loop of boot_aps() has not started yet

vars == <<locked, lockcpu, cpu_status, panicstr, pc, ret, tf_cs, toBoot>>

\* Program points that lie inside a kernel_lock critical section.
Critical == {"boot_aps", "boot_wait", "kernel"}

Points == Critical \cup
          {"off", "i386_init", "mp_main",            \* before the first lock
           "spin_lock", "spin", "spin_own",          \* spin_lock()
           "spin_unlock", "spin_release",            \* spin_unlock()
           "user", "halted",                         \* outside the kernel
           "trap", "trap_status", "trap_mode",       \* trap(), before the lock
           "dead", "hlt"}                            \* monitor for ever; stopped

TypeOK == /\ locked \in BOOLEAN
          /\ lockcpu \in CPUS \cup {NoCpu}
          /\ cpu_status \in [CPUS -> {"CPU_UNUSED", "CPU_STARTED", "CPU_HALTED"}]
          /\ panicstr \in BOOLEAN
          /\ pc \in [CPUS -> Points]
          /\ ret \in [CPUS -> Points]
          /\ tf_cs \in [CPUS -> {"user", "kernel"}]
          /\ toBoot \in SUBSET CPUS

\* mp_init() marks the boot CPU started; i386_init runs on it with the APs
\* still waiting for their startup IPI.
Init == /\ locked = FALSE
        /\ lockcpu = NoCpu
        /\ cpu_status = [c \in CPUS |-> IF c = BSP THEN "CPU_STARTED" ELSE "CPU_UNUSED"]
        /\ panicstr = FALSE
        /\ pc = [c \in CPUS |-> IF c = BSP THEN "i386_init" ELSE "off"]
        /\ ret = [c \in CPUS |-> "off"]
        /\ tf_cs = [c \in CPUS |-> "kernel"]
        /\ toBoot = CPUS \ {BSP}

-----------------------------------------------------------------------------
(* Spinlocks *)

holding(c) == locked /\ lockcpu = c

goto(c, p) == pc' = [pc EXCEPT ![c] = p]

call(c, p, r) == /\ goto(c, p)
                 /\ ret' = [ret EXCEPT ![c] = r]

\* Sets panicstr unless it is set already; the CPU stays in the monitor.
panic(c) == /\ panicstr' = TRUE
            /\ goto(c, "dead")

\* spin_lock(): the debug check that the caller does not hold the lock.
spin_lock_check(c) ==
    /\ pc[c] = "spin_lock"
    /\ IF holding(c) THEN panic(c)
                     ELSE goto(c, "spin") /\ UNCHANGED panicstr
    /\ UNCHANGED <<locked, lockcpu, cpu_status, ret, tf_cs, toBoot>>

\* spin_lock(): the iteration of the xchg loop that finds the lock free.
spin_lock_xchg(c) ==
    /\ pc[c] = "spin"
    /\ ~locked
    /\ locked' = TRUE
    /\ goto(c, "spin_own")
    /\ UNCHANGED <<lockcpu, cpu_status, panicstr, ret, tf_cs, toBoot>>

\* spin_lock(): records the owner and returns.
spin_lock_own(c) ==
    /\ pc[c] = "spin_own"
    /\ lockcpu' = c
    /\ goto(c, ret[c])
    /\ UNCHANGED <<locked, cpu_status, panicstr, ret, tf_cs, toBoot>>

\* spin_unlock(): the debug check, then the owner field is cleared.
spin_unlock_check(c) ==
    /\ pc[c] = "spin_unlock"
    /\ IF holding(c)
       THEN lockcpu' = NoCpu /\ goto(c, "spin_release") /\ UNCHANGED panicstr
       ELSE panic(c) /\ UNCHANGED lockcpu
    /\ UNCHANGED <<locked, cpu_status, ret, tf_cs, toBoot>>

\* Mutant of spin_unlock_xchg: the final xchg is missing.
spin_unlock_xchg_Missing(c) ==
    /\ pc[c] = "spin_release"
    /\ goto(c, ret[c])
    /\ UNCHANGED <<locked, lockcpu, cpu_status, panicstr, ret, tf_cs, toBoot>>

\* spin_unlock(): the xchg that releases the lock.
spin_unlock_xchg(c) ==
    /\ pc[c] = "spin_release"
    /\ locked' = FALSE
    /\ goto(c, ret[c])
    /\ UNCHANGED <<lockcpu, cpu_status, panicstr, ret, tf_cs, toBoot>>

-----------------------------------------------------------------------------
(* Boot *)

\* The boot CPU takes the lock before it wakes the APs.
i386_init(c) ==
    /\ pc[c] = "i386_init"
    /\ call(c, "spin_lock", "boot_aps")
    /\ UNCHANGED <<locked, lockcpu, cpu_status, panicstr, tf_cs, toBoot>>

\* boot_aps(): sends the startup IPI to the next AP (the order of cpus[] is
\* left open), or, when the loop is done, goes on to create the first environments and to schedule.
boot_aps(c) ==
    /\ pc[c] = "boot_aps"
    /\ \/ \E a \in toBoot :
            /\ pc' = [pc EXCEPT ![c] = "boot_wait", ![a] = "mp_main"]
            /\ toBoot' = toBoot \ {a}
       \/ /\ toBoot = {}
          /\ goto(c, "kernel")
          /\ UNCHANGED toBoot
    /\ UNCHANGED <<locked, lockcpu, cpu_status, panicstr, ret, tf_cs>>

\* boot_aps(): the wait for the AP's cpu_status to become CPU_STARTED.  (The
\* APs started before it are CPU_STARTED too: they are waiting for the lock.)
boot_aps_wait(c) ==
    /\ pc[c] = "boot_wait"
    /\ \A a \in CPUS \ toBoot : cpu_status[a] = "CPU_STARTED"
    /\ goto(c, "boot_aps")
    /\ UNCHANGED <<locked, lockcpu, cpu_status, panicstr, ret, tf_cs, toBoot>>

\* Mutant of mp_main: the AP takes the lock before it announces itself.
mp_main_LockFirst(c) ==
    /\ pc[c] = "mp_main"
    /\ call(c, "spin_lock", "kernel")
    /\ UNCHANGED <<locked, lockcpu, cpu_status, panicstr, tf_cs, toBoot>>

\* An AP announces itself first and only then takes the lock.
mp_main(c) ==
    /\ pc[c] = "mp_main"
    /\ cpu_status' = [cpu_status EXCEPT ![c] = "CPU_STARTED"]
    /\ call(c, "spin_lock", "kernel")
    /\ UNCHANGED <<locked, lockcpu, panicstr, tf_cs, toBoot>>

-----------------------------------------------------------------------------
(* Leaving the kernel *)

\* env_run(): releases the lock and drops to user mode.
env_run(c) ==
    /\ pc[c] = "kernel"
    /\ call(c, "spin_unlock", "user")
    /\ UNCHANGED <<locked, lockcpu, cpu_status, panicstr, tf_cs, toBoot>>

\* Mutant of sched_halt: the CPU is not marked CPU_HALTED.
sched_halt_NotMarked(c) ==
    /\ pc[c] = "kernel"
    /\ call(c, "spin_unlock", "halted")
    /\ UNCHANGED <<locked, lockcpu, cpu_status, panicstr, tf_cs, toBoot>>

\* sched_halt(): marks the CPU halted, releases the lock and waits for an
\* interrupt with interrupts enabled.
sched_halt(c) ==
    /\ pc[c] = "kernel"
    /\ cpu_status' = [cpu_status EXCEPT ![c] = "CPU_HALTED"]
    /\ call(c, "spin_unlock", "halted")
    /\ UNCHANGED <<locked, lockcpu, panicstr, tf_cs, toBoot>>

\* Mutant of kernel_panic: the monitor is entered with the lock released.
kernel_panic_Unlocks(c) ==
    /\ MayPanic
    /\ pc[c] = "kernel"
    /\ panic(c)
    /\ locked' = FALSE
    /\ UNCHANGED <<lockcpu, cpu_status, ret, tf_cs, toBoot>>

\* A failed assertion or an explicit panic() in kernel code.
kernel_panic(c) ==
    /\ MayPanic
    /\ pc[c] = "kernel"
    /\ panic(c)
    /\ UNCHANGED <<locked, lockcpu, cpu_status, ret, tf_cs, toBoot>>

-----------------------------------------------------------------------------
(* Entering the kernel *)

\* An interrupt, exception or system call.  All gates are interrupt gates, so
\* no further trap is taken until the CPU is back in user mode or halted.
interrupt(c) ==
    /\ pc[c] \in {"user", "halted"}
    /\ tf_cs' = [tf_cs EXCEPT ![c] = IF pc[c] = "user" THEN "user" ELSE "kernel"]
    /\ goto(c, "trap")
    /\ UNCHANGED <<locked, lockcpu, cpu_status, panicstr, ret, toBoot>>

\* trap(): stops the CPU if another one has panicked.
trap_panicstr(c) ==
    /\ pc[c] = "trap"
    /\ goto(c, IF panicstr THEN "hlt" ELSE "trap_status")
    /\ UNCHANGED <<locked, lockcpu, cpu_status, panicstr, ret, tf_cs, toBoot>>

\* Mutant of trap_status: a CPU that was halted does not re-acquire the lock.
trap_status_NoLock(c) ==
    /\ pc[c] = "trap_status"
    /\ cpu_status' = [cpu_status EXCEPT ![c] = "CPU_STARTED"]
    /\ goto(c, "trap_mode")
    /\ UNCHANGED <<locked, lockcpu, panicstr, ret, tf_cs, toBoot>>

\* trap(): takes the lock if the CPU was halted.
trap_status(c) ==
    /\ pc[c] = "trap_status"
    /\ cpu_status' = [cpu_status EXCEPT ![c] = "CPU_STARTED"]
    /\ IF cpu_status[c] = "CPU_HALTED"
       THEN call(c, "spin_lock", "trap_mode")
       ELSE goto(c, "trap_mode") /\ UNCHANGED ret
    /\ UNCHANGED <<locked, lockcpu, panicstr, tf_cs, toBoot>>

\* trap(): takes the lock if the trap came from user mode.
trap_mode(c) ==
    /\ pc[c] = "trap_mode"
    /\ IF tf_cs[c] = "user"
       THEN call(c, "spin_lock", "kernel")
       ELSE goto(c, "kernel") /\ UNCHANGED ret
    /\ UNCHANGED <<locked, lockcpu, cpu_status, panicstr, tf_cs, toBoot>>

-----------------------------------------------------------------------------

Step(c) == \/ spin_lock_check(c) \/ spin_lock_xchg(c) \/ spin_lock_own(c)
           \/ spin_unlock_check(c) \/ spin_unlock_xchg(c)
           \/ i386_init(c) \/ boot_aps(c) \/ boot_aps_wait(c) \/ mp_main(c)
           \/ env_run(c) \/ sched_halt(c) \/ kernel_panic(c)
           \/ interrupt(c) \/ trap_panicstr(c) \/ trap_status(c) \/ trap_mode(c)

Next == \E c \in CPUS : Step(c)

Spec == Init /\ [][Next]_vars

\* Every CPU keeps executing: its instructions complete, kernel code returns,
\* and the periodic LAPIC timer interrupts user code and the HALT state.
FairSpec == Spec /\ \A c \in CPUS : WF_vars(Step(c))

-----------------------------------------------------------------------------
(* Properties *)

\* CPU c executes code that the lock protects: a program point of the kernel,
\* or the stretch of spin_unlock or of trap() that runs with the lock taken.
InKernel(c) == \/ pc[c] \in Critical \cup {"spin_unlock"}
               \/ pc[c] = "trap_mode" /\ tf_cs[c] = "kernel"

\* At most one CPU is inside the kernel.
MutualExclusion == \A c, d \in CPUS : InKernel(c) /\ InKernel(d) => c = d

\* The debug checks of spin_lock and spin_unlock never fire: no path takes the
\* lock twice (the two lock_kernel() calls of trap() exclude each other) and no
\* path out of the kernel releases a lock it does not own.
NoLockPanic == \A c \in CPUS : /\ pc[c] = "spin_lock" => ~holding(c)
                               /\ pc[c] = "spin_unlock" => holding(c)

\* A CPU that panicked did so with the lock held, and keeps it: no other CPU
\* is in the kernel then, or ever enters it again ("Halt the CPU if some other
\* CPU has called panic()").
PanicKeepsOthersOut ==
    \A c, d \in CPUS : pc[c] = "dead" /\ InKernel(d) => c = d

\* A CPU has panicked; the machine stops.
Panicked == \E c \in CPUS : pc[c] = "dead"

\* Every CPU is started, unless the kernel panics: the boot CPU, which waits
\* for each AP with the kernel lock held, is never waited for by the AP it
\* waits for.
BootCompletes == <>(Panicked \/ \A c \in CPUS : cpu_status[c] # "CPU_UNUSED")

\* The lock is never lost: whenever some CPU spins on it, some CPU gets in,
\* unless the kernel panics.
LockProgress == (\E c \in CPUS : pc[c] = "spin")
                   ~> (Panicked \/ \E c \in CPUS : pc[c] = "kernel")
=============================================================================
