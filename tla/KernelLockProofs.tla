-------------------------- MODULE KernelLockProofs --------------------------
(* Safety of the big kernel lock, for any number of CPUs. *)
EXTENDS KernelLock, TLAPS

\* CPU c has won the xchg of spin_lock and has not yet done the one of
\* spin_unlock; a CPU that panicked in the kernel stays here for ever.
Owns(c) == \/ pc[c] \in Critical \cup {"spin_own", "spin_unlock", "spin_release", "dead"}
           \/ pc[c] = "trap_mode" /\ tf_cs[c] = "kernel"

\* What a CPU's cpu_status is at each point of its path.  trap() relies on it
\* to decide which of its two lock_kernel() calls to make.
StatusInv(c) ==
    /\ pc[c] \in Critical \cup {"i386_init", "spin_lock", "spin", "spin_own", "trap_mode", "user"}
          => cpu_status[c] = "CPU_STARTED"
    /\ pc[c] = "halted" => cpu_status[c] = "CPU_HALTED"
    /\ pc[c] \in {"trap", "trap_status"}
          => cpu_status[c] = IF tf_cs[c] = "user" THEN "CPU_STARTED" ELSE "CPU_HALTED"
    /\ pc[c] \in {"spin_unlock", "spin_release"}
          => cpu_status[c] = IF ret[c] = "user" THEN "CPU_STARTED" ELSE "CPU_HALTED"

\* Where a CPU that is inside spin_lock or spin_unlock will return to.
ReturnInv(c) ==
    /\ pc[c] \in {"spin_lock", "spin", "spin_own"}
          => \/ ret[c] \in {"boot_aps", "kernel"}
             \/ ret[c] = "trap_mode" /\ tf_cs[c] = "kernel"
    /\ pc[c] \in {"spin_unlock", "spin_release"} => ret[c] \in {"user", "halted"}

IInv == /\ TypeOK
        /\ \A c, d \in CPUS : Owns(c) /\ Owns(d) => c = d
        /\ \A c \in CPUS : Owns(c) => locked
        /\ \A c \in CPUS : lockcpu = c <=> Owns(c) /\ pc[c] \notin {"spin_own", "spin_release"}
        /\ \A c \in CPUS : ReturnInv(c) /\ StatusInv(c)
        /\ \A c \in toBoot : pc[c] = "off"

-----------------------------------------------------------------------------

\* The state in which i386_init() starts the machine satisfies the invariant.
LEMMA InitIInv == Init => IInv
  <1> SUFFICES ASSUME Init PROVE IInv
    OBVIOUS
  <1>1. TypeOK
    BY CpuAssumption, Zenon DEF CpuAssumption, Init, TypeOK, Points, Critical
  <1>2. \A c \in CPUS : pc[c] = IF c = BSP THEN "i386_init" ELSE "off"
    BY DEF Init
  <1>3. \A c \in CPUS : ~Owns(c)
    BY <1>2 DEF Owns, Critical
  <1>4. \A c \in CPUS : ReturnInv(c) /\ StatusInv(c)
    BY <1>2 DEF Init, ReturnInv, StatusInv, Critical
  <1>5. \A c \in CPUS : lockcpu # c
    BY CpuAssumption DEF CpuAssumption, Init
  <1>6. \A c \in toBoot : pc[c] = "off"
    BY <1>2 DEF Init
  <1> QED
    BY <1>1, <1>3, <1>4, <1>5, <1>6 DEF IInv

\* The steps of one CPU preserve the invariant.
LEMMA StepIInv == ASSUME IInv, NEW c \in CPUS, Step(c) PROVE IInv'
  <1> USE CpuAssumption DEF CpuAssumption, IInv, TypeOK, Points, Critical, Owns, StatusInv, ReturnInv, goto, call
  <1>1. CASE spin_lock_check(c)
    <2>1. ~holding(c)
      BY <1>1 DEF spin_lock_check, holding
    <2> QED
      BY <1>1, <2>1 DEF spin_lock_check
  <1>2. CASE spin_lock_xchg(c)
    BY <1>2 DEF spin_lock_xchg
  <1>3. CASE spin_lock_own(c)
    BY <1>3 DEF spin_lock_own
  <1>4. CASE spin_unlock_check(c)
    <2>1. holding(c)
      BY <1>4 DEF spin_unlock_check, holding
    <2> QED
      BY <1>4, <2>1 DEF spin_unlock_check
  <1>5. CASE spin_unlock_xchg(c)
    <2>1. ret[c] \in {"user", "halted"}
      BY <1>5 DEF spin_unlock_xchg
    <2>2. \A d \in CPUS : ~Owns(d)'
      <3> SUFFICES ASSUME NEW d \in CPUS PROVE ~Owns(d)'
        OBVIOUS
      <3>1. CASE d = c
        BY <1>5, <2>1, <3>1 DEF spin_unlock_xchg
      <3>2. CASE d # c
        BY <1>5, <3>2 DEF spin_unlock_xchg
      <3> QED
        BY <3>1, <3>2
    <2>3. \A d \in CPUS : lockcpu' # d
      BY <1>5 DEF spin_unlock_xchg
    <2>4. TypeOK'
      BY <1>5, <2>1, Zenon DEF spin_unlock_xchg
    <2>5. \A d \in CPUS \ {c} : (ReturnInv(d) /\ StatusInv(d))'
      BY <1>5 DEF spin_unlock_xchg
    <2>6. (ReturnInv(c) /\ StatusInv(c))'
      BY <1>5, <2>1 DEF spin_unlock_xchg
    <2>7. \A d \in toBoot' : pc'[d] = "off"
      BY <1>5 DEF spin_unlock_xchg
    <2> QED
      BY <2>2, <2>3, <2>4, <2>5, <2>6, <2>7
  <1>6. CASE i386_init(c)
    BY <1>6 DEF i386_init
  <1>7. CASE boot_aps(c)
    BY <1>7 DEF boot_aps
  <1>8. CASE boot_aps_wait(c)
    BY <1>8 DEF boot_aps_wait
  <1>9. CASE mp_main(c)
    BY <1>9 DEF mp_main
  <1>10. CASE env_run(c)
    BY <1>10 DEF env_run
  <1>11. CASE sched_halt(c)
    BY <1>11 DEF sched_halt
  <1>12. CASE kernel_panic(c)
    BY <1>12 DEF kernel_panic, panic
  <1>13. CASE interrupt(c)
    BY <1>13 DEF interrupt
  <1>14. CASE trap_panicstr(c)
    BY <1>14 DEF trap_panicstr
  <1>15. CASE trap_status(c)
    BY <1>15 DEF trap_status
  <1>16. CASE trap_mode(c)
    BY <1>16 DEF trap_mode
  <1> QED
    BY <1>1, <1>2, <1>3, <1>4, <1>5, <1>6, <1>7, <1>8, <1>9, <1>10, <1>11, <1>12,
       <1>13, <1>14, <1>15, <1>16, ZenonT(30) DEF Step

\* The inductive invariant holds throughout: who owns the lock, what cpu_status
\* says of a CPU, and which CPUs are still off, fit the program points of
\* spin_lock, spin_unlock, trap, boot_aps and mp_main.
THEOREM Invariance == Spec => []IInv
  <1>1. IInv /\ [Next]_vars => IInv'
    <2> SUFFICES ASSUME IInv, [Next]_vars PROVE IInv'
      OBVIOUS
    <2>1. CASE Next
      BY <2>1, StepIInv DEF Next
    <2>2. CASE UNCHANGED vars
      BY <2>2 DEF vars, IInv, TypeOK, Owns, StatusInv, ReturnInv
    <2> QED
      BY <2>1, <2>2
  <1> QED
    BY InitIInv, <1>1, PTL DEF Spec

-----------------------------------------------------------------------------

\* lk.locked, lk.cpu, cpu_status and the program points keep their types.
THEOREM KernelLockTypes == Spec => []TypeOK
  <1>1. IInv => TypeOK
    BY DEF IInv
  <1> QED
    BY Invariance, <1>1, PTL

\* At most one CPU executes code that the big kernel lock protects.
THEOREM MutualExclusionHolds == Spec => []MutualExclusion
  <1>1. IInv => MutualExclusion
    BY DEF IInv, MutualExclusion, InKernel, Owns
  <1> QED
    BY Invariance, <1>1, PTL

\* The debug assertions in spin_lock and spin_unlock never fire, whichever way
\* a CPU entered the kernel.
THEOREM NoLockPanicHolds == Spec => []NoLockPanic
  <1>1. IInv => NoLockPanic
    BY DEF IInv, NoLockPanic, holding, Owns, Critical
  <1> QED
    BY Invariance, <1>1, PTL

\* A CPU in panic() shuts every other CPU out of the kernel.
THEOREM PanicKeepsOthersOutHolds == Spec => []PanicKeepsOthersOut
  <1>1. IInv => PanicKeepsOthersOut
    BY DEF IInv, PanicKeepsOthersOut, InKernel, Owns
  <1> QED
    BY Invariance, <1>1, PTL
=============================================================================
