---------------------------- MODULE MCKernelLock ----------------------------
(* KernelLock on three CPUs. *)
EXTENDS KernelLock

CONSTANTS cpu0, cpu1, cpu2

MC_CPUS == {cpu0, cpu1, cpu2}
=============================================================================
