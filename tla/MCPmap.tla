------------------------------- MODULE MCPmap -------------------------------
(* Pmap on one or two CPUs, two environments and a handful of pages. *)
EXTENDS Pmap, TLC

CONSTANTS cpu0, cpu1, env0, env1, p1, p2, p3, p4, p5

MC_CPU1 == {cpu0}
MC_CPU2 == {cpu0, cpu1}
MC_Envs2 == {env0, env1}
MC_Pages5 == {p1, p2, p3, p4, p5}

\* Two pages of one page table; a page each of two page tables.
MC_OneTable == {<<0, 0>>, <<0, 1>>}
MC_TwoTables == {<<0, 0>>, <<1, 0>>}

MC_Symmetry == Permutations(Pages) \cup Permutations(CPUS)
=============================================================================
