----------------------------- MODULE EnvProofs ------------------------------
(***************************************************************************)
(* The env table is consistent with what the CPUs execute, for any number   *)
(* of CPUs and environments, as long as user programs keep the contract     *)
(* (Lapses = {}).                                                           *)
(***************************************************************************)
EXTENDS Env, TLAPS

\* Where curenv points.
CurenvInv == \A c \in CPUS : /\ User(c) => curenv[c] \in Envs
                             /\ cpu[c] \in {"boot", "halted"} => curenv[c] = NULL

\* The properties that the runs check support each other: together with
\* CurenvInv they are inductive.
IInv == /\ TypeOK
        /\ CurenvInv
        /\ SingleCpu
        /\ StatusMatchesCpus
        /\ FreeListExact
        /\ WaitersAreBlocked
        /\ MonitorMeansIdle
        /\ NoPanic

-----------------------------------------------------------------------------
(* The free list *)

\* Taking the head of a duplicate-free list (env_alloc) removes exactly that element.
LEMMA Pop ==
    ASSUME NEW S, NEW s \in Seq(S), s # <<>>,
           \A i, j \in 1 .. Len(s) : s[i] = s[j] => i = j
    PROVE  /\ Head(s) \in Elems(s)
           /\ Tail(s) \in Seq(S)
           /\ Elems(Tail(s)) = Elems(s) \ {Head(s)}
           /\ \A i, j \in 1 .. Len(Tail(s)) : Tail(s)[i] = Tail(s)[j] => i = j
  <1>1. Len(s) \in Nat /\ Len(s) > 0
    OBVIOUS
  <1>2. Head(s) = s[1]
    OBVIOUS
  <1>3. Tail(s) \in Seq(S) /\ Len(Tail(s)) = Len(s) - 1
    OBVIOUS
  <1>4. \A i \in 1 .. Len(s) - 1 : Tail(s)[i] = s[i + 1]
    BY <1>1
  <1>5. Elems(Tail(s)) = Elems(s) \ {Head(s)}
    <2>1. ASSUME NEW x \in Elems(Tail(s)) PROVE x \in Elems(s) \ {Head(s)}
      BY <1>1, <1>2, <1>3, <1>4 DEF Elems
    <2>2. ASSUME NEW x \in Elems(s) \ {Head(s)} PROVE x \in Elems(Tail(s))
      <3>1. PICK i \in 1 .. Len(s) : x = s[i]
        BY Zenon DEF Elems
      <3>2. i - 1 \in 1 .. Len(Tail(s)) /\ Tail(s)[i - 1] = x
        BY <1>1, <1>2, <1>3, <1>4, <3>1
      <3> QED
        BY <3>2, Zenon DEF Elems
    <2> QED
      BY <2>1, <2>2, Zenon
  <1>6. Head(s) \in Elems(s)
    BY <1>1, <1>2 DEF Elems
  <1> QED
    BY <1>1, <1>3, <1>4, <1>5, <1>6

\* Putting a new element in front (env_free) adds exactly that element.
LEMMA Push ==
    ASSUME NEW S, NEW s \in Seq(S), NEW x \in S, x \notin Elems(s),
           \A i, j \in 1 .. Len(s) : s[i] = s[j] => i = j
    PROVE  /\ <<x>> \o s \in Seq(S)
           /\ Elems(<<x>> \o s) = Elems(s) \cup {x}
           /\ \A i, j \in 1 .. Len(<<x>> \o s) : (<<x>> \o s)[i] = (<<x>> \o s)[j] => i = j
  <1> DEFINE t == <<x>> \o s
  <1>1. Len(s) \in Nat /\ t \in Seq(S) /\ Len(t) = Len(s) + 1
    OBVIOUS
  <1>2. t[1] = x /\ \A i \in 1 .. Len(s) : t[i + 1] = s[i]
    OBVIOUS
  <1>3. \A i \in 2 .. Len(t) : i - 1 \in 1 .. Len(s) /\ t[i] = s[i - 1]
    BY <1>1
  <1> HIDE DEF t
  <1>4. Elems(t) = Elems(s) \cup {x}
    <2>1. ASSUME NEW y \in Elems(t) PROVE y \in Elems(s) \cup {x}
      <3>1. PICK i \in 1 .. Len(t) : y = t[i]
        BY Zenon DEF Elems
      <3>2. CASE i = 1
        BY <1>2, <3>1, <3>2, Zenon
      <3>3. CASE i # 1
        <4>1. i \in 2 .. Len(t)
          BY <1>1, <3>3
        <4>2. i - 1 \in 1 .. Len(s) /\ y = s[i - 1]
          BY <1>3, <3>1, <4>1, Zenon
        <4> QED
          BY <4>2, Zenon DEF Elems
      <3> QED
        BY <3>2, <3>3, Zenon
    <2>2. ASSUME NEW y \in Elems(s) PROVE y \in Elems(t)
      <3>1. PICK i \in 1 .. Len(s) : y = s[i]
        BY Zenon DEF Elems
      <3>2. i + 1 \in 1 .. Len(t) /\ t[i + 1] = y
        BY <1>1, <1>2, <3>1
      <3> QED
        BY <3>2, Zenon DEF Elems
    <2>3. x \in Elems(t)
      BY <1>1, <1>2 DEF Elems
    <2> QED
      BY <2>1, <2>2, <2>3, Zenon
  <1>5. ASSUME NEW i \in 1 .. Len(t), NEW j \in 1 .. Len(t), t[i] = t[j] PROVE i = j
    <2>1. ASSUME NEW k \in 2 .. Len(t) PROVE t[k] # x
      <3>1. k - 1 \in 1 .. Len(s) /\ t[k] = s[k - 1]
        BY <1>3, Zenon
      <3>2. s[k - 1] \in Elems(s)
        BY <3>1, Zenon DEF Elems
      <3> QED
        BY <3>1, <3>2, Zenon
    <2>2. CASE i = 1 \/ j = 1
      BY <1>1, <1>2, <1>5, <2>1, <2>2
    <2>3. CASE i # 1 /\ j # 1
      <3>1. i - 1 \in 1 .. Len(s) /\ j - 1 \in 1 .. Len(s) /\ s[i - 1] = s[j - 1]
        BY <1>1, <1>3, <1>5, <2>3
      <3> QED
        BY <3>1
    <2> QED
      BY <2>2, <2>3, Zenon
  <1> QED
    BY <1>1, <1>4, <1>5, Zenon DEF t

-----------------------------------------------------------------------------
(* Leaving the kernel *)

\* CPU c is in the kernel and about to leave it.  Its current environment is cur
\* and the fields st, wt describe the env table; every other CPU executes an
\* environment of its own, and cur is the only one whose RUNNING status may
\* still stand for c itself.
Leaving(c, cur, st, wt) ==
    /\ cur \in Envs \cup {NULL}
    /\ st \in [Envs -> Status]
    /\ wt \in [Envs -> BOOLEAN]
    /\ \A d \in CPUS \ {c} :
          User(d) => st[curenv[d]] \in {"RUNNING", "DYING"} /\ curenv[d] # cur
    /\ \A e \in Envs : st[e] \in {"RUNNING", "DYING"} =>
          \/ e = cur /\ st[e] = "RUNNING"
          \/ \E d \in CPUS \ {c} : User(d) /\ curenv[d] = e
    /\ \A e \in Envs : wt[e] => st[e] = "NOT_RUNNABLE" /\ ~env_ipc_recving'[e]
    /\ \A e \in Envs : env_ipc_recving'[e] => st[e] \in {"NOT_RUNNABLE", "FREE"}
    /\ \A e \in Envs : env_pgdir'[e] <=> st[e] # "FREE"
    /\ Elems(env_free_list') = {e \in Envs : st[e] = "FREE"}

\* What the step that leaves the kernel has already decided.
TableOK == /\ env_id' \in [Envs -> 0 .. MaxGen]
           /\ env_parent_id' \in [Envs -> (Envs \X (0 .. MaxGen)) \cup {NULL}]
           /\ env_pgdir' \in [Envs -> BOOLEAN]
           /\ env_ipc_recving' \in [Envs -> BOOLEAN]
           /\ env_free_list' \in Seq(Envs)
           /\ \A i, j \in 1 .. Len(env_free_list') :
                 env_free_list'[i] = env_free_list'[j] => i = j

\* What a CPU that leaves the kernel preserves: the dead stay dead, and it goes
\* on with an environment that is RUNNING, or with none, or it stops.
Kept(c, cur, st) == /\ \A x \in Envs : st[x] \in {"DYING", "FREE"} => env_status'[x] = st[x]
                    /\ curenv'[c] \in {NULL, cur} \/ env_status'[curenv'[c]] = "RUNNING"

\* env_run() keeps the table consistent if its target is blocked for nothing, or
\* is the CPU's own environment.
LEMMA EnvRun ==
    ASSUME IInv, ~Stopped, TableOK,
           NEW c \in CPUS, NEW STATE cur, NEW STATE st, NEW STATE wt, NEW e \in Envs,
           Leaving(c, cur, st, wt),
           \/ st[e] \in {"RUNNABLE", "NOT_RUNNABLE"} /\ ~wt[e] /\ ~env_ipc_recving'[e]
           \/ e = cur /\ st[e] = "RUNNING",
           env_run(c, cur, e, st, wt)
    PROVE  IInv' /\ Kept(c, cur, st)
  <1> DEFINE old == IF cur # NULL /\ st[cur] = "RUNNING"
                    THEN [st EXCEPT ![cur] = "RUNNABLE"] ELSE st
  <1>1. /\ old \in [Envs -> Status]
        /\ env_status' = [old EXCEPT ![e] = "RUNNING"]
        /\ curenv' = [curenv EXCEPT ![c] = e]
        /\ env_e1000_waiting_rx' = wt
    BY Zenon DEF env_run, Leaving, Status
  <1>2. env_pgdir'[e] /\ st[e] # "FREE"
    BY Zenon DEF Leaving
  <1>3. cpu' = [cpu EXCEPT ![c] = "user"] /\ panicstr' = FALSE
    BY <1>2, Zenon DEF env_run, IInv, NoPanic
  <1>4. TypeOK'
    BY <1>1, <1>3, Zenon DEF IInv, TypeOK, TableOK, Leaving, Status
  <1>5. \A x \in Envs : /\ x # e /\ x # cur => env_status'[x] = st[x]
                        /\ x = e => env_status'[x] = "RUNNING"
                        /\ x = cur /\ x # e => env_status'[x] =
                              IF st[x] = "RUNNING" THEN "RUNNABLE" ELSE st[x]
    BY <1>1, EnvAssumption DEF Leaving, EnvAssumption
  <1>6. \A d \in CPUS : /\ d # c => User(d)' = User(d) /\ curenv'[d] = curenv[d]
                        /\ d = c => User(d)' /\ curenv'[d] = e
    BY <1>1, <1>3, Zenon DEF User, IInv, TypeOK
  <1>7. \A d \in CPUS \ {c} : User(d) => curenv[d] \in Envs /\ curenv[d] # e /\ curenv[d] # cur
    BY DEF Leaving, IInv, CurenvInv
  <1>8. CurenvInv'
    BY <1>1, <1>3, <1>6, <1>7, Zenon DEF CurenvInv, IInv, TypeOK
  <1>9. SingleCpu'
    BY <1>6, <1>7, Zenon DEF SingleCpu, IInv
  <1>10. StatusMatchesCpus'
    <2>1. ASSUME NEW d \in CPUS, User(d)' PROVE env_status'[curenv'[d]] \in {"RUNNING", "DYING"}
      BY <1>5, <1>6, <1>7, <2>1 DEF Leaving
    <2>2. ASSUME NEW x \in Envs, env_status'[x] \in {"RUNNING", "DYING"}
          PROVE  \E d \in CPUS : User(d)' /\ curenv'[d] = x
      <3>1. CASE x = e
        BY <1>6, <3>1, Zenon
      <3>2. CASE x # e
        <4>1. st[x] \in {"RUNNING", "DYING"} /\ ~(x = cur /\ st[x] = "RUNNING")
          BY <1>5, <2>2, <3>2, Zenon
        <4>2. PICK d \in CPUS \ {c} : User(d) /\ curenv[d] = x
          BY <4>1, Zenon DEF Leaving
        <4> QED
          BY <1>6, <4>2, Zenon
      <3> QED
        BY <3>1, <3>2, Zenon
    <2> QED
      BY <2>1, <2>2, Zenon DEF StatusMatchesCpus
  <1>11. \A x \in Envs : env_status'[x] = "FREE" <=> st[x] = "FREE"
    BY <1>2, <1>5, Zenon
  <1>12. FreeListExact'
    BY <1>11, Zenon DEF FreeListExact, Leaving, TableOK
  <1>13. WaitersAreBlocked'
    BY <1>1, <1>5 DEF WaitersAreBlocked, Leaving
  <1>14. NoPanic' /\ MonitorMeansIdle'
    BY <1>3, Zenon DEF NoPanic, MonitorMeansIdle, Stopped, User, IInv, TypeOK
  <1>15. Kept(c, cur, st)
    BY <1>1, <1>5, Zenon DEF Kept, IInv, TypeOK
  <1> QED
    BY <1>4, <1>8, <1>9, <1>10, <1>12, <1>13, <1>14, <1>15, Zenon DEF IInv

\* sched_halt() keeps the table consistent: it gives up only if nobody runs.
LEMMA SchedHalt ==
    ASSUME IInv, ~Stopped, TableOK,
           NEW c \in CPUS, NEW STATE cur, NEW STATE st, NEW STATE wt,
           Leaving(c, cur, st, wt),
           cur # NULL => st[cur] # "RUNNING",
           sched_halt(c, cur, st, wt)
    PROVE  IInv' /\ Kept(c, cur, st)
  <1>1. env_status' = st /\ env_e1000_waiting_rx' = wt /\ panicstr' = FALSE
    BY Zenon DEF sched_halt, IInv, NoPanic, TypeOK
  <1>2. /\ cpu' \in [CPUS -> {"boot", "user", "halted", "monitor"}]
        /\ curenv' \in [CPUS -> Envs \cup {NULL}]
        /\ ~User(c)'
        /\ \/ cpu'[c] = "halted" /\ curenv'[c] = NULL
           \/ cpu'[c] = "monitor" /\ \A e \in Envs : st[e] \notin {"RUNNABLE", "RUNNING", "DYING"}
    <2>1. CASE \E e \in Envs : st[e] \in {"RUNNABLE", "RUNNING", "DYING"}
      <3>1. cpu' = [cpu EXCEPT ![c] = "halted"] /\ curenv' = [curenv EXCEPT ![c] = NULL]
        BY <2>1, Zenon DEF sched_halt
      <3> QED
        BY <3>1, Zenon DEF IInv, TypeOK, User
    <2>2. CASE ~\E e \in Envs : st[e] \in {"RUNNABLE", "RUNNING", "DYING"}
      <3>1. cpu' = [cpu EXCEPT ![c] = "monitor"] /\ curenv' = [curenv EXCEPT ![c] = cur]
        BY <2>2, Zenon DEF sched_halt
      <3> QED
        BY <2>2, <3>1 DEF IInv, TypeOK, Leaving, User
    <2> QED
      BY <2>1, <2>2, Zenon
  <1>3. \A d \in CPUS \ {c} : cpu'[d] = cpu[d] /\ curenv'[d] = curenv[d] /\ User(d)' = User(d)
    BY Zenon DEF sched_halt, IInv, TypeOK, User
  <1>4. TypeOK'
    BY <1>1, <1>2, Zenon DEF TypeOK, TableOK, Leaving
  <1>5. CurenvInv'
    BY <1>2, <1>3, Zenon DEF CurenvInv, IInv
  <1>6. SingleCpu'
    BY <1>2, <1>3, Zenon DEF SingleCpu, IInv
  <1>7. StatusMatchesCpus'
    <2>1. ASSUME NEW d \in CPUS, User(d)' PROVE env_status'[curenv'[d]] \in {"RUNNING", "DYING"}
      BY <1>1, <1>2, <1>3, <2>1, Zenon DEF Leaving
    <2>2. ASSUME NEW x \in Envs, env_status'[x] \in {"RUNNING", "DYING"}
          PROVE  \E d \in CPUS : User(d)' /\ curenv'[d] = x
      <3>1. PICK d \in CPUS \ {c} : User(d) /\ curenv[d] = x
        BY <1>1, <2>2, EnvAssumption DEF Leaving, EnvAssumption
      <3> QED
        BY <1>3, <3>1, Zenon
    <2> QED
      BY <2>1, <2>2, Zenon DEF StatusMatchesCpus
  <1>8. FreeListExact'
    BY <1>1, Zenon DEF FreeListExact, Leaving, TableOK
  <1>9. WaitersAreBlocked'
    BY <1>1, Zenon DEF WaitersAreBlocked, Leaving
  <1>10. MonitorMeansIdle'
    <2>1. ASSUME NEW d \in CPUS, User(d)', cpu'[c] = "monitor" PROVE FALSE
      BY <1>2, <1>3, <2>1 DEF Leaving, IInv, CurenvInv
    <2>2. cpu'[c] # "monitor" => ~Stopped'
      BY <1>3, Zenon DEF Stopped
    <2> QED
      BY <2>1, <2>2, Zenon DEF MonitorMeansIdle
  <1>11. Kept(c, cur, st)
    BY <1>1, Zenon DEF Kept, sched_halt, IInv, TypeOK
  <1> QED
    BY <1>1, <1>4, <1>5, <1>6, <1>7, <1>8, <1>9, <1>10, <1>11, Zenon DEF IInv, NoPanic

\* sched_yield() keeps the table consistent, whatever it picks.
LEMMA SchedYield ==
    ASSUME IInv, ~Stopped, TableOK,
           NEW c \in CPUS, NEW STATE cur, NEW STATE st, NEW STATE wt,
           Leaving(c, cur, st, wt),
           sched_yield(c, cur, st, wt)
    PROVE  IInv' /\ Kept(c, cur, st)
  <1>1. CASE \E e \in Envs : st[e] = "RUNNABLE" /\ env_run(c, cur, e, st, wt)
    <2>1. PICK e \in Envs : st[e] = "RUNNABLE" /\ env_run(c, cur, e, st, wt)
      BY <1>1, Zenon
    <2>2. ~wt[e] /\ ~env_ipc_recving'[e]
      BY <2>1, Zenon DEF Leaving
    <2> QED
      BY <2>1, <2>2, EnvRun, Zenon
  <1>2. CASE cur # NULL /\ st[cur] = "RUNNING" /\ env_run(c, cur, cur, st, wt)
    <2>1. cur \in Envs
      BY <1>2, Zenon DEF Leaving
    <2>2. PICK e \in Envs : e = cur
      BY <2>1, Zenon
    <2>3. st[e] = "RUNNING" /\ env_run(c, cur, e, st, wt)
      BY <1>2, <2>2, Zenon
    <2> QED
      BY <2>2, <2>3, EnvRun, Zenon
  <1>3. CASE \E e \in Envs : wt[e] /\ env_run(c, cur, e, st, [wt EXCEPT ![e] = FALSE])
    <2>1. PICK e \in Envs : wt[e] /\ env_run(c, cur, e, st, [wt EXCEPT ![e] = FALSE])
      BY Zenon, <1>3
    <2> DEFINE w == [wt EXCEPT ![e] = FALSE]
    <2>2. st[e] = "NOT_RUNNABLE" /\ ~env_ipc_recving'[e] /\ ~w[e]
      BY <2>1, Zenon DEF Leaving
    <2>3. Leaving(c, cur, st, w)
      BY DEF Leaving
    <2>4. env_run(c, cur, e, st, w)
      BY <2>1, Zenon
    <2> HIDE DEF w
    <2> QED
      BY <2>2, <2>3, <2>4, EnvRun, Zenon
  <1>4. CASE (cur # NULL => st[cur] # "RUNNING") /\ sched_halt(c, cur, st, wt)
    BY <1>4, SchedHalt, Zenon
  <1> QED
    BY <1>1, <1>2, <1>3, <1>4, Zenon DEF sched_yield

\* The end of trap() keeps the table consistent.
LEMMA TrapReturn ==
    ASSUME IInv, ~Stopped, TableOK,
           NEW c \in CPUS, NEW STATE cur, NEW STATE st, NEW STATE wt,
           Leaving(c, cur, st, wt),
           trap_return(c, cur, st, wt)
    PROVE  IInv' /\ Kept(c, cur, st)
  <1>1. CASE cur # NULL /\ st[cur] = "RUNNING"
    <2>1. PICK e \in Envs : e = cur
      BY <1>1, Zenon DEF Leaving
    <2>2. st[e] = "RUNNING" /\ env_run(c, cur, e, st, wt)
      BY <1>1, <2>1, Zenon DEF trap_return
    <2> QED
      BY <2>1, <2>2, EnvRun, Zenon
  <1>2. CASE ~(cur # NULL /\ st[cur] = "RUNNING")
    <2>1. sched_yield(c, cur, st, wt)
      BY <1>2, Zenon DEF trap_return
    <2> QED
      BY <2>1, SchedYield, Zenon
  <1> QED
    BY <1>1, <1>2, Zenon

\* So a CPU that leaves the kernel through sched_yield() ends no zombie, if the
\* trap has not ended it before.
LEMMA YieldKeeps ==
    ASSUME IInv, ~Stopped, TableOK,
           NEW c \in CPUS, NEW STATE cur, NEW STATE st, NEW STATE wt,
           Leaving(c, cur, st, wt),
           \A x \in Envs : env_status[x] = "DYING" => st[x] = "DYING",
           sched_yield(c, cur, st, wt)
    PROVE  IInv' /\ ZombieStep
  <1>1. IInv' /\ Kept(c, cur, st)
    BY SchedYield, Zenon
  <1> QED
    BY <1>1, Zenon DEF Kept, ZombieStep

\* Nor does one that leaves at the end of trap().
LEMMA ReturnKeeps ==
    ASSUME IInv, ~Stopped, TableOK,
           NEW c \in CPUS, NEW STATE cur, NEW STATE st, NEW STATE wt,
           Leaving(c, cur, st, wt),
           \A x \in Envs : env_status[x] = "DYING" => st[x] = "DYING",
           trap_return(c, cur, st, wt)
    PROVE  IInv' /\ ZombieStep
  <1>1. IInv' /\ Kept(c, cur, st)
    BY TrapReturn, Zenon
  <1> QED
    BY <1>1, Zenon DEF Kept, ZombieStep

-----------------------------------------------------------------------------
(* Entering the kernel *)

\* A CPU that enters the kernel, with no zombie to free, may leave it at once.
LEMMA Entered ==
    ASSUME IInv, ~Stopped, NEW c \in CPUS,
           User(c) => env_status[curenv[c]] # "DYING",
           UNCHANGED tableVars
    PROVE  /\ TableOK <=> env_ipc_recving' \in [Envs -> BOOLEAN]
           /\ UNCHANGED env_ipc_recving => Leaving(c, curenv[c], env_status, env_e1000_waiting_rx)
           /\ \A d \in CPUS \ {c} : User(d) => /\ curenv[d] \in Envs
                                              /\ env_status[curenv[d]] \in {"RUNNING", "DYING"}
                                              /\ curenv[d] # curenv[c]
           /\ curenv[c] \in Envs => User(c) /\ env_status[curenv[c]] = "RUNNING"
           /\ \A e \in Envs : env_status[e] \in {"RUNNING", "DYING"} =>
                \/ e = curenv[c] /\ env_status[e] = "RUNNING"
                \/ \E d \in CPUS \ {c} : User(d) /\ curenv[d] = e
  <1>1. /\ env_id' = env_id /\ env_parent_id' = env_parent_id
        /\ env_pgdir' = env_pgdir /\ env_free_list' = env_free_list
    BY Zenon DEF tableVars
  <1>2. TableOK <=> env_ipc_recving' \in [Envs -> BOOLEAN]
    BY <1>1, Zenon DEF TableOK, IInv, TypeOK, FreeListExact
  <1>3. cpu[c] \in {"boot", "user", "halted"}
    BY Zenon DEF Stopped, IInv, TypeOK
  <1>4. curenv[c] \in Envs => User(c) /\ env_status[curenv[c]] = "RUNNING"
    BY <1>3, EnvAssumption, Zenon DEF EnvAssumption, IInv, CurenvInv, StatusMatchesCpus, User
  <1>5. \A d \in CPUS \ {c} : User(d) => /\ curenv[d] \in Envs
                                       /\ env_status[curenv[d]] \in {"RUNNING", "DYING"}
                                       /\ curenv[d] # curenv[c]
    BY <1>4, Zenon DEF IInv, CurenvInv, StatusMatchesCpus, SingleCpu
  <1>6. \A e \in Envs : env_status[e] \in {"RUNNING", "DYING"} =>
                \/ e = curenv[c] /\ env_status[e] = "RUNNING"
                \/ \E d \in CPUS \ {c} : User(d) /\ curenv[d] = e
    BY <1>4, Zenon DEF IInv, StatusMatchesCpus
  <1>7. ASSUME UNCHANGED env_ipc_recving
        PROVE  Leaving(c, curenv[c], env_status, env_e1000_waiting_rx)
    <2>1. curenv[c] \in Envs \cup {NULL} /\ env_status \in [Envs -> Status]
          /\ env_e1000_waiting_rx \in [Envs -> BOOLEAN]
      BY Zenon DEF IInv, TypeOK
    <2>2. \A e \in Envs :
             /\ env_e1000_waiting_rx[e] => env_status[e] = "NOT_RUNNABLE" /\ ~env_ipc_recving'[e]
             /\ env_ipc_recving'[e] => env_status[e] \in {"NOT_RUNNABLE", "FREE"}
             /\ env_pgdir'[e] <=> env_status[e] # "FREE"
      BY <1>1, <1>7, Zenon DEF IInv, WaitersAreBlocked, FreeListExact
    <2>3. Elems(env_free_list') = {e \in Envs : env_status[e] = "FREE"}
      BY <1>1, Zenon DEF IInv, FreeListExact
    <2> QED
      BY <1>5, <1>6, <2>1, <2>2, <2>3, Zenon DEF Leaving
  <1> QED
    BY <1>2, <1>4, <1>5, <1>6, <1>7, Zenon

\* An environment that no other CPU executes is freed safely.
LEMMA Freed ==
    ASSUME IInv, ~Stopped, NEW c \in CPUS, NEW e \in Envs, NEW STATE cur,
           env_status[e] # "FREE", ~env_e1000_waiting_rx[e],
           \A d \in CPUS \ {c} : User(d) => curenv[d] # e,
           cur = IF e = curenv[c] THEN NULL ELSE curenv[c],
           User(c) => env_status[curenv[c]] # "DYING" \/ e = curenv[c],
           env_free(e)
    PROVE  TableOK /\ Leaving(c, cur, [env_status EXCEPT ![e] = "FREE"], env_e1000_waiting_rx)
  <1> DEFINE st == [env_status EXCEPT ![e] = "FREE"]
  <1>1. /\ env_id' = env_id /\ env_parent_id' = env_parent_id
        /\ env_ipc_recving' = env_ipc_recving
        /\ env_pgdir' = [env_pgdir EXCEPT ![e] = FALSE]
        /\ env_free_list' = <<e>> \o env_free_list
    BY Zenon DEF env_free
  <1>2. /\ env_free_list \in Seq(Envs) /\ e \notin Elems(env_free_list)
        /\ \A i, j \in 1 .. Len(env_free_list) : env_free_list[i] = env_free_list[j] => i = j
    BY Zenon DEF IInv, TypeOK, FreeListExact
  <1>3. /\ env_free_list' \in Seq(Envs)
        /\ Elems(env_free_list') = Elems(env_free_list) \cup {e}
        /\ \A i, j \in 1 .. Len(env_free_list') : env_free_list'[i] = env_free_list'[j] => i = j
    <2> DEFINE t == <<e>> \o env_free_list
    <2>1. /\ t \in Seq(Envs)
          /\ Elems(t) = Elems(env_free_list) \cup {e}
          /\ \A i, j \in 1 .. Len(t) : t[i] = t[j] => i = j
      BY <1>2, Push, Zenon
    <2>2. env_free_list' = t
      BY <1>1, Zenon
    <2> HIDE DEF t
    <2> QED
      BY <2>1, <2>2, Zenon
  <1>4. TableOK
    BY <1>1, <1>3, Zenon DEF TableOK, IInv, TypeOK
  <1>5. /\ st \in [Envs -> Status] /\ st[e] = "FREE"
        /\ \A x \in Envs \ {e} : st[x] = env_status[x]
    BY Zenon DEF IInv, TypeOK, Status
  <1>6. cur \in Envs \cup {NULL} /\ cur # e /\ (cur # NULL => cur = curenv[c])
    BY EnvAssumption, Zenon DEF EnvAssumption, IInv, TypeOK
  <1>7. cpu[c] \in {"boot", "user", "halted"}
    BY Zenon DEF Stopped, IInv, TypeOK
  <1>8. curenv[c] \in Envs => User(c)
    BY <1>7, EnvAssumption, Zenon DEF EnvAssumption, IInv, CurenvInv, User
  <1>9. \A d \in CPUS \ {c} :
          User(d) => st[curenv[d]] \in {"RUNNING", "DYING"} /\ curenv[d] # cur
    BY <1>5, <1>6, <1>8, EnvAssumption
    DEF EnvAssumption, IInv, CurenvInv, StatusMatchesCpus, SingleCpu
  <1>10. ASSUME NEW x \in Envs, st[x] \in {"RUNNING", "DYING"}
         PROVE  \/ x = cur /\ st[x] = "RUNNING"
                \/ \E d \in CPUS \ {c} : User(d) /\ curenv[d] = x
    <2>1. x # e /\ env_status[x] \in {"RUNNING", "DYING"}
      BY <1>5, <1>10, Zenon
    <2>2. PICK d \in CPUS : User(d) /\ curenv[d] = x
      BY <2>1, Zenon DEF IInv, StatusMatchesCpus
    <2>3. CASE d = c
      BY <1>5, <2>1, <2>2, <2>3, Zenon
    <2> QED
      BY <2>2, <2>3, Zenon
  <1>11. \A x \in Envs :
             /\ env_e1000_waiting_rx[x] => st[x] = "NOT_RUNNABLE" /\ ~env_ipc_recving'[x]
             /\ env_ipc_recving'[x] => st[x] \in {"NOT_RUNNABLE", "FREE"}
             /\ env_pgdir'[x] <=> st[x] # "FREE"
    <2>1. env_pgdir' = [x \in Envs |-> IF x = e THEN FALSE ELSE env_pgdir[x]]
      BY <1>1, Zenon DEF IInv, TypeOK
    <2>2. SUFFICES ASSUME NEW x \in Envs
                   PROVE  /\ env_e1000_waiting_rx[x] => st[x] = "NOT_RUNNABLE" /\ ~env_ipc_recving'[x]
                          /\ env_ipc_recving'[x] => st[x] \in {"NOT_RUNNABLE", "FREE"}
                          /\ env_pgdir'[x] <=> st[x] # "FREE"
      BY Zenon
    <2>3. CASE x = e
      BY <1>1, <1>5, <2>1, <2>3, Zenon
    <2>4. CASE x # e
      BY <1>1, <1>5, <2>1, <2>4, Zenon DEF IInv, WaitersAreBlocked, FreeListExact
    <2> QED
      BY <2>3, <2>4, Zenon
  <1>12. Elems(env_free_list') = {x \in Envs : st[x] = "FREE"}
    BY <1>3, <1>5 DEF IInv, FreeListExact
  <1>13. env_e1000_waiting_rx \in [Envs -> BOOLEAN]
    BY Zenon DEF IInv, TypeOK
  <1> HIDE DEF st
  <1>14. Leaving(c, cur, st, env_e1000_waiting_rx)
    BY <1>5, <1>6, <1>9, <1>10, <1>11, <1>12, <1>13, Zenon DEF Leaving
  <1> QED
    BY <1>4, <1>14, Zenon DEF st

-----------------------------------------------------------------------------
(* The actions that change one status *)

\* A trap of CPU c that gives environment e the status s and then returns or
\* yields; r and w are its new env_ipc_recving and env_e1000_waiting_rx fields.
LEMMA Marked ==
    ASSUME IInv, ~Stopped, NEW c \in CPUS, NEW e \in Envs, NEW s \in Status,
           NEW r \in BOOLEAN, NEW w \in BOOLEAN,
           User(c) => env_status[curenv[c]] # "DYING",
           UNCHANGED tableVars,
           env_ipc_recving' = [env_ipc_recving EXCEPT ![e] = r],
           env_status[e] # "FREE",
           \/ env_status[e] = "NOT_RUNNABLE" /\ s \in {"RUNNABLE", "NOT_RUNNABLE"}
           \/ env_status[e] = "RUNNING" /\ s = "DYING" /\ e # curenv[c]
           \/ e = curenv[c] /\ s = "NOT_RUNNABLE",
           r => s = "NOT_RUNNABLE", w => s = "NOT_RUNNABLE", ~(r /\ w)
    PROVE  /\ TableOK
           /\ Leaving(c, curenv[c], [env_status EXCEPT ![e] = s],
                      [env_e1000_waiting_rx EXCEPT ![e] = w])
  <1> DEFINE st == [env_status EXCEPT ![e] = s]
             wt == [env_e1000_waiting_rx EXCEPT ![e] = w]
  <1>1. /\ TableOK
        /\ env_pgdir' = env_pgdir /\ env_free_list' = env_free_list
        /\ curenv[c] \in Envs \cup {NULL} /\ st \in [Envs -> Status]
        /\ wt \in [Envs -> BOOLEAN]
    BY Entered, Zenon DEF IInv, TypeOK, tableVars
  <1>2. /\ st[e] = s /\ wt[e] = w /\ env_ipc_recving'[e] = r
        /\ \A x \in Envs \ {e} : /\ st[x] = env_status[x]
                                /\ wt[x] = env_e1000_waiting_rx[x]
                                /\ env_ipc_recving'[x] = env_ipc_recving[x]
    BY Zenon DEF IInv, TypeOK
  <1>3. s # "FREE"
    BY Zenon
  <1>4. \A d \in CPUS \ {c} :
          User(d) => st[curenv[d]] \in {"RUNNING", "DYING"} /\ curenv[d] # curenv[c]
    <2>1. SUFFICES ASSUME NEW d \in CPUS \ {c}, User(d)
                   PROVE  st[curenv[d]] \in {"RUNNING", "DYING"} /\ curenv[d] # curenv[c]
      BY Zenon
    <2>2. /\ curenv[d] \in Envs /\ curenv[d] # curenv[c]
          /\ env_status[curenv[d]] \in {"RUNNING", "DYING"}
      BY <2>1, Entered, Zenon
    <2> QED
      BY <1>2, <2>2, Zenon
  <1>5. ASSUME NEW x \in Envs, st[x] \in {"RUNNING", "DYING"}
        PROVE  \/ x = curenv[c] /\ st[x] = "RUNNING"
               \/ \E d \in CPUS \ {c} : User(d) /\ curenv[d] = x
    <2>1. env_status[x] \in {"RUNNING", "DYING"} /\ (x = curenv[c] => x # e)
      BY <1>2, <1>5, Zenon
    <2>2. \/ x = curenv[c] /\ env_status[x] = "RUNNING"
          \/ \E d \in CPUS \ {c} : User(d) /\ curenv[d] = x
      BY <2>1, Entered, Zenon
    <2> QED
      BY <1>2, <2>1, <2>2, Zenon
  <1>6. \A x \in Envs : /\ wt[x] => st[x] = "NOT_RUNNABLE" /\ ~env_ipc_recving'[x]
                        /\ env_ipc_recving'[x] => st[x] \in {"NOT_RUNNABLE", "FREE"}
                        /\ env_pgdir'[x] <=> st[x] # "FREE"
    BY <1>1, <1>2, <1>3, Zenon DEF IInv, WaitersAreBlocked, FreeListExact
  <1>7. Elems(env_free_list') = {x \in Envs : st[x] = "FREE"}
    BY <1>1, <1>2, <1>3 DEF IInv, FreeListExact
  <1> HIDE DEF st, wt
  <1>8. Leaving(c, curenv[c], st, wt)
    BY <1>1, <1>4, <1>5, <1>6, <1>7, Zenon DEF Leaving
  <1> QED
    BY <1>1, <1>8, Zenon DEF st, wt

\* env_destroy() of an environment that is alive keeps the table consistent.
LEMMA Destroy ==
    ASSUME IInv, ~Stopped, NEW c \in CPUS, NEW e \in Envs,
           User(c), env_status[curenv[c]] # "DYING",
           env_status[e] \notin {"FREE", "DYING"}, ~env_e1000_waiting_rx[e],
           env_destroy(c, e)
    PROVE  IInv' /\ ZombieStep
  <1> DEFINE cur == curenv[c]
             dying == [env_status EXCEPT ![e] = "DYING"]
             free == [env_status EXCEPT ![e] = "FREE"]
  <1>1. CASE /\ env_status[e] = "RUNNING" /\ e # cur
             /\ UNCHANGED <<tableVars, env_ipc_recving>>
             /\ trap_return(c, cur, dying, env_e1000_waiting_rx)
    <2>1. /\ env_ipc_recving' = [env_ipc_recving EXCEPT ![e] = FALSE]
          /\ env_e1000_waiting_rx = [env_e1000_waiting_rx EXCEPT ![e] = FALSE]
      BY <1>1, Zenon DEF IInv, TypeOK, WaitersAreBlocked
    <2>2. TableOK /\ Leaving(c, cur, dying, env_e1000_waiting_rx)
      BY <1>1, <2>1, Marked, Zenon DEF Status
    <2>3. \A x \in Envs : env_status[x] = "DYING" => dying[x] = "DYING"
      BY Zenon DEF IInv, TypeOK
    <2> HIDE DEF cur, dying
    <2> QED
      BY <1>1, <2>2, <2>3, ReturnKeeps, Zenon
  <1>2. CASE /\ ~(env_status[e] = "RUNNING" /\ e # cur)
             /\ env_free(e)
             /\ e = cur => sched_yield(c, NULL, free, env_e1000_waiting_rx)
             /\ e # cur => trap_return(c, cur, free, env_e1000_waiting_rx)
    <2>1. \A d \in CPUS \ {c} : User(d) => curenv[d] # e
      BY <1>2, Zenon DEF IInv, StatusMatchesCpus, SingleCpu
    <2> DEFINE next == IF e = curenv[c] THEN NULL ELSE curenv[c]
    <2>2. TableOK /\ Leaving(c, next, free, env_e1000_waiting_rx)
      BY <1>2, <2>1, Freed, Zenon
    <2>3. \A x \in Envs : env_status[x] = "DYING" => free[x] = "DYING"
      BY Zenon DEF IInv, TypeOK
    <2>4. CASE e = cur
      <3>1. Leaving(c, NULL, free, env_e1000_waiting_rx)
        BY <2>2, <2>4, Zenon
      <3> HIDE DEF free
      <3> QED
        BY <1>2, <2>2, <2>3, <2>4, <3>1, YieldKeeps, Zenon
    <2>5. CASE e # cur
      <3>1. Leaving(c, cur, free, env_e1000_waiting_rx)
        BY <2>2, <2>5, Zenon
      <3> HIDE DEF free, cur
      <3> QED
        BY <1>2, <2>2, <2>3, <2>5, <3>1, ReturnKeeps, Zenon
    <2> QED
      BY <2>4, <2>5, Zenon
  <1> QED
    BY <1>1, <1>2, Zenon DEF env_destroy

-----------------------------------------------------------------------------
(* Invariance *)

\* The table that env_init() and i386_init() set up is consistent.
THEOREM InitIInv == Init => IInv
  <1> SUFFICES ASSUME Init PROVE IInv
    BY Zenon
  <1> USE EnvAssumption DEF EnvAssumption, Init
  <1>1. TypeOK
    <2>1. env_free_list \in Seq(Envs)
      BY DEF Envs
    <2>2. env_status \in [Envs -> Status] /\ env_id \in [Envs -> 0 .. MaxGen]
      BY DEF Status
    <2>3. env_pgdir \in [Envs -> BOOLEAN]
      BY DEF Envs
    <2> QED
      BY <2>1, <2>2, <2>3, Zenon DEF TypeOK
  <1>2. FreeListExact
    <2>1. Len(env_free_list) = NENV - NBoot
      OBVIOUS
    <2>2. Elems(env_free_list) = {e \in Envs : env_status[e] = "FREE"}
      <3>1. ASSUME NEW e \in Elems(env_free_list) PROVE e \in Envs /\ env_status[e] = "FREE"
        BY <2>1 DEF Elems, Envs
      <3>2. ASSUME NEW e \in Envs, env_status[e] = "FREE" PROVE e \in Elems(env_free_list)
        <4>1. e - NBoot + 1 \in 1 .. Len(env_free_list) /\ env_free_list[e - NBoot + 1] = e
          BY <2>1, <3>2 DEF Envs
        <4> QED
          BY <4>1, Zenon DEF Elems
      <3> QED
        BY Zenon, <3>1, <3>2
    <2>3. \A i, j \in 1 .. Len(env_free_list) : env_free_list[i] = env_free_list[j] => i = j
      BY <2>1
    <2>4. \A e \in Envs : env_pgdir[e] <=> env_status[e] # "FREE"
      BY Zenon DEF Envs
    <2> QED
      BY <2>2, <2>3, <2>4, Zenon DEF FreeListExact
  <1>3. CurenvInv /\ SingleCpu /\ StatusMatchesCpus /\ WaitersAreBlocked
        /\ MonitorMeansIdle /\ NoPanic
    BY Zenon DEF CurenvInv, SingleCpu, StatusMatchesCpus, WaitersAreBlocked, MonitorMeansIdle,
           NoPanic, User
  <1> QED
    BY <1>1, <1>2, <1>3, Zenon DEF IInv

\* sys_exofork() takes a free slot that nobody runs, and keeps the table consistent.
LEMMA Exofork ==
    ASSUME IInv, NEW c \in CPUS, sys_exofork(c)
    PROVE  IInv' /\ ZombieStep
  <1> DEFINE e == Head(env_free_list)
             cur == curenv[c]
             st == [env_status EXCEPT ![e] = "NOT_RUNNABLE"]
             wt == [env_e1000_waiting_rx EXCEPT ![e] = FALSE]
  <1>1. /\ ~Stopped /\ User(c) /\ env_status[cur] # "DYING"
        /\ env_free_list # <<>>
        /\ env_alloc(e, EnvId(cur))
        /\ trap_return(c, cur, st, wt)
    BY Zenon DEF sys_exofork, Trapped, User
  <1>2. /\ e \in Envs /\ env_status[e] = "FREE"
        /\ Tail(env_free_list) \in Seq(Envs)
        /\ Elems(Tail(env_free_list)) = Elems(env_free_list) \ {e}
        /\ \A i, j \in 1 .. Len(Tail(env_free_list)) :
              Tail(env_free_list)[i] = Tail(env_free_list)[j] => i = j
    <2>1. env_free_list \in Seq(Envs) /\ Elems(env_free_list) = {x \in Envs : env_status[x] = "FREE"}
          /\ \A i, j \in 1 .. Len(env_free_list) : env_free_list[i] = env_free_list[j] => i = j
      BY Zenon DEF IInv, TypeOK, FreeListExact
    <2> QED
      BY <1>1, <2>1, Pop, Zenon
  <1>3. cur \in Envs /\ env_status[cur] = "RUNNING"
    BY <1>1, Zenon DEF IInv, CurenvInv, StatusMatchesCpus
  <1>4. /\ env_id' = [env_id EXCEPT ![e] = IF @ < MaxGen THEN @ + 1 ELSE 1]
        /\ env_parent_id' = [env_parent_id EXCEPT ![e] = EnvId(cur)]
        /\ env_pgdir' = [env_pgdir EXCEPT ![e] = TRUE]
        /\ env_ipc_recving' = [env_ipc_recving EXCEPT ![e] = FALSE]
        /\ env_free_list' = Tail(env_free_list)
    BY <1>1, Zenon DEF env_alloc
  <1>5. TableOK
    <2>1. env_id' \in [Envs -> 0 .. MaxGen]
      <3>1. env_id \in [Envs -> 0 .. MaxGen] /\ MaxGen \in Nat \ {0}
        BY EnvAssumption, Zenon DEF EnvAssumption, IInv, TypeOK
      <3>2. (IF env_id[e] < MaxGen THEN env_id[e] + 1 ELSE 1) \in 0 .. MaxGen
        BY <1>2, <3>1
      <3> QED
        BY Zenon, <1>4, <3>1, <3>2
    <2>2. EnvId(cur) \in Envs \X (0 .. MaxGen)
      BY <1>3, Zenon DEF EnvId, IInv, TypeOK
    <2>3. env_parent_id' \in [Envs -> (Envs \X (0 .. MaxGen)) \cup {NULL}]
      BY <1>4, <2>2, Zenon DEF IInv, TypeOK
    <2> QED
      BY <1>2, <1>4, <2>1, <2>3, Zenon DEF TableOK, IInv, TypeOK
  <1>6. /\ st \in [Envs -> Status] /\ wt \in [Envs -> BOOLEAN]
        /\ st[e] = "NOT_RUNNABLE" /\ ~wt[e] /\ ~env_ipc_recving'[e] /\ env_pgdir'[e]
        /\ \A x \in Envs \ {e} : /\ st[x] = env_status[x]
                                /\ wt[x] = env_e1000_waiting_rx[x]
                                /\ env_ipc_recving'[x] = env_ipc_recving[x]
                                /\ env_pgdir'[x] = env_pgdir[x]
    BY <1>2, <1>4, Zenon DEF IInv, TypeOK, Status
  <1> HIDE DEF e, cur, st, wt
  <1>7. \A d \in CPUS \ {c} :
          User(d) => st[curenv[d]] \in {"RUNNING", "DYING"} /\ curenv[d] # cur
    BY <1>1, <1>2, <1>6, Zenon DEF IInv, CurenvInv, StatusMatchesCpus, SingleCpu, cur
  <1>8. ASSUME NEW x \in Envs, st[x] \in {"RUNNING", "DYING"}
        PROVE  \/ x = cur /\ st[x] = "RUNNING"
               \/ \E d \in CPUS \ {c} : User(d) /\ curenv[d] = x
    <2>1. x # e /\ env_status[x] \in {"RUNNING", "DYING"}
      BY <1>6, <1>8, Zenon
    <2>2. PICK d \in CPUS : User(d) /\ curenv[d] = x
      BY <2>1, Zenon DEF IInv, StatusMatchesCpus
    <2> QED
      BY <1>3, <1>6, <2>1, <2>2, Zenon DEF cur
  <1>9. \A x \in Envs : /\ wt[x] => st[x] = "NOT_RUNNABLE" /\ ~env_ipc_recving'[x]
                        /\ env_ipc_recving'[x] => st[x] \in {"NOT_RUNNABLE", "FREE"}
                        /\ env_pgdir'[x] <=> st[x] # "FREE"
    BY <1>6 DEF IInv, WaitersAreBlocked, FreeListExact
  <1>10. Elems(env_free_list') = {x \in Envs : st[x] = "FREE"}
    BY <1>2, <1>4, <1>6, Zenon DEF IInv, FreeListExact
  <1>11. Leaving(c, cur, st, wt)
    BY <1>3, <1>6, <1>7, <1>8, <1>9, <1>10, Zenon DEF Leaving
  <1>12. \A x \in Envs : env_status[x] = "DYING" => st[x] = "DYING"
    BY <1>2, <1>6, Zenon
  <1> QED
    BY <1>1, <1>5, <1>11, <1>12, ReturnKeeps, Zenon

\* Every kernel entry keeps the table consistent, and frees a zombie only in its trap.
THEOREM NextIInv ==
    ASSUME Lapses = {}, IInv, [Next]_vars
    PROVE  IInv' /\ ZombieStep
  <1>1. CASE UNCHANGED vars
    <2>1. TypeOK'
      BY <1>1, Zenon DEF vars, IInv, TypeOK
    <2>2. CurenvInv' /\ SingleCpu' /\ NoPanic'
      BY <1>1, Zenon DEF vars, IInv, CurenvInv, SingleCpu, NoPanic, User
    <2>3. StatusMatchesCpus' /\ MonitorMeansIdle'
      BY <1>1, Zenon DEF vars, IInv, StatusMatchesCpus, MonitorMeansIdle, User, Stopped
    <2>4. FreeListExact' /\ WaitersAreBlocked'
      BY <1>1 DEF vars, IInv, FreeListExact, WaitersAreBlocked, Elems
    <2>5. ZombieStep
      BY <1>1, Zenon DEF vars, ZombieStep
    <2> QED
      BY <2>1, <2>2, <2>3, <2>4, <2>5, Zenon DEF IInv
  <1>2. ASSUME NEW c \in CPUS, boot(c) PROVE IInv' /\ ZombieStep
    <2>1. /\ ~Stopped /\ ~User(c) /\ curenv[c] = NULL
          /\ UNCHANGED <<tableVars, env_ipc_recving>>
          /\ sched_yield(c, NULL, env_status, env_e1000_waiting_rx)
      BY <1>2, Zenon DEF boot, IInv, CurenvInv, User
    <2>2. TableOK /\ Leaving(c, NULL, env_status, env_e1000_waiting_rx)
      BY <2>1, Entered, Zenon DEF IInv, TypeOK
    <2> QED
      BY <2>1, <2>2, YieldKeeps, Zenon
  <1>3. ASSUME NEW c \in CPUS, trap_zombie(c) PROVE IInv' /\ ZombieStep
    <2>1. /\ ~Stopped /\ User(c) /\ curenv[c] \in Envs /\ env_status[curenv[c]] = "DYING"
          /\ env_free(curenv[c])
          /\ sched_yield(c, NULL, [env_status EXCEPT ![curenv[c]] = "FREE"], env_e1000_waiting_rx)
      BY <1>3, Zenon DEF trap_zombie, IInv, CurenvInv, User
    <2>2. PICK e \in Envs : e = curenv[c]
      BY <2>1, Zenon
    <2> DEFINE st == [env_status EXCEPT ![e] = "FREE"]
    <2>3. ~env_e1000_waiting_rx[e] /\ \A d \in CPUS \ {c} : User(d) => curenv[d] # e
      BY <2>1, <2>2, Zenon DEF IInv, WaitersAreBlocked, SingleCpu
    <2>4. TableOK /\ Leaving(c, NULL, st, env_e1000_waiting_rx)
      BY <2>1, <2>2, <2>3, Freed, Zenon
    <2>5. sched_yield(c, NULL, st, env_e1000_waiting_rx)
      BY <2>1, <2>2, Zenon
    <2>6. st[e] = "FREE" /\ \A x \in Envs \ {e} : st[x] = env_status[x]
      BY Zenon DEF IInv, TypeOK
    <2> HIDE DEF st
    <2>7. IInv' /\ Kept(c, NULL, st)
      BY <2>1, <2>4, <2>5, SchedYield, Zenon
    <2>8. env_status'[e] = "FREE" /\ curenv'[c] # e
      BY <2>6, <2>7, EnvAssumption, Zenon DEF Kept, EnvAssumption
    <2> QED
      BY <2>1, <2>2, <2>6, <2>7, <2>8, Zenon DEF Kept, ZombieStep
  <1>4. ASSUME NEW c \in CPUS, irq_timer(c) \/ sys_yield(c) PROVE IInv' /\ ZombieStep
    <2>1. /\ ~Stopped /\ (User(c) => env_status[curenv[c]] # "DYING")
          /\ UNCHANGED <<tableVars, env_ipc_recving>>
          /\ sched_yield(c, curenv[c], env_status, env_e1000_waiting_rx)
      BY <1>4, Zenon DEF irq_timer, sys_yield, Trapped, User
    <2>2. TableOK /\ Leaving(c, curenv[c], env_status, env_e1000_waiting_rx)
      BY <2>1, Entered, Zenon DEF IInv, TypeOK
    <2> QED
      BY <2>1, <2>2, YieldKeeps, Zenon
  <1>5. ASSUME NEW c \in CPUS, irq_e1000(c) PROVE IInv' /\ ZombieStep
    <2>1. /\ ~Stopped /\ (User(c) => env_status[curenv[c]] # "DYING")
          /\ UNCHANGED <<tableVars, env_ipc_recving>>
      BY <1>5, Zenon DEF irq_e1000, User
    <2>2. CASE trap_return(c, curenv[c], env_status, env_e1000_waiting_rx)
      <3>1. TableOK /\ Leaving(c, curenv[c], env_status, env_e1000_waiting_rx)
        BY <2>1, Entered, Zenon DEF IInv, TypeOK
      <3> QED
        BY <2>1, <2>2, <3>1, ReturnKeeps, Zenon
    <2>3. ASSUME NEW e \in Envs, env_e1000_waiting_rx[e],
                 trap_return(c, curenv[c], [env_status EXCEPT ![e] = "RUNNABLE"],
                             [env_e1000_waiting_rx EXCEPT ![e] = FALSE])
          PROVE  IInv' /\ ZombieStep
      <3> DEFINE st == [env_status EXCEPT ![e] = "RUNNABLE"]
                 wt == [env_e1000_waiting_rx EXCEPT ![e] = FALSE]
      <3>1. /\ env_status[e] = "NOT_RUNNABLE"
            /\ env_ipc_recving' = [env_ipc_recving EXCEPT ![e] = FALSE]
        BY <2>1, <2>3, Zenon DEF IInv, TypeOK, WaitersAreBlocked
      <3>2. TableOK /\ Leaving(c, curenv[c], st, wt)
        BY <2>1, <3>1, Marked, Zenon DEF Status
      <3>3. \A x \in Envs : env_status[x] = "DYING" => st[x] = "DYING"
        BY <3>1, Zenon DEF IInv, TypeOK
      <3>4. trap_return(c, curenv[c], st, wt)
        BY <2>3, Zenon
      <3> HIDE DEF st, wt
      <3> QED
        BY <2>1, <3>2, <3>3, <3>4, ReturnKeeps, Zenon
    <2> QED
      BY <1>5, <2>2, <2>3, Zenon DEF irq_e1000
  <1>6. ASSUME NEW c \in CPUS, trap_other(c) PROVE IInv' /\ ZombieStep
    <2>1. /\ ~Stopped /\ (User(c) => env_status[curenv[c]] # "DYING")
          /\ UNCHANGED <<tableVars, env_ipc_recving>>
          /\ trap_return(c, curenv[c], env_status, env_e1000_waiting_rx)
      BY <1>6, Zenon DEF trap_other, Trapped, User
    <2>2. TableOK /\ Leaving(c, curenv[c], env_status, env_e1000_waiting_rx)
      BY <2>1, Entered, Zenon DEF IInv, TypeOK
    <2> QED
      BY <2>1, <2>2, ReturnKeeps, Zenon
  <1>7. ASSUME NEW c \in CPUS, trap_fault(c) PROVE IInv' /\ ZombieStep
    <2>1. /\ ~Stopped /\ User(c) /\ curenv[c] \in Envs /\ env_status[curenv[c]] = "RUNNING"
          /\ env_destroy(c, curenv[c])
      BY <1>7, Zenon DEF trap_fault, Trapped, IInv, CurenvInv, StatusMatchesCpus, User
    <2>2. ~env_e1000_waiting_rx[curenv[c]]
      BY <2>1, Zenon DEF IInv, WaitersAreBlocked
    <2>3. PICK e \in Envs : e = curenv[c]
      BY <2>1, Zenon
    <2> QED
      BY <2>1, <2>2, <2>3, Destroy, Zenon
  <1>8. ASSUME NEW c \in CPUS, NEW e \in Envs, NEW g \in Gens, sys_env_destroy(c, e, g)
        PROVE  IInv' /\ ZombieStep
    BY <1>8, Destroy, Zenon DEF sys_env_destroy, Trapped, envid2env, User
  <1>9. ASSUME NEW c \in CPUS, sys_exofork(c) PROVE IInv' /\ ZombieStep
    BY <1>9, Exofork, Zenon
  <1>10. ASSUME NEW c \in CPUS, NEW e \in Envs, NEW g \in Gens,
                NEW status \in {"RUNNABLE", "NOT_RUNNABLE"}, sys_env_set_status(c, e, g, status)
         PROVE  IInv' /\ ZombieStep
    <2> DEFINE st == [env_status EXCEPT ![e] = status]
    <2>1. /\ ~Stopped /\ (User(c) => env_status[curenv[c]] # "DYING")
          /\ UNCHANGED <<tableVars, env_ipc_recving>>
          /\ Fresh(e)
          /\ trap_return(c, curenv[c], st, env_e1000_waiting_rx)
      BY <1>10, Zenon DEF sys_env_set_status, Trapped, User
    <2>2. /\ env_ipc_recving' = [env_ipc_recving EXCEPT ![e] = FALSE]
          /\ env_e1000_waiting_rx = [env_e1000_waiting_rx EXCEPT ![e] = FALSE]
      <3>1. /\ env_ipc_recving' = env_ipc_recving
            /\ ~env_ipc_recving[e] /\ ~env_e1000_waiting_rx[e]
        BY <2>1, Zenon DEF Fresh
      <3>2. env_ipc_recving \in [Envs -> BOOLEAN] /\ env_e1000_waiting_rx \in [Envs -> BOOLEAN]
        BY Zenon DEF IInv, TypeOK
      <3>3. env_ipc_recving[e] = FALSE /\ env_e1000_waiting_rx[e] = FALSE
        BY <3>1, <3>2, Zenon
      <3> QED
        BY <3>1, <3>2, <3>3, Zenon
    <2>3. TableOK /\ Leaving(c, curenv[c], st, env_e1000_waiting_rx)
      <3>1. env_status[e] = "NOT_RUNNABLE" /\ status \in Status /\ UNCHANGED tableVars
        BY <2>1, Zenon DEF Fresh, Status
      <3>2. TableOK /\ Leaving(c, curenv[c], st, [env_e1000_waiting_rx EXCEPT ![e] = FALSE])
        BY Zenon, <2>1, <2>2, <3>1, Marked
      <3> QED
        BY Zenon, <2>2, <3>2
    <2>4. \A x \in Envs : env_status[x] = "DYING" => st[x] = "DYING"
      BY <2>1, <2>2, <2>3, Zenon DEF IInv, TypeOK, Fresh
    <2> HIDE DEF st
    <2> QED
      BY <2>1, <2>3, <2>4, ReturnKeeps, Zenon
  <1>11. ASSUME NEW c \in CPUS, NEW e \in Envs, NEW g \in Gens, sys_ipc_try_send(c, e, g)
         PROVE  IInv' /\ ZombieStep
    <2> DEFINE st == [env_status EXCEPT ![e] = "RUNNABLE"]
    <2>1. /\ ~Stopped /\ (User(c) => env_status[curenv[c]] # "DYING")
          /\ UNCHANGED tableVars
          /\ env_status[e] # "FREE" /\ env_ipc_recving[e]
          /\ env_ipc_recving' = [env_ipc_recving EXCEPT ![e] = FALSE]
          /\ trap_return(c, curenv[c], st, env_e1000_waiting_rx)
      BY <1>11, Zenon DEF sys_ipc_try_send, envid2env, Trapped, User
    <2>2. /\ env_status[e] = "NOT_RUNNABLE"
          /\ env_e1000_waiting_rx = [env_e1000_waiting_rx EXCEPT ![e] = FALSE]
      BY <2>1, Zenon DEF IInv, TypeOK, WaitersAreBlocked
    <2>3. TableOK /\ Leaving(c, curenv[c], st, env_e1000_waiting_rx)
      BY <2>1, <2>2, Marked, Zenon DEF Status
    <2>4. \A x \in Envs : env_status[x] = "DYING" => st[x] = "DYING"
      BY <2>1, <2>2, <2>3, Zenon DEF IInv, TypeOK, Fresh
    <2> HIDE DEF st
    <2> QED
      BY <2>1, <2>3, <2>4, ReturnKeeps, Zenon
  <1>12. ASSUME NEW c \in CPUS, sys_ipc_recv(c) PROVE IInv' /\ ZombieStep
    <2>1. PICK e \in Envs : e = curenv[c]
      BY <1>12, Zenon DEF sys_ipc_recv, Trapped, IInv, CurenvInv, User
    <2> DEFINE st == [env_status EXCEPT ![e] = "NOT_RUNNABLE"]
    <2>2. /\ ~Stopped /\ User(c) /\ env_status[curenv[c]] # "DYING"
          /\ UNCHANGED tableVars
          /\ env_ipc_recving' = [env_ipc_recving EXCEPT ![e] = TRUE]
          /\ sched_yield(c, curenv[c], st, env_e1000_waiting_rx)
      BY <1>12, <2>1, Zenon DEF sys_ipc_recv, Trapped, User
    <2>3. /\ env_status[e] = "RUNNING"
          /\ env_e1000_waiting_rx = [env_e1000_waiting_rx EXCEPT ![e] = FALSE]
      BY <2>1, <2>2 DEF IInv, TypeOK, StatusMatchesCpus, WaitersAreBlocked
    <2>4. TableOK /\ Leaving(c, curenv[c], st, env_e1000_waiting_rx)
      BY <2>1, <2>2, <2>3, Marked, Zenon DEF Status
    <2>5. \A x \in Envs : env_status[x] = "DYING" => st[x] = "DYING"
      BY <2>1, <2>2, <2>3, Zenon DEF IInv, TypeOK, Fresh
    <2> HIDE DEF st
    <2> QED
      BY <2>2, <2>4, <2>5, YieldKeeps, Zenon
  <1>13. ASSUME NEW c \in CPUS, sys_e1000_receive(c) PROVE IInv' /\ ZombieStep
    <2>1. PICK e \in Envs : e = curenv[c]
      BY <1>13, Zenon DEF sys_e1000_receive, Trapped, IInv, CurenvInv, User
    <2> DEFINE st == [env_status EXCEPT ![e] = "NOT_RUNNABLE"]
               wt == [env_e1000_waiting_rx EXCEPT ![e] = TRUE]
    <2>2. /\ ~Stopped /\ User(c) /\ env_status[curenv[c]] # "DYING"
          /\ UNCHANGED <<tableVars, env_ipc_recving>>
          /\ sched_yield(c, curenv[c], st, wt)
      BY <1>13, <2>1, Zenon DEF sys_e1000_receive, Trapped, User
    <2>3. /\ env_status[e] = "RUNNING"
          /\ env_ipc_recving' = [env_ipc_recving EXCEPT ![e] = FALSE]
      <3>1. env_status[e] = "RUNNING"
        BY <2>1, <2>2, Zenon DEF IInv, StatusMatchesCpus
      <3> QED
        BY <2>2, <3>1, Zenon DEF IInv, TypeOK, WaitersAreBlocked
    <2>4. TableOK /\ Leaving(c, curenv[c], st, wt)
      BY <2>1, <2>2, <2>3, Marked, Zenon DEF Status
    <2>5. \A x \in Envs : env_status[x] = "DYING" => st[x] = "DYING"
      BY <2>1, <2>2, <2>3, Zenon DEF IInv, TypeOK, Fresh
    <2> HIDE DEF st, wt
    <2> QED
      BY <2>2, <2>4, <2>5, YieldKeeps, Zenon
  <1>14. CASE monitor
    BY <1>1, <1>14, Zenon DEF monitor
  <1> QED
    BY <1>1, <1>2, <1>3, <1>4, <1>5, <1>6, <1>7, <1>8, <1>9, <1>10, <1>11, <1>12, <1>13, <1>14, Zenon
    DEF Next

-----------------------------------------------------------------------------
(* The theorems, for programs that keep the contract *)

\* IInv, and with it each of the invariants below, holds in every state, and no
\* step frees a zombie but the trap of the CPU that executes it.
THEOREM Consistency ==
    ASSUME Lapses = {}
    PROVE  Spec => []IInv /\ [][ZombieStep]_vars
  <1>1. IInv /\ [Next]_vars => IInv' /\ [ZombieStep]_vars
    <2>1. SUFFICES ASSUME IInv, [Next]_vars PROVE IInv' /\ [ZombieStep]_vars
      BY Zenon
    <2>2. IInv' /\ ZombieStep
      BY <2>1, NextIInv, Zenon
    <2> QED
      BY <2>2, Zenon
  <1> QED
    BY <1>1, InitIInv, PTL DEF Spec

\* No environment ever runs on two CPUs at once, for any number of CPUs: the
\* RUNNING mark that env_run sets keeps sched_yield on other CPUs away.
THEOREM SingleCpuHolds ==
    ASSUME Lapses = {}
    PROVE  Spec => []SingleCpu
  <1>1. IInv => SingleCpu
    BY Zenon DEF IInv
  <1> QED
    BY <1>1, Consistency, PTL

\* env_status always agrees with what the CPUs execute.
THEOREM StatusMatchesCpusHolds ==
    ASSUME Lapses = {}
    PROVE  Spec => []StatusMatchesCpus
  <1>1. IInv => StatusMatchesCpus
    BY Zenon DEF IInv
  <1> QED
    BY <1>1, Consistency, PTL

\* env_alloc and env_free lose no slot and never hand one out twice, for any
\* size of envs[] and any history of forks and exits.
THEOREM FreeListExactHolds ==
    ASSUME Lapses = {}
    PROVE  Spec => []FreeListExact
  <1>1. IInv => FreeListExact
    BY Zenon DEF IInv
  <1> QED
    BY <1>1, Consistency, PTL

\* The unconditional wake-ups of sys_ipc_try_send and e1000_trap_handler only
\* ever hit blocked environments.
THEOREM WaitersAreBlockedHolds ==
    ASSUME Lapses = {}
    PROVE  Spec => []WaitersAreBlocked
  <1>1. IInv => WaitersAreBlocked
    BY Zenon DEF IInv
  <1> QED
    BY <1>1, Consistency, PTL

\* The fields of envs[] and of cpus[] keep their types: env_alloc's generation
\* wraps before it leaves its range, and curenv is a slot or NULL, whatever is forked and killed.
THEOREM EnvTypes ==
    ASSUME Lapses = {}
    PROVE  Spec => []TypeOK
  <1>1. IInv => TypeOK
    BY Zenon DEF IInv
  <1> QED
    BY <1>1, Consistency, PTL

\* A CPU that stops in the monitor because it found nothing to run leaves no other
\* CPU in user mode (sched_halt).
THEOREM MonitorMeansIdleHolds ==
    ASSUME Lapses = {}
    PROVE  Spec => []MonitorMeansIdle
  <1>1. IInv => MonitorMeansIdle
    BY Zenon DEF IInv
  <1> QED
    BY <1>1, Consistency, PTL

\* The kernel does not panic: an environment that env_run starts has a page
\* directory, also when others were killed meanwhile.
THEOREM NoPanicHolds ==
    ASSUME Lapses = {}
    PROVE  Spec => []NoPanic
  <1>1. IInv => NoPanic
    BY Zenon DEF IInv
  <1> QED
    BY <1>1, Consistency, PTL

\* A zombie is freed by the next trap of the CPU that executes it, and by
\* nothing else (env_destroy, trap).
THEOREM ZombieFreedByItsTrapHolds ==
    ASSUME Lapses = {}
    PROVE  Spec => ZombieFreedByItsTrap
  BY Consistency, PTL DEF ZombieFreedByItsTrap
=============================================================================
