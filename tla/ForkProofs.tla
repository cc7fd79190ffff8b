----------------------------- MODULE ForkProofs -----------------------------
(***************************************************************************)
(* Proofs about module Fork, for any number of environments, pages and      *)
(* addresses: private pages stay private, exception stacks are never        *)
(* copy-on-write, and fork() implements PrivateMemory.                      *)
(***************************************************************************)
EXTENDS Fork, SetLemmas, TLAPS

Maps(e, va) == pte[e][va] # NULL
Same(e, va, f, wa) == Maps(e, va) /\ Maps(f, wa) /\ pte[e][va].pp = pte[f][wa].pp
Has(e, va, perm) == Maps(e, va) /\ pte[e][va].perm = perm

(* The inductive invariant. *)

\* Only an environment that has started faults, forks or can write, and it has all
\* pages of the program.
LifeOf(e) ==
    /\ status[e] # "alive" => /\ fork_at[e] = "none" /\ pf_at[e] = "none" /\ ~Maps(e, UXSTACK)
                              /\ \A va \in VAs : ~Has(e, va, "W")
    /\ status[e] = "none" => \A va \in VAs : ~Maps(e, va)
    /\ status[e] = "alive" => \A va \in Private \cup Shared : Maps(e, va)

\* A parent inside fork() has an exception stack and a child of its own.
ParentOf(e) == fork_at[e] # "none" =>
    /\ Maps(e, UXSTACK)
    /\ fork_child[e] \in Envs /\ status[fork_child[e]] = "embryo"
    /\ \A f \in Envs : fork_at[f] # "none" /\ fork_child[f] = fork_child[e] => f = e
Parents == \A e \in Envs : ParentOf(e)

\* duppage() is at a page that is there and not the exception stack.
Looping(e) == fork_at[e] \in {"child", "parent"}
AtPageOf(e) == Looping(e) =>
    /\ fork_pn[e] \in VAs \ {UXSTACK} /\ Maps(e, fork_pn[e])
    /\ fork_at[e] = "parent" => pte[e][fork_pn[e]].perm \in {"W", "COW"}

\* The child has the pages that the loop has passed, and all but the stack are
\* still the parent's.
Passed(e, va) == \/ fork_at[e] = "finish"
                 \/ Looping(e) /\ va < fork_pn[e]
                 \/ fork_at[e] = "parent" /\ va = fork_pn[e]
CopiedAt(e, va) == Passed(e, va) =>
    /\ Maps(fork_child[e], va)
    /\ va # Stack => Same(e, va, fork_child[e], va)
Copied == \A e \in Envs, va \in Private \cup Shared : CopiedAt(e, va)

\* pgfault() works for a copy-on-write page; inside fork() only for the stack.  The
\* page it copies to is mapped nowhere else, and then has the same content.
HandlerOf(e) == pf_at[e] # "none" =>
    /\ pf_va[e] \in Data \cup {Stack} /\ Has(e, pf_va[e], "COW")
    /\ fork_at[e] # "none" => pf_va[e] = Stack
TempOf(e) == pf_at[e] \in {"copy", "map"} =>
    /\ Has(e, PFTEMP, "W")
    /\ \A f \in Envs, wa \in VAs : Same(e, PFTEMP, f, wa) => f = e /\ wa = PFTEMP
Temp == \A e \in Envs : TempOf(e)
CopyDoneOf(e) == pf_at[e] = "map" =>
    content[pte[e][PFTEMP].pp] = content[pte[e][pf_va[e]].pp]
CopyDone == \A e \in Envs : CopyDoneOf(e)

\* A page with PTE_W has one owner; a child that is not started may have it too, as
\* long as the loop has not passed it.
OwnedAt(e, f, va, wa) == Has(e, va, "W") /\ Same(e, va, f, wa) =>
    \/ f = e /\ wa \in {va, PFTEMP}
    \/ Looping(e) /\ f = fork_child[e] /\ fork_pn[e] <= va
Owned == \A e, f \in Envs, va \in VAs \ {PFTEMP}, wa \in VAs : OwnedAt(e, f, va, wa)

\* An exception stack is writable, and mapped nowhere else.
XStackOf(e) == Maps(e, UXSTACK) =>
    /\ Has(e, UXSTACK, "W")
    /\ \A f \in Envs, wa \in VAs : Same(e, UXSTACK, f, wa) => f = e /\ wa = UXSTACK
XStack == \A e \in Envs : XStackOf(e)
CowAt(e, va) == status[e] = "alive" /\ Has(e, va, "COW") => Maps(e, UXSTACK)

\* The shared pages are the same for all, and no page is used in two ways.
ShareAt(e, va) == Maps(e, va) =>
    /\ pte[e][va].perm = "SHARE" <=> va \in Shared
    /\ va = PFTEMP => pte[e][va].perm \in {"W", "COW"}
ShareSameAt(e, f, va, wa) ==
    Maps(e, va) /\ Maps(f, wa) => (pte[e][va].pp = pte[f][wa].pp <=> va = wa)
ShareSame == \A e, f \in Envs, va \in Shared, wa \in VAs : ShareSameAt(e, f, va, wa)

\* What each environment has of its own.
Local(e) == /\ LifeOf(e) /\ AtPageOf(e) /\ HandlerOf(e)
            /\ \A va \in VAs : CowAt(e, va) /\ ShareAt(e, va)

IInv == /\ TypeOK /\ \A e \in Envs : Local(e)
        /\ Parents /\ Copied /\ Temp /\ CopyDone /\ Owned /\ XStack /\ ShareSame

-----------------------------------------------------------------------------
(* What the helpers do. *)

\* A free page is one that no environment maps anywhere.
LEMMA FreeUnmapped ==
    ASSUME TypeOK, NEW p \in Free
    PROVE  /\ p \in Pages
           /\ \A e \in Envs, va \in VAs : Maps(e, va) => pte[e][va].pp # p
<1> SUFFICES ASSUME NEW e \in Envs, NEW va \in VAs, Maps(e, va), pte[e][va].pp = p
             PROVE  FALSE
  BY Zenon DEF Free, Unmapped
<1> DEFINE x == <<e, va>>
<1>1. x \in {y \in Envs \X VAs : pte[y[1]][y[2]] # NULL} /\ pte[x[1]][x[2]].pp = p
  BY Zenon DEF Maps
<1> HIDE DEF x
<1> QED
  BY <1>1, Zenon DEF Free, Unmapped

\* page_alloc() returns a free page if there is one.
LEMMA PageAlloc ==
    ASSUME NEW e, NEW va, Free # {}
    PROVE  page_alloc(e, va) \in Free
<1> DEFINE near == Near(e, va) \cap Free
<1>1. \E p \in Free : near # {} => p \in near
  BY Zenon
<1> HIDE DEF near
<1>2. (CHOOSE p \in Free : near # {} => p \in near) \in Free
  BY <1>1, Zenon
<1> QED
  BY <1>2, Zenon DEF page_alloc, near

\* Changing the page tables keeps the content of every page that is still mapped.
LEMMA RemapKeeps ==
    ASSUME TypeOK, NEW t, Remap(t), t \in [Envs -> [VAs -> Entry \cup {NULL}]]
    PROVE  /\ pte' = t /\ content' \in [Pages -> Val]
           /\ \A e \in Envs, va \in VAs : pte'[e][va] # NULL =>
                  content'[pte'[e][va].pp] = content[pte'[e][va].pp]
<1>1. pte' = t /\ content' \in [Pages -> Val]
  BY ForkAssumption, Zenon DEF ForkAssumption, Remap, TypeOK
<1>2. ASSUME NEW e \in Envs, NEW va \in VAs, t[e][va] # NULL
      PROVE  content'[t[e][va].pp] = content[t[e][va].pp]
  <2>1. t[e][va] \in Entry
    BY <1>2, Zenon
  <2>2. t[e][va].pp \in Pages
    BY <2>1, Zenon DEF Entry
  <2> DEFINE x == <<e, va>>
  <2>3. x \in {y \in Envs \X VAs : t[y[1]][y[2]] # NULL} /\ t[x[1]][x[2]].pp = t[e][va].pp
    BY <1>2, Zenon
  <2> HIDE DEF x
  <2>4. t[e][va].pp \notin Unmapped(t)
    BY <2>3, Zenon DEF Unmapped
  <2> QED
    BY <2>2, <2>4, Zenon DEF Remap
<1> QED
  BY <1>1, <1>2, Zenon

\* A page table entry names a page.
LEMMA EntryType ==
    ASSUME TypeOK, NEW e \in Envs, NEW va \in VAs, Maps(e, va)
    PROVE  pte[e][va] \in Entry /\ pte[e][va].pp \in Pages /\ pte[e][va].perm \in Perm
<1>1. pte[e][va] \in Entry
  BY DEF TypeOK, Maps
<1> QED
  BY <1>1, Zenon DEF Entry

\* A system call that changes one entry of one page table.
LEMMA OneEntry ==
    ASSUME TypeOK, NEW x \in Envs, NEW y \in VAs, NEW n \in Entry
    PROVE  LET t == [pte EXCEPT ![x][y] = n]
           IN  /\ t \in [Envs -> [VAs -> Entry \cup {NULL}]]
               /\ t[x][y] = n
               /\ \A f \in Envs, wa \in VAs : f # x \/ wa # y => t[f][wa] = pte[f][wa]
BY Zenon DEF TypeOK

\* A new page in one entry: page_insert() after page_alloc().
LEMMA NewPage ==
    ASSUME TypeOK, NEW x \in Envs, NEW y \in VAs, NEW va, Free # {},
           Remap([pte EXCEPT ![x][y] = [pp |-> page_alloc(x, va), perm |-> "W"]])
    PROVE  /\ pte' \in [Envs -> [VAs -> Entry \cup {NULL}]] /\ content' \in [Pages -> Val]
           /\ Maps(x, y)' /\ pte'[x][y].perm = "W"
           /\ \A f \in Envs, wa \in VAs : f # x \/ wa # y => pte'[f][wa] = pte[f][wa]
           /\ \A f \in Envs, wa \in VAs :
                  pte[f][wa] # NULL => pte[f][wa].pp # pte'[x][y].pp
           /\ \A f \in Envs, wa \in VAs : pte'[f][wa] # NULL =>
                  content'[pte'[f][wa].pp] = content[pte'[f][wa].pp]
<1> DEFINE p == page_alloc(x, va)
           n == [pp |-> p, perm |-> "W"]
           t == [pte EXCEPT ![x][y] = n]
<1>1. p \in Pages /\ \A f \in Envs, wa \in VAs : pte[f][wa] # NULL => pte[f][wa].pp # p
  BY PageAlloc, FreeUnmapped, Zenon DEF Maps
<1> HIDE DEF p
<1>2. n \in Entry /\ n.pp = p /\ n.perm = "W"
  BY <1>1, Zenon DEF Entry, Perm
<1>3. n # NULL
  BY <1>2, ForkAssumption, Zenon DEF ForkAssumption
<1> HIDE DEF n
<1>4. /\ t \in [Envs -> [VAs -> Entry \cup {NULL}]]
      /\ t[x][y] = n
      /\ \A f \in Envs, wa \in VAs : f # x \/ wa # y => t[f][wa] = pte[f][wa]
  BY <1>2, OneEntry
<1>5. Remap(t)
  BY Zenon DEF t, n, p
<1> HIDE DEF t
<1>6. /\ pte' = t /\ content' \in [Pages -> Val]
      /\ \A f \in Envs, wa \in VAs : pte'[f][wa] # NULL =>
             content'[pte'[f][wa].pp] = content[pte'[f][wa].pp]
  BY <1>4, <1>5, RemapKeeps, Zenon
<1> QED
  BY <1>1, <1>2, <1>3, <1>4, <1>6, Zenon DEF Maps

\* The loop of fork() goes on at the first page of the parent from an address on,
\* or ends when only the exception stack is left.
LEMMA LoopGoesOn ==
    ASSUME TypeOK, NEW e \in Envs, NEW from \in Nat, Loop(e, from)
    PROVE  /\ fork_at' \in [Envs -> {"none", "child", "parent", "finish"}]
           /\ fork_pn' \in [Envs -> VAs \cup {NULL}]
           /\ \A f \in Envs \ {e} : fork_at'[f] = fork_at[f] /\ fork_pn'[f] = fork_pn[f]
           /\ \/ /\ fork_at'[e] = "finish"
                 /\ \A va \in VAs : Maps(e, va) /\ from <= va => va = UXSTACK
              \/ /\ fork_at'[e] = "child"
                 /\ fork_pn'[e] \in VAs \ {UXSTACK} /\ Maps(e, fork_pn'[e])
                 /\ from <= fork_pn'[e]
                 /\ \A va \in VAs : Maps(e, va) /\ from <= va => fork_pn'[e] <= va
<1> DEFINE todo == Next_pn(e, from)
<1>0. VAs \subseteq Nat /\ UXSTACK \in VAs /\ \A va \in VAs \ {UXSTACK} : va < UXSTACK
  BY ForkAssumption, Zenon DEF ForkAssumption, VAs
<1>1. /\ todo \in SUBSET VAs
      /\ \A va \in VAs : va \in todo <=> Maps(e, va) /\ from <= va /\ va # UXSTACK
  BY <1>0 DEF Next_pn, Mapped, Maps
<1>2. todo \in SUBSET Nat
  BY <1>0, <1>1, Zenon
<1>a. Loop(e, from) <=> IF todo = {} THEN /\ fork_at' = [fork_at EXCEPT ![e] = "finish"]
                          /\ fork_pn' = [fork_pn EXCEPT ![e] = NULL]
        ELSE /\ fork_at' = [fork_at EXCEPT ![e] = "child"]
             /\ fork_pn' = [fork_pn EXCEPT ![e] = Min(todo)]
  BY Zenon DEF Loop
<1> HIDE DEF todo
<1>3. CASE todo = {}
  <2>1. /\ fork_at' = [fork_at EXCEPT ![e] = "finish"]
        /\ fork_pn' = [fork_pn EXCEPT ![e] = NULL]
    BY <1>3, <1>a, Zenon
  <2> QED
    BY <1>1, <1>3, <2>1, Zenon DEF TypeOK
<1>4. CASE todo # {}
  <2>1. Min(todo) \in todo /\ \A va \in todo : Min(todo) <= va
    BY <1>2, <1>4, MinLeast, Zenon
  <2>2. /\ fork_at' = [fork_at EXCEPT ![e] = "child"]
        /\ fork_pn' = [fork_pn EXCEPT ![e] = Min(todo)]
    BY <1>4, <1>a, Zenon
  <2>3. fork_at'[e] = "child" /\ fork_pn'[e] = Min(todo)
    BY <2>2, Zenon DEF TypeOK
  <2>4. \A va \in VAs : Maps(e, va) /\ from <= va => Min(todo) <= va
    <3> SUFFICES ASSUME NEW va \in VAs, Maps(e, va), from <= va PROVE Min(todo) <= va
      BY Zenon
    <3>1. CASE va # UXSTACK
      BY <1>1, <2>1, <3>1, Zenon
    <3>2. CASE va = UXSTACK
      <4>1. Min(todo) \in VAs \ {UXSTACK}
        BY <1>1, <2>1, Zenon
      <4>2. Min(todo) \in Nat /\ UXSTACK \in Nat
        BY <1>0, <4>1, Zenon
      <4>3. Min(todo) < UXSTACK
        BY <1>0, <4>1, Zenon
      <4> QED
        BY <3>2, <4>2, <4>3
    <3> QED
      BY <3>1, <3>2, Zenon
  <2> QED
    BY <1>1, <2>1, <2>2, <2>3, <2>4, Zenon DEF TypeOK
<1> QED
  BY <1>3, <1>4, Zenon

-----------------------------------------------------------------------------
(* The invariant is inductive. *)

\* Where the program's addresses are.
LEMMA Layout ==
    /\ VAs \subseteq Nat
    /\ \A va \in Private \cup Shared : va \in VAs /\ va # PFTEMP /\ va # UXSTACK
    /\ \A va \in Shared : va \in VAs /\ va # PFTEMP /\ va # UXSTACK /\ va \notin Data \cup {Stack}
    /\ \A va \in Data \cup {Stack} : va \in VAs /\ va # PFTEMP /\ va # UXSTACK
    /\ PFTEMP \in VAs /\ UXSTACK \in VAs /\ PFTEMP # UXSTACK
    /\ \A va \in VAs \ {PFTEMP} : PFTEMP < va
    /\ \A va \in VAs \ {UXSTACK} : va < UXSTACK
    /\ NULL \notin Entry /\ NULL \notin Envs /\ NULL \notin VAs
BY ForkAssumption, Zenon DEF ForkAssumption, VAs, Private

\* An environment that a step does not touch keeps what it has.
LEMMA LocalFrame ==
    ASSUME NEW f \in Envs, Local(f),
           \A wa \in VAs : pte'[f][wa] = pte[f][wa],
           status'[f] = status[f], fork_at'[f] = fork_at[f], fork_pn'[f] = fork_pn[f],
           pf_at'[f] = pf_at[f], pf_va'[f] = pf_va[f]
    PROVE  Local(f)'
<1> USE DEF Maps, Has, Looping
<1>1. LifeOf(f)'
  BY Layout, Zenon DEF Local, LifeOf
<1>2. AtPageOf(f)'
  BY Layout, Zenon DEF Local, AtPageOf
<1>3. HandlerOf(f)'
  BY Layout, Zenon DEF Local, HandlerOf
<1>4. ASSUME NEW va \in VAs PROVE CowAt(f, va)' /\ ShareAt(f, va)'
  BY Layout, Zenon DEF Local, CowAt, ShareAt
<1> QED
  BY <1>1, <1>2, <1>3, <1>4, Zenon DEF Local

\* A copy stays one when the page table is the same and mapped pages are kept.
LEMMA CopyKept ==
    ASSUME IInv, NEW f \in Envs, pf_at[f] = "map", pf_va'[f] = pf_va[f],
           \A wa \in VAs : pte'[f][wa] = pte[f][wa],
           \A g \in Envs, wa \in VAs : pte'[g][wa] # NULL =>
               content'[pte'[g][wa].pp] = content[pte'[g][wa].pp]
    PROVE  CopyDoneOf(f)'
<1>1. CopyDoneOf(f) /\ TempOf(f) /\ HandlerOf(f)
  BY Zenon DEF IInv, CopyDone, Temp, Local
<1>2. pf_va[f] \in VAs /\ pte[f][PFTEMP] # NULL /\ pte[f][pf_va[f]] # NULL
  BY <1>1, Layout, Zenon DEF TempOf, HandlerOf, Has, Maps
<1>3. pte'[f][PFTEMP] = pte[f][PFTEMP] /\ pte'[f][pf_va[f]] = pte[f][pf_va[f]]
  BY <1>2, Layout, Zenon
<1>4. content'[pte'[f][PFTEMP].pp] = content[pte[f][PFTEMP].pp]
  BY <1>2, <1>3, Layout
<1>5. content'[pte'[f][pf_va[f]].pp] = content[pte[f][pf_va[f]].pp]
  BY <1>2, <1>3, Zenon
<1> QED
  BY <1>1, <1>4, <1>5, Zenon DEF CopyDoneOf

\* A step that leaves page tables and fork() alone keeps what these alone tell.
LEMMA TablesKept ==
    ASSUME Parents, Copied, Owned, XStack, ShareSame,
           UNCHANGED <<pte, status, fork_at, fork_child, fork_pn>>
    PROVE  Parents' /\ Copied' /\ Owned' /\ XStack' /\ ShareSame'
<1>1. Parents'
  BY Zenon DEF Parents, ParentOf, Maps
<1>2. Copied'
  BY Zenon DEF Copied, CopiedAt, Passed, Looping, Same, Maps
<1>3. Owned'
  BY DEF Owned, OwnedAt, Looping, Has, Same, Maps
<1>4. XStack'
  BY Zenon DEF XStack, XStackOf, Has, Same, Maps
<1>5. ShareSame'
  BY DEF ShareSame, ShareSameAt, Maps
<1> QED
  BY <1>1, <1>2, <1>3, <1>4, <1>5, Zenon

\* The use of an address stays the one it has when its entry stays.
LEMMA ShareKept ==
    ASSUME NEW f \in Envs, NEW va \in VAs, Local(f), pte'[f][va] = pte[f][va]
    PROVE  ShareAt(f, va)'
BY Zenon DEF Local, ShareAt, Maps

\* The exception stack's page is not a shared one.
LEMMA ShareStack ==
    ASSUME NEW f \in Envs, pte'[f][UXSTACK].perm = "W"
    PROVE  ShareAt(f, UXSTACK)'
<1>1. UXSTACK \notin Shared /\ UXSTACK # PFTEMP
  BY Layout, Zenon
<1> QED
  BY <1>1, Zenon DEF ShareAt, Maps

\* A step that leaves every environment the content of its pages is not seen.
LEMMA Unseen ==
    ASSUME \A f \in Envs : status'[f] = "alive" <=> status[f] = "alive",
           \A f \in Envs, va \in Private \cup Shared :
               status[f] = "alive" => content'[pte'[f][va].pp] = content[pte[f][va].pp]
    PROVE  UNCHANGED <<Alive, Mem>>
<1>1. Alive' = Alive
  BY Zenon DEF Alive
<1>2. ASSUME NEW f \in Envs
      PROVE  [va \in Private \cup Shared |->
                 IF status'[f] = "alive" THEN content'[pte'[f][va].pp] ELSE NULL]
             = [va \in Private \cup Shared |->
                 IF status[f] = "alive" THEN content[pte[f][va].pp] ELSE NULL]
  BY Zenon
<1>3. Mem' = Mem
  BY <1>2, Zenon DEF Mem
<1> QED
  BY <1>1, <1>3, Zenon

\* A write to a copy-on-write page enters pgfault().
LEMMA StepFault ==
    ASSUME IInv, NEW e \in Envs, NEW y \in VAs, page_fault(e, y)
    PROVE  IInv' /\ UNCHANGED <<Alive, Mem>>
<1> USE DEF Maps, Has, Same, Looping, Passed
<1>0. /\ TypeOK /\ \A f \in Envs : Local(f)
      /\ Parents /\ Copied /\ Temp /\ CopyDone /\ Owned /\ XStack /\ ShareSame
  BY Zenon DEF IInv
<1>1. /\ UNCHANGED <<pte, content, status, fork_at, fork_child, fork_pn, forks>>
      /\ pf_at' = [pf_at EXCEPT ![e] = "alloc"] /\ pf_va' = [pf_va EXCEPT ![e] = y]
  BY Zenon DEF page_fault, forkVars
<1>2. /\ status[e] = "alive" /\ y \in Data \cup Shared \cup {Stack} /\ pte[e][y] # NULL
      /\ pte[e][y].perm = "COW" /\ (fork_at[e] # "none" => y = Stack)
  BY Zenon DEF page_fault, Executes
<1>3. /\ pf_at'[e] = "alloc" /\ pf_va'[e] = y
      /\ \A f \in Envs \ {e} : pf_at'[f] = pf_at[f] /\ pf_va'[f] = pf_va[f]
  BY <1>0, <1>1, Zenon DEF TypeOK
<1>10. TypeOK'
  BY <1>0, <1>1, Zenon DEF TypeOK
<1>11. ASSUME NEW f \in Envs PROVE Local(f)'
  <2>0. Local(f)
    BY <1>0, Zenon
  <2>1. CASE f # e
    BY <1>1, <1>3, <2>0, <2>1, LocalFrame, Zenon
  <2>2. CASE f = e
    <3>1. LifeOf(e)' /\ AtPageOf(e)'
      BY <1>1, <1>2, <2>0, <2>2, Zenon DEF Local, LifeOf, AtPageOf
    <3>2. ShareAt(e, y)
      BY <2>0, <2>2, Zenon DEF Local
    <3>3. HandlerOf(e)'
      BY <1>1, <1>2, <1>3, <3>2, Layout, Zenon DEF HandlerOf, ShareAt
    <3>4. ASSUME NEW va \in VAs PROVE CowAt(e, va)' /\ ShareAt(e, va)'
      BY <1>1, <2>0, <2>2, Zenon DEF Local, CowAt, ShareAt
    <3> QED
      BY <2>2, <3>1, <3>3, <3>4, Zenon DEF Local
  <2> QED
    BY <2>1, <2>2, Zenon
<1>12. Parents' /\ Copied' /\ Owned' /\ XStack' /\ ShareSame'
  BY <1>0, <1>1, TablesKept, Zenon
<1>16. Temp'
  BY <1>0, <1>1, <1>3 DEF Temp, TempOf
<1>17. CopyDone'
  BY <1>0, <1>1, <1>3 DEF CopyDone, CopyDoneOf
<1>23. UNCHANGED <<Alive, Mem>>
  BY <1>1, Zenon DEF Alive, Mem
<1> QED
  BY <1>10, <1>11, <1>12, <1>16, <1>17, <1>23, Zenon DEF IInv

\* A page that some environment can write to is not the one that another copies.
LEMMA WriteElsewhere ==
    ASSUME IInv, NEW e \in Envs, NEW y \in VAs, NEW v, write(e, y, v), NEW f \in Envs, pf_at[f] = "map"
    PROVE  /\ Maps(f, PFTEMP) /\ pf_va[f] \in VAs /\ Maps(f, pf_va[f])
           /\ pte[f][PFTEMP].pp # pte[e][y].pp /\ pte[f][pf_va[f]].pp # pte[e][y].pp
<1> USE DEF Maps, Has, Same, Looping
<1>1. /\ status[e] = "alive" /\ y \in Data \cup Shared \cup {Stack} /\ pte[e][y] # NULL
      /\ pte[e][y].perm \in {"W", "SHARE"} /\ pf_at[e] = "none"
  BY Zenon DEF write, Executes
<1>2. Local(f) /\ Local(e) /\ TempOf(f) /\ f # e
  BY <1>1, Zenon DEF IInv, Temp
<1>3. /\ pte[f][PFTEMP] # NULL /\ pf_va[f] \in VAs /\ pte[f][pf_va[f]] # NULL
      /\ pf_va[f] \notin Shared /\ status[f] = "alive"
  BY <1>2, Layout, Zenon DEF Local, LifeOf, HandlerOf, TempOf
<1>4. pte[f][PFTEMP].pp # pte[e][y].pp
  BY <1>1, <1>2, Zenon DEF TempOf
<1>5. CASE y \in Shared
  <2>1. ShareSameAt(e, f, y, pf_va[f])
    BY <1>3, <1>5, Zenon DEF IInv, ShareSame
  <2> QED
    BY <1>1, <1>3, <1>4, <1>5, <2>1, Zenon DEF ShareSameAt
<1>6. CASE y \notin Shared
  <2>1. pte[e][y].perm = "W"
    BY <1>1, <1>2, <1>6, Zenon DEF Local, ShareAt
  <2>2. OwnedAt(e, f, y, pf_va[f])
    BY <1>1, <1>3, <1>6, Layout, Zenon DEF IInv, Owned
  <2>3. fork_at[e] # "none" => fork_child[e] # f
    BY <1>3, Zenon DEF IInv, Parents, ParentOf
  <2> QED
    BY <1>1, <1>2, <1>3, <1>4, <2>1, <2>2, <2>3, Zenon DEF OwnedAt
<1> QED
  BY <1>5, <1>6, Zenon

\* A write changes no page that is being copied.
LEMMA StepWrite ==
    ASSUME IInv, NEW e \in Envs, NEW y \in VAs, NEW v \in Writes[e], write(e, y, v)
    PROVE  IInv'
<1> USE DEF Maps, Has, Same, Looping, Passed
<1>0. /\ TypeOK /\ \A f \in Envs : Local(f)
      /\ Parents /\ Copied /\ Temp /\ CopyDone /\ Owned /\ XStack /\ ShareSame
  BY Zenon DEF IInv
<1>1. /\ UNCHANGED <<pte, status, fork_at, fork_child, fork_pn, pf_at, pf_va, forks>>
      /\ content' = [content EXCEPT ![pte[e][y].pp] = v]
  BY Zenon DEF write, forkVars, pfVars
<1>2. v \in Val
  BY ForkAssumption, Zenon DEF ForkAssumption
<1>10. TypeOK'
  BY <1>0, <1>1, <1>2, Zenon DEF TypeOK
<1>11. ASSUME NEW f \in Envs PROVE Local(f)'
  BY <1>0, <1>1, LocalFrame, Zenon
<1>12. Parents' /\ Copied' /\ Owned' /\ XStack' /\ ShareSame'
  BY <1>0, <1>1, TablesKept, Zenon
<1>16. Temp'
  <2> SUFFICES ASSUME NEW f \in Envs PROVE TempOf(f)'
    BY Zenon DEF Temp
  <2>1. TempOf(f)
    BY <1>0, Zenon DEF Temp
  <2> QED
    BY <1>1, <2>1, Zenon DEF TempOf
<1>17. CopyDone'
  <2> SUFFICES ASSUME NEW f \in Envs, pf_at'[f] = "map"
               PROVE  content'[pte'[f][PFTEMP].pp] = content'[pte'[f][pf_va'[f]].pp]
    BY Zenon DEF CopyDone, CopyDoneOf
  <2>1. /\ pte[f][PFTEMP].pp # pte[e][y].pp /\ pte[f][pf_va[f]].pp # pte[e][y].pp
        /\ pte[f][PFTEMP] # NULL /\ pf_va[f] \in VAs /\ pte[f][pf_va[f]] # NULL
    BY <1>1, WriteElsewhere, Zenon
  <2>2. pte[f][PFTEMP].pp \in Pages /\ pte[f][pf_va[f]].pp \in Pages
    BY <1>0, <2>1, EntryType, Layout, Zenon
  <2>3. CopyDoneOf(f)
    BY <1>0, Zenon DEF CopyDone
  <2> QED
    BY <1>0, <1>1, <2>1, <2>2, <2>3, Zenon DEF CopyDoneOf, TypeOK
<1> QED
  BY <1>10, <1>11, <1>12, <1>16, <1>17, Zenon DEF IInv

\* pgfault() maps a new page at PFTEMP.
LEMMA StepAlloc ==
    ASSUME IInv, NEW e \in Envs, pgfault_alloc(e)
    PROVE  IInv' /\ UNCHANGED <<Alive, Mem>>
<1> USE DEF Maps, Has, Same, Looping, Passed
<1>0. /\ TypeOK /\ \A f \in Envs : Local(f)
      /\ Parents /\ Copied /\ Temp /\ CopyDone /\ Owned /\ XStack /\ ShareSame
  BY Zenon DEF IInv
<1>1. /\ pte' \in [Envs -> [VAs -> Entry \cup {NULL}]] /\ content' \in [Pages -> Val]
      /\ pte'[e][PFTEMP] # NULL /\ pte'[e][PFTEMP].perm = "W"
      /\ \A f \in Envs, wa \in VAs : f # e \/ wa # PFTEMP => pte'[f][wa] = pte[f][wa]
      /\ \A f \in Envs, wa \in VAs : pte[f][wa] # NULL => pte[f][wa].pp # pte'[e][PFTEMP].pp
      /\ \A f \in Envs, wa \in VAs : pte'[f][wa] # NULL =>
             content'[pte'[f][wa].pp] = content[pte'[f][wa].pp]
  BY <1>0, NewPage, Layout, Zenon DEF pgfault_alloc
<1>2. /\ UNCHANGED <<status, fork_at, fork_child, fork_pn, pf_va, forks>>
      /\ pf_at[e] = "alloc" /\ pf_at' = [pf_at EXCEPT ![e] = "copy"]
  BY Zenon DEF pgfault_alloc, forkVars
<1>3. pf_at'[e] = "copy" /\ \A f \in Envs \ {e} : pf_at'[f] = pf_at[f]
  BY <1>0, <1>2, Zenon DEF TypeOK
<1>4. status[e] = "alive"
  BY <1>0, <1>2, Zenon DEF Local, LifeOf
<1>10. TypeOK'
  BY <1>0, <1>1, <1>2, Zenon DEF TypeOK
<1>11. ASSUME NEW f \in Envs PROVE Local(f)'
  <2>0. Local(f)
    BY <1>0, Zenon
  <2>1. CASE f # e
    BY <1>1, <1>2, <1>3, <2>0, <2>1, LocalFrame, Zenon
  <2>2. CASE f = e
    <3>1. LifeOf(e)'
      BY <1>1, <1>2, <1>4, <2>0, <2>2, Layout DEF Local, LifeOf
    <3>2. AtPageOf(e)'
      BY <1>1, <1>2, <2>0, <2>2, Zenon DEF Local, AtPageOf
    <3>3. HandlerOf(e)'
      <4>1. HandlerOf(e)
        BY <2>0, <2>2, Zenon DEF Local
      <4>2. pte'[e][pf_va[e]] = pte[e][pf_va[e]]
        <5>1. pf_va[e] \in VAs /\ pf_va[e] # PFTEMP
          BY <1>2, <4>1, Layout, Zenon DEF HandlerOf
        <5> QED
          BY <1>1, <5>1, Zenon
      <4> QED
        BY <1>2, <4>1, <4>2, Zenon DEF HandlerOf
    <3>4. ASSUME NEW va \in VAs PROVE CowAt(e, va)' /\ ShareAt(e, va)'
      BY <1>1, <1>2, <2>0, <2>2, Layout DEF Local, CowAt, ShareAt
    <3> QED
      BY <2>2, <3>1, <3>2, <3>3, <3>4, Zenon DEF Local
  <2> QED
    BY <2>1, <2>2, Zenon
<1>12. Parents'
  <2> SUFFICES ASSUME NEW f \in Envs PROVE ParentOf(f)'
    BY Zenon DEF Parents
  <2>1. ParentOf(f) /\ pte'[f][UXSTACK] = pte[f][UXSTACK]
    BY <1>0, <1>1, Layout, Zenon DEF Parents
  <2> QED
    BY <1>2, <2>1, Zenon DEF ParentOf
<1>14. Copied'
  <2> SUFFICES ASSUME NEW f \in Envs, NEW va \in Private \cup Shared PROVE CopiedAt(f, va)'
    BY Zenon DEF Copied
  <2>1. CopiedAt(f, va) /\ ParentOf(f)
    BY <1>0, Zenon DEF Copied, Parents
  <2>2. \A g \in Envs : pte'[g][va] = pte[g][va]
    BY <1>1, Layout, Zenon
  <2> QED
    BY <1>2, <2>1, <2>2, Zenon DEF CopiedAt, ParentOf
<1>16. Temp'
  <2> SUFFICES ASSUME NEW f \in Envs PROVE TempOf(f)'
    BY Zenon DEF Temp
  <2> QED
    BY <1>0, <1>1, <1>2, <1>3, Layout DEF Temp, TempOf
<1>17. CopyDone'
  <2> SUFFICES ASSUME NEW f \in Envs, pf_at'[f] = "map" PROVE CopyDoneOf(f)'
    BY Zenon DEF CopyDone, CopyDoneOf
  <2>1. f # e /\ pf_at[f] = "map"
    BY <1>3, Zenon
  <2>2. pf_va'[f] = pf_va[f] /\ \A wa \in VAs : pte'[f][wa] = pte[f][wa]
    BY <1>1, <1>2, <2>1, Zenon
  <2> QED
    BY <1>1, <2>1, <2>2, CopyKept, Zenon
<1>18. Owned'
  <2> SUFFICES ASSUME NEW f \in Envs, NEW g \in Envs, NEW va \in VAs \ {PFTEMP}, NEW wa \in VAs
               PROVE  OwnedAt(f, g, va, wa)'
    BY Zenon DEF Owned
  <2>1. OwnedAt(f, g, va, wa) /\ va \in VAs
    BY <1>0, Zenon DEF Owned
  <2>2. pte'[f][va] = pte[f][va]
    BY <1>1, <2>1, Zenon
  <2>3. CASE g = e /\ wa = PFTEMP
    BY <1>1, <2>1, <2>2, <2>3 DEF OwnedAt
  <2>4. CASE ~(g = e /\ wa = PFTEMP)
    <3>1. pte'[g][wa] = pte[g][wa]
      BY <1>1, <2>4, Zenon
    <3> QED
      BY <1>2, <2>1, <2>2, <3>1, Zenon DEF OwnedAt
  <2> QED
    BY <2>3, <2>4, Zenon
<1>19. XStack'
  <2> SUFFICES ASSUME NEW f \in Envs PROVE XStackOf(f)'
    BY Zenon DEF XStack
  <2> QED
    BY <1>0, <1>1, Layout DEF XStack, XStackOf
<1>22. ShareSame'
  <2> SUFFICES ASSUME NEW f \in Envs, NEW g \in Envs, NEW va \in Shared, NEW wa \in VAs
               PROVE  ShareSameAt(f, g, va, wa)'
    BY Zenon DEF ShareSame
  <2>1. ShareSameAt(f, g, va, wa) /\ va \in VAs /\ va # PFTEMP
    BY <1>0, Layout, Zenon DEF ShareSame
  <2>2. pte'[f][va] = pte[f][va]
    BY <1>1, <2>1, Zenon
  <2>3. CASE g = e /\ wa = PFTEMP
    BY <1>1, <2>1, <2>2, <2>3 DEF ShareSameAt
  <2>4. CASE ~(g = e /\ wa = PFTEMP)
    BY <1>1, <2>1, <2>2, <2>4, ZenonT(30) DEF ShareSameAt
  <2> QED
    BY <2>3, <2>4, Zenon
<1>23. UNCHANGED <<Alive, Mem>>
  <2>1. ASSUME NEW f \in Envs, NEW va \in Private \cup Shared, status[f] = "alive"
        PROVE  content'[pte'[f][va].pp] = content[pte[f][va].pp]
    <3>1. va \in VAs /\ va # PFTEMP /\ pte[f][va] # NULL
      BY <1>0, <2>1, Layout, Zenon DEF Local, LifeOf
    <3> QED
      BY <1>1, <3>1
  <2> QED
    BY <1>2, <2>1, Unseen, Zenon
<1> QED
  BY <1>10, <1>11, <1>12, <1>14, <1>16, <1>17, <1>18, <1>19, <1>22, <1>23, Zenon DEF IInv

\* pgfault() copies the page to PFTEMP, which nobody else maps.
LEMMA StepCopy ==
    ASSUME IInv, NEW e \in Envs, pgfault_copy(e)
    PROVE  IInv' /\ UNCHANGED <<Alive, Mem>>
<1> USE DEF Maps, Has, Same, Looping, Passed
<1>0. /\ TypeOK /\ \A f \in Envs : Local(f)
      /\ Parents /\ Copied /\ Temp /\ CopyDone /\ Owned /\ XStack /\ ShareSame
  BY Zenon DEF IInv
<1> DEFINE v == content[pte[e][pf_va[e]].pp]
<1>1. /\ UNCHANGED <<pte, status, fork_at, fork_child, fork_pn, pf_va, forks>>
      /\ pf_at[e] = "copy" /\ pf_at' = [pf_at EXCEPT ![e] = "map"]
      /\ content' = [content EXCEPT ![pte[e][PFTEMP].pp] = v]
  BY Zenon DEF pgfault_copy, copy, forkVars
<1>2. pf_at'[e] = "map" /\ \A f \in Envs \ {e} : pf_at'[f] = pf_at[f]
  BY <1>0, <1>1, Zenon DEF TypeOK
<1>3. Local(e) /\ TempOf(e)
  BY <1>0, Zenon DEF Temp
<1>4. /\ pf_va[e] \in VAs /\ pf_va[e] # PFTEMP /\ pte[e][pf_va[e]] # NULL /\ pte[e][PFTEMP] # NULL
      /\ status[e] = "alive"
  BY <1>1, <1>3, Layout, Zenon DEF Local, LifeOf, HandlerOf, TempOf
<1>5. pte[e][pf_va[e]].pp \in Pages /\ pte[e][PFTEMP].pp \in Pages
  BY <1>0, <1>4, EntryType, Layout, Zenon
<1>6. v \in Val
  BY <1>0, <1>5, Zenon DEF TypeOK
<1>7. /\ content'[pte[e][PFTEMP].pp] = v
      /\ \A p \in Pages \ {pte[e][PFTEMP].pp} : content'[p] = content[p]
  BY <1>0, <1>1, <1>5, Zenon DEF TypeOK
<1>8. \A f \in Envs, wa \in VAs : pte[f][wa] # NULL /\ (f # e \/ wa # PFTEMP) =>
        /\ pte[f][wa].pp \in Pages /\ pte[f][wa].pp # pte[e][PFTEMP].pp
        /\ content'[pte[f][wa].pp] = content[pte[f][wa].pp]
  <2> SUFFICES ASSUME NEW f \in Envs, NEW wa \in VAs, pte[f][wa] # NULL, f # e \/ wa # PFTEMP
               PROVE  /\ pte[f][wa].pp \in Pages /\ pte[f][wa].pp # pte[e][PFTEMP].pp
                      /\ content'[pte[f][wa].pp] = content[pte[f][wa].pp]
    BY Zenon
  <2>1. pte[f][wa].pp \in Pages
    BY <1>0, EntryType, Zenon
  <2>2. pte[f][wa].pp # pte[e][PFTEMP].pp
    BY <1>1, <1>3, <1>4, Zenon DEF TempOf
  <2> QED
    BY <1>7, <2>1, <2>2, Zenon
<1> HIDE DEF v
<1>10. TypeOK'
  BY <1>0, <1>1, <1>6, Zenon DEF TypeOK
<1>11. ASSUME NEW f \in Envs PROVE Local(f)'
  <2>0. Local(f)
    BY <1>0, Zenon
  <2>1. CASE f # e
    BY <1>1, <1>2, <2>0, <2>1, LocalFrame, Zenon
  <2>2. CASE f = e
    <3>1. LifeOf(e)'
      BY <1>1, <1>3, <1>4, Zenon DEF Local, LifeOf
    <3>2. AtPageOf(e)' /\ HandlerOf(e)'
      BY <1>1, <1>3, Zenon DEF Local, AtPageOf, HandlerOf
    <3>3. ASSUME NEW va \in VAs PROVE CowAt(e, va)' /\ ShareAt(e, va)'
      BY <1>1, <1>3, Zenon DEF Local, CowAt, ShareAt
    <3> QED
      BY <2>2, <3>1, <3>2, <3>3, Zenon DEF Local
  <2> QED
    BY <2>1, <2>2, Zenon
<1>12. Parents' /\ Copied' /\ Owned' /\ XStack' /\ ShareSame'
  BY <1>0, <1>1, TablesKept, Zenon
<1>16. Temp'
  BY <1>0, <1>1, <1>2 DEF Temp, TempOf
<1>17. CopyDone'
  <2> SUFFICES ASSUME NEW f \in Envs, pf_at'[f] = "map" PROVE CopyDoneOf(f)'
    BY Zenon DEF CopyDone, CopyDoneOf
  <2>1. CASE f = e
    <3>1. content'[pte[e][pf_va[e]].pp] = content[pte[e][pf_va[e]].pp]
      BY <1>4, <1>8, Zenon
    <3> QED
      BY <1>1, <1>7, <2>1, <3>1, Zenon DEF CopyDoneOf, v
  <2>2. CASE f # e
    <3>1. pf_at[f] = "map" /\ CopyDoneOf(f) /\ TempOf(f) /\ HandlerOf(f)
      BY <1>0, <1>2, <2>2, Zenon DEF CopyDone, Temp, Local
    <3>2. pf_va[f] \in VAs /\ pte[f][PFTEMP] # NULL /\ pte[f][pf_va[f]] # NULL
      BY <3>1, Layout, Zenon DEF TempOf, HandlerOf
    <3>3. /\ content'[pte[f][PFTEMP].pp] = content[pte[f][PFTEMP].pp]
          /\ content'[pte[f][pf_va[f]].pp] = content[pte[f][pf_va[f]].pp]
      BY <1>8, <2>2, <3>2, Layout, Zenon
    <3> QED
      BY <1>1, <3>1, <3>3, Zenon DEF CopyDoneOf
  <2> QED
    BY <2>1, <2>2, Zenon
<1>23. UNCHANGED <<Alive, Mem>>
  <2>1. ASSUME NEW f \in Envs, NEW va \in Private \cup Shared, status[f] = "alive"
        PROVE  content'[pte'[f][va].pp] = content[pte[f][va].pp]
    <3>1. va \in VAs /\ va # PFTEMP /\ pte[f][va] # NULL
      BY <1>0, <2>1, Layout, Zenon DEF Local, LifeOf
    <3> QED
      BY <1>1, <1>8, <3>1
  <2> QED
    BY <1>1, <2>1, Unseen, Zenon
<1> QED
  BY <1>10, <1>11, <1>12, <1>16, <1>17, <1>23, Zenon DEF IInv

\* pgfault() maps the copy in place of the page that it was made from.
LEMMA StepMap ==
    ASSUME IInv, NEW e \in Envs, pgfault_map(e)
    PROVE  IInv' /\ UNCHANGED <<Alive, Mem>>
<1> USE DEF Maps, Has, Same, Looping, Passed
<1>0. /\ TypeOK /\ \A f \in Envs : Local(f)
      /\ Parents /\ Copied /\ Temp /\ CopyDone /\ Owned /\ XStack /\ ShareSame
  BY Zenon DEF IInv
<1> DEFINE y == pf_va[e]
           n == [pp |-> pte[e][PFTEMP].pp, perm |-> "W"]
           t == [pte EXCEPT ![e][y] = n]
<1>1. /\ UNCHANGED <<status, fork_at, fork_child, fork_pn, forks>>
      /\ pf_at[e] = "map" /\ pf_at' = [pf_at EXCEPT ![e] = "none"]
      /\ pf_va' = [pf_va EXCEPT ![e] = NULL]
  BY Zenon DEF pgfault_map, forkVars
<1>2. /\ pf_at'[e] = "none" /\ \A f \in Envs \ {e} : pf_at'[f] = pf_at[f] /\ pf_va'[f] = pf_va[f]
  BY <1>0, <1>1, Zenon DEF TypeOK
<1>3. Local(e) /\ TempOf(e)
  BY <1>0, Zenon DEF Temp
<1>4. /\ y \in VAs /\ y \in Data \cup {Stack} /\ y # PFTEMP /\ y # UXSTACK
      /\ pte[e][y] # NULL /\ pte[e][PFTEMP] # NULL
      /\ y \notin Shared /\ status[e] = "alive" /\ (fork_at[e] # "none" => y = Stack)
      /\ pte[e][UXSTACK] # NULL
  BY <1>1, <1>3, Layout, Zenon DEF Local, LifeOf, HandlerOf, TempOf, CowAt
<1>5. n \in Entry /\ n # NULL /\ n.perm = "W" /\ n.pp = pte[e][PFTEMP].pp
  <2>1. n \in Entry
    BY <1>0, <1>4, EntryType, Layout, Zenon DEF Entry, Perm
  <2> QED
    BY <2>1, Layout, Zenon
<1>6. Remap(t)
  BY Zenon DEF pgfault_map
<1> HIDE DEF n
<1>7. /\ t \in [Envs -> [VAs -> Entry \cup {NULL}]]
      /\ t[e][y] = n
      /\ \A f \in Envs, wa \in VAs : f # e \/ wa # y => t[f][wa] = pte[f][wa]
  BY <1>0, <1>4, <1>5, OneEntry
<1> HIDE DEF t
<1>8. /\ pte' = t /\ content' \in [Pages -> Val]
      /\ \A f \in Envs, wa \in VAs : pte'[f][wa] # NULL =>
             content'[pte'[f][wa].pp] = content[pte'[f][wa].pp]
  BY <1>0, <1>6, <1>7, RemapKeeps, Zenon
<1>9. /\ pte'[e][y] # NULL /\ pte'[e][y].perm = "W" /\ pte'[e][y].pp = pte[e][PFTEMP].pp
      /\ \A f \in Envs, wa \in VAs : f # e \/ wa # y => pte'[f][wa] = pte[f][wa]
  BY <1>5, <1>7, <1>8, Zenon
<1> HIDE DEF y
<1>10. TypeOK'
  BY <1>0, <1>1, <1>7, <1>8, Zenon DEF TypeOK
<1>11. ASSUME NEW f \in Envs PROVE Local(f)'
  <2>0. Local(f)
    BY <1>0, Zenon
  <2>1. CASE f # e
    BY <1>1, <1>2, <1>9, <2>0, <2>1, LocalFrame, Zenon
  <2>2. CASE f = e
    <3>1. LifeOf(e)'
      BY <1>1, <1>3, <1>4, <1>9, Layout, Zenon DEF Local, LifeOf
    <3>2. AtPageOf(e)'
      BY <1>1, <1>3, <1>9, Zenon DEF Local, AtPageOf
    <3>3. HandlerOf(e)'
      BY <1>2, Zenon DEF HandlerOf
    <3>4. ASSUME NEW va \in VAs PROVE CowAt(e, va)' /\ ShareAt(e, va)'
      BY <1>1, <1>3, <1>4, <1>9, Layout DEF Local, CowAt, ShareAt
    <3> QED
      BY <2>2, <3>1, <3>2, <3>3, <3>4, Zenon DEF Local
  <2> QED
    BY <2>1, <2>2, Zenon
<1>12. Parents'
  <2> SUFFICES ASSUME NEW f \in Envs, fork_at[f] # "none" PROVE ParentOf(f)'
    BY <1>1, Zenon DEF Parents, ParentOf
  <2>1. ParentOf(f)
    BY <1>0, Zenon DEF Parents
  <2>2. pte'[f][UXSTACK] = pte[f][UXSTACK]
    BY <1>4, <1>9, Layout, Zenon
  <2> QED
    BY <1>1, <2>1, <2>2, Zenon DEF ParentOf
<1>14. Copied'
  <2> SUFFICES ASSUME NEW f \in Envs, NEW va \in Private \cup Shared, Passed(f, va)
               PROVE  /\ pte'[fork_child[f]][va] # NULL
                      /\ va # Stack => /\ pte'[f][va] # NULL
                                       /\ pte'[f][va].pp = pte'[fork_child[f]][va].pp
    BY <1>1, Zenon DEF Copied, CopiedAt
  <2>1. CopiedAt(f, va) /\ ParentOf(f) /\ va \in VAs /\ fork_at[f] # "none"
    BY <1>0, Layout, Zenon DEF Copied, Parents
  <2>2. fork_child[f] \in Envs /\ fork_child[f] # e
    BY <1>4, <2>1, Zenon DEF ParentOf
  <2>3. pte'[fork_child[f]][va] = pte[fork_child[f]][va]
    BY <1>9, <2>1, <2>2, Zenon
  <2>4. va # Stack => pte'[f][va] = pte[f][va]
    BY <1>4, <1>9, <2>1, Zenon
  <2> QED
    BY <2>1, <2>3, <2>4, Zenon DEF CopiedAt
<1>16. Temp'
  <2> SUFFICES ASSUME NEW f \in Envs, pf_at'[f] \in {"copy", "map"} PROVE TempOf(f)'
    BY Zenon DEF Temp, TempOf
  <2>1. f # e /\ pf_at[f] \in {"copy", "map"} /\ TempOf(f)
    BY <1>0, <1>2, Zenon DEF Temp
  <2>2. pte'[f][PFTEMP] = pte[f][PFTEMP]
    BY <1>9, <2>1, Layout, Zenon
  <2>3. ASSUME NEW g \in Envs, NEW wa \in VAs, Same(f, PFTEMP, g, wa)'
        PROVE  g = f /\ wa = PFTEMP
    <3>1. CASE g = e /\ wa = y
      BY <1>4, <1>9, <2>1, <2>2, <2>3, <3>1, Layout DEF TempOf
    <3>2. CASE g # e \/ wa # y
      BY <1>9, <2>1, <2>2, <2>3, <3>2, Zenon DEF TempOf
    <3> QED
      BY <3>1, <3>2, Zenon
  <2> QED
    BY <2>1, <2>2, <2>3, Zenon DEF TempOf
<1>17. CopyDone'
  <2> SUFFICES ASSUME NEW f \in Envs, pf_at'[f] = "map" PROVE CopyDoneOf(f)'
    BY Zenon DEF CopyDone, CopyDoneOf
  <2>1. f # e /\ pf_at[f] = "map"
    BY <1>2, Zenon
  <2>2. pf_va'[f] = pf_va[f] /\ \A wa \in VAs : pte'[f][wa] = pte[f][wa]
    BY <1>2, <1>9, <2>1, Zenon
  <2> QED
    BY <1>8, <2>1, <2>2, CopyKept, Zenon
<1>18. Owned'
  <2> SUFFICES ASSUME NEW f \in Envs, NEW g \in Envs, NEW va \in VAs \ {PFTEMP}, NEW wa \in VAs
               PROVE  OwnedAt(f, g, va, wa)'
    BY Zenon DEF Owned
  <2>1. OwnedAt(f, g, va, wa) /\ va \in VAs /\ va # PFTEMP
    BY <1>0, Zenon DEF Owned
  <2>2. CASE f = e /\ va = y
    <3>1. CASE g = e /\ wa = y
      BY <2>2, <3>1, Zenon DEF OwnedAt
    <3>2. CASE g # e \/ wa # y
      <4>1. pte'[g][wa] = pte[g][wa]
        BY <1>9, <3>2, Zenon
      <4> QED
        BY <1>1, <1>3, <1>4, <1>9, <2>2, <4>1 DEF OwnedAt, TempOf
    <3> QED
      BY <3>1, <3>2, Zenon
  <2>3. CASE f # e \/ va # y
    <3>0. pte'[f][va] = pte[f][va]
      BY <1>9, <2>1, <2>3, Zenon
    <3>1. CASE g = e /\ wa = y
      BY <1>1, <1>3, <1>4, <1>9, <2>1, <3>0, <3>1 DEF OwnedAt, TempOf
    <3>2. CASE g # e \/ wa # y
      <4>1. pte'[g][wa] = pte[g][wa]
        BY <1>9, <3>2, Zenon
      <4> QED
        BY <1>1, <2>1, <3>0, <4>1, Zenon DEF OwnedAt
    <3> QED
      BY <3>1, <3>2, Zenon
  <2> QED
    BY <2>2, <2>3, Zenon
<1>19. XStack'
  <2> SUFFICES ASSUME NEW f \in Envs, pte'[f][UXSTACK] # NULL PROVE XStackOf(f)'
    BY Zenon DEF XStack, XStackOf
  <2>1. XStackOf(f) /\ pte'[f][UXSTACK] = pte[f][UXSTACK]
    BY <1>0, <1>4, <1>9, Layout, Zenon DEF XStack
  <2>2. ASSUME NEW g \in Envs, NEW wa \in VAs, Same(f, UXSTACK, g, wa)'
        PROVE  g = f /\ wa = UXSTACK
    <3>1. CASE g = e /\ wa = y
      BY <1>4, <1>9, <2>1, <2>2, <3>1, Layout DEF XStackOf
    <3>2. CASE g # e \/ wa # y
      BY <1>9, <2>1, <2>2, <3>2 DEF XStackOf
    <3> QED
      BY <3>1, <3>2, Zenon
  <2> QED
    BY <2>1, <2>2, Zenon DEF XStackOf
<1>22. ShareSame'
  <2> SUFFICES ASSUME NEW f \in Envs, NEW g \in Envs, NEW va \in Shared, NEW wa \in VAs
               PROVE  ShareSameAt(f, g, va, wa)'
    BY Zenon DEF ShareSame
  <2>1. ShareSameAt(f, g, va, wa) /\ va \in VAs /\ va # PFTEMP /\ va # y
    BY <1>0, <1>4, Layout, Zenon DEF ShareSame
  <2>2. pte'[f][va] = pte[f][va]
    BY <1>9, <2>1, Zenon
  <2>3. CASE g = e /\ wa = y
    BY <1>1, <1>3, <1>4, <1>9, <2>1, <2>2, <2>3 DEF ShareSameAt, TempOf
  <2>4. CASE g # e \/ wa # y
    BY <1>9, <2>1, <2>2, <2>4, Zenon DEF ShareSameAt
  <2> QED
    BY <2>3, <2>4, Zenon
<1>23. UNCHANGED <<Alive, Mem>>
  <2>1. ASSUME NEW f \in Envs, NEW va \in Private \cup Shared, status[f] = "alive"
        PROVE  content'[pte'[f][va].pp] = content[pte[f][va].pp]
    <3>1. va \in VAs /\ pte[f][va] # NULL
      BY <1>0, <2>1, Layout, Zenon DEF Local, LifeOf
    <3>2. pte'[f][va] # NULL /\ content'[pte'[f][va].pp] = content[pte'[f][va].pp]
      BY <1>8, <1>9, <3>1
    <3>3. CASE f = e /\ va = y
      <4>1. content[pte[e][PFTEMP].pp] = content[pte[e][y].pp]
        BY <1>0, <1>1, Zenon DEF CopyDone, CopyDoneOf, y
      <4> QED
        BY <1>9, <3>2, <3>3, <4>1, Zenon
    <3>4. CASE f # e \/ va # y
      BY <1>9, <3>1, <3>2, <3>4, Zenon
    <3> QED
      BY <3>3, <3>4, Zenon
  <2> QED
    BY <1>1, <2>1, Unseen, Zenon
<1> QED
  BY <1>10, <1>11, <1>12, <1>14, <1>16, <1>17, <1>18, <1>19, <1>22, <1>23, Zenon DEF IInv

\* exit() takes all pages of an environment away, and touches no other.
LEMMA StepExit ==
    ASSUME IInv, NEW e \in Envs, exit(e)
    PROVE  IInv'
<1> USE DEF Maps, Has, Same, Looping, Passed
<1>0. /\ TypeOK /\ \A f \in Envs : Local(f)
      /\ Parents /\ Copied /\ Temp /\ CopyDone /\ Owned /\ XStack /\ ShareSame
  BY Zenon DEF IInv
<1> DEFINE t == [pte EXCEPT ![e] = [va \in VAs |-> NULL]]
<1>1. Remap(t) /\ status[e] = "alive" /\ forks' = forks
  BY Zenon DEF exit
<1>2. /\ t \in [Envs -> [VAs -> Entry \cup {NULL}]]
      /\ \A wa \in VAs : t[e][wa] = NULL
      /\ \A f \in Envs \ {e}, wa \in VAs : t[f][wa] = pte[f][wa]
  BY <1>0, Zenon DEF TypeOK
<1> HIDE DEF t
<1>3. /\ pte' = t /\ content' \in [Pages -> Val]
      /\ \A f \in Envs, wa \in VAs : pte'[f][wa] # NULL =>
             content'[pte'[f][wa].pp] = content[pte'[f][wa].pp]
  BY <1>0, <1>1, <1>2, RemapKeeps, Zenon
<1>4. /\ \A wa \in VAs : pte'[e][wa] = NULL
      /\ \A f \in Envs \ {e}, wa \in VAs : pte'[f][wa] = pte[f][wa]
  BY <1>2, <1>3, Zenon
<1>5. /\ status'[e] = "none" /\ fork_at'[e] = "none" /\ pf_at'[e] = "none"
      /\ \A f \in Envs \ {e} :
            /\ status'[f] = status[f] /\ fork_at'[f] = fork_at[f] /\ fork_pn'[f] = fork_pn[f]
            /\ fork_child'[f] = fork_child[f] /\ pf_at'[f] = pf_at[f] /\ pf_va'[f] = pf_va[f]
  BY <1>0, Zenon DEF TypeOK, exit
<1>6. \A f \in Envs : fork_at'[f] # "none" =>
         f # e /\ fork_at[f] # "none" /\ fork_child[f] # e /\ fork_child[f] \in Envs /\ ParentOf(f)
  BY <1>0, <1>1, <1>5 DEF Parents, ParentOf
<1>10. TypeOK'
  BY <1>0, <1>2, <1>3, Zenon DEF TypeOK, exit
<1>11. ASSUME NEW f \in Envs PROVE Local(f)'
  <2>1. CASE f # e
    BY <1>0, <1>4, <1>5, <2>1, LocalFrame, Zenon
  <2>2. CASE f = e
    <3>1. LifeOf(e)' /\ AtPageOf(e)' /\ HandlerOf(e)'
      BY <1>4, <1>5, Layout, Zenon DEF LifeOf, AtPageOf, HandlerOf
    <3>2. ASSUME NEW va \in VAs PROVE CowAt(e, va)' /\ ShareAt(e, va)'
      BY <1>4, <1>5, Zenon DEF CowAt, ShareAt
    <3> QED
      BY <2>2, <3>1, <3>2, Zenon DEF Local
  <2> QED
    BY <2>1, <2>2, Zenon
<1>12. Parents'
  <2> SUFFICES ASSUME NEW f \in Envs, fork_at'[f] # "none" PROVE ParentOf(f)'
    BY Zenon DEF Parents, ParentOf
  <2>1. /\ f # e /\ fork_child'[f] = fork_child[f] /\ fork_at[f] # "none"
        /\ fork_child[f] # e /\ fork_child[f] \in Envs /\ ParentOf(f)
    BY <1>5, <1>6, Zenon
  <2>2. pte'[f][UXSTACK] = pte[f][UXSTACK]
    BY <1>4, <2>1, Layout, Zenon
  <2>3. status'[fork_child[f]] = status[fork_child[f]]
    BY <1>5, <2>1, Zenon
  <2>4. \A g \in Envs : fork_at'[g] # "none" => fork_at[g] # "none" /\ fork_child'[g] = fork_child[g]
    BY <1>5, Zenon
  <2> QED
    BY <2>1, <2>2, <2>3, <2>4, Zenon DEF ParentOf
<1>14. Copied'
  <2> SUFFICES ASSUME NEW f \in Envs, NEW va \in Private \cup Shared PROVE CopiedAt(f, va)'
    BY Zenon DEF Copied
  <2>1. CASE fork_at'[f] = "none"
    BY <2>1, Zenon DEF CopiedAt
  <2>2. CASE fork_at'[f] # "none"
    <3>1. /\ f # e /\ fork_child[f] # e /\ fork_child[f] \in Envs
          /\ CopiedAt(f, va) /\ va \in VAs
      BY <1>0, <1>6, <2>2, Layout, Zenon DEF Copied
    <3>2. /\ pte'[f][va] = pte[f][va] /\ pte'[fork_child[f]][va] = pte[fork_child[f]][va]
          /\ fork_child'[f] = fork_child[f] /\ fork_at'[f] = fork_at[f] /\ fork_pn'[f] = fork_pn[f]
      BY <1>4, <1>5, <3>1, Zenon
    <3> QED
      BY <3>1, <3>2, Zenon DEF CopiedAt
  <2> QED
    BY <2>1, <2>2, Zenon
<1>15. \A f, g \in Envs, va, wa \in VAs : pte'[f][va] # NULL /\ pte'[g][wa] # NULL =>
          f # e /\ g # e /\ pte'[f][va] = pte[f][va] /\ pte'[g][wa] = pte[g][wa]
  BY <1>4, Zenon
<1>16. Temp'
  <2> SUFFICES ASSUME NEW f \in Envs, pf_at'[f] \in {"copy", "map"} PROVE TempOf(f)'
    BY Zenon DEF Temp, TempOf
  <2>1. f # e /\ pf_at[f] \in {"copy", "map"} /\ TempOf(f)
    BY <1>0, <1>5, Zenon DEF Temp
  <2>2. pte'[f][PFTEMP] = pte[f][PFTEMP]
    BY <1>4, <2>1, Layout, Zenon
  <2> QED
    BY <1>15, <2>1, <2>2, Layout DEF TempOf
<1>17. CopyDone'
  <2> SUFFICES ASSUME NEW f \in Envs, pf_at'[f] = "map" PROVE CopyDoneOf(f)'
    BY Zenon DEF CopyDone, CopyDoneOf
  <2>1. f # e /\ pf_at[f] = "map" /\ pf_va'[f] = pf_va[f]
    BY <1>5, Zenon
  <2>2. \A wa \in VAs : pte'[f][wa] = pte[f][wa]
    BY <1>4, <2>1, Zenon
  <2> QED
    BY <1>3, <2>1, <2>2, CopyKept, Zenon
<1>18. Owned'
  <2> SUFFICES ASSUME NEW f \in Envs, NEW g \in Envs, NEW va \in VAs \ {PFTEMP}, NEW wa \in VAs,
                      pte'[f][va] # NULL, pte'[g][wa] # NULL
               PROVE  OwnedAt(f, g, va, wa)'
    BY DEF Owned, OwnedAt
  <2>1. OwnedAt(f, g, va, wa) /\ f # e /\ pte'[f][va] = pte[f][va] /\ pte'[g][wa] = pte[g][wa]
    BY <1>0, <1>15 DEF Owned
  <2> QED
    BY <1>5, <2>1, Zenon DEF OwnedAt
<1>19. XStack'
  <2> SUFFICES ASSUME NEW f \in Envs, pte'[f][UXSTACK] # NULL PROVE XStackOf(f)'
    BY Zenon DEF XStack, XStackOf
  <2>1. XStackOf(f) /\ pte'[f][UXSTACK] = pte[f][UXSTACK]
    BY <1>0, <1>4, Layout, Zenon DEF XStack
  <2> QED
    BY <1>15, <2>1, Layout DEF XStackOf
<1>22. ShareSame'
  <2> SUFFICES ASSUME NEW f \in Envs, NEW g \in Envs, NEW va \in Shared, NEW wa \in VAs,
                      pte'[f][va] # NULL, pte'[g][wa] # NULL
               PROVE  ShareSameAt(f, g, va, wa)'
    BY DEF ShareSame, ShareSameAt
  <2>1. va \in VAs /\ ShareSameAt(f, g, va, wa)
    BY <1>0, Layout, Zenon DEF ShareSame
  <2>2. pte'[f][va] = pte[f][va] /\ pte'[g][wa] = pte[g][wa]
    BY <1>15, <2>1
  <2> QED
    BY <2>1, <2>2, Zenon DEF ShareSameAt
<1> QED
  BY <1>10, <1>11, <1>12, <1>14, <1>16, <1>17, <1>18, <1>19, <1>22, Zenon DEF IInv

\* Which pages are the same, when one entry has got a page that nobody mapped.
LEMMA NewPageAlone ==
    ASSUME IInv, NEW x \in Envs, NEW y \in VAs, Maps(x, y)',
           \A f \in Envs, wa \in VAs : f # x \/ wa # y => pte'[f][wa] = pte[f][wa],
           \A f \in Envs, wa \in VAs : pte[f][wa] # NULL => pte[f][wa].pp # pte'[x][y].pp,
           NEW f \in Envs, NEW g \in Envs, NEW va \in VAs, NEW wa \in VAs, Same(f, va, g, wa)'
    PROVE  \/ f = x /\ g = x /\ va = y /\ wa = y
           \/ /\ f # x \/ va # y
              /\ g # x \/ wa # y
              /\ Same(f, va, g, wa) /\ pte'[f][va] = pte[f][va]
BY DEF Same, Maps

\* fork() gives the child an exception stack and starts it.
LEMMA StepFinish ==
    ASSUME IInv, NEW e \in Envs, fork_finish(e)
    PROVE  IInv'
<1> USE DEF Maps, Has, Looping, Passed
<1>0. /\ TypeOK /\ \A f \in Envs : Local(f)
      /\ Parents /\ Copied /\ Temp /\ CopyDone /\ Owned /\ XStack /\ ShareSame
  BY Zenon DEF IInv
<1>a. fork_at[e] = "finish" /\ status[e] = "alive"
  BY Zenon DEF fork_finish, Forking
<1>2. PICK c \in Envs : c = fork_child[e] /\ status[c] = "embryo" /\ c # e /\ ParentOf(e)
  BY <1>0, <1>a, Zenon DEF Parents, ParentOf
<1>1. /\ fork_at[e] = "finish" /\ status[e] = "alive" /\ Free # {}
      /\ Remap([pte EXCEPT ![c][UXSTACK] = [pp |-> page_alloc(c, UXSTACK), perm |-> "W"]])
      /\ UNCHANGED <<fork_pn, pf_at, pf_va, forks>>
      /\ status' = [status EXCEPT ![c] = "alive"] /\ fork_at' = [fork_at EXCEPT ![e] = "none"]
      /\ fork_child' = [fork_child EXCEPT ![e] = NULL]
  BY <1>2, Zenon DEF fork_finish, Forking, pfVars
<1>b. TypeOK /\ UXSTACK \in VAs
  BY <1>0, Layout, Zenon
<1>c. Free # {} /\ Remap([pte EXCEPT ![c][UXSTACK] = [pp |-> page_alloc(c, UXSTACK), perm |-> "W"]])
  BY <1>1, Zenon
<1>3. /\ pte' \in [Envs -> [VAs -> Entry \cup {NULL}]] /\ content' \in [Pages -> Val]
      /\ pte'[c][UXSTACK] # NULL /\ pte'[c][UXSTACK].perm = "W"
      /\ \A f \in Envs, wa \in VAs : f # c \/ wa # UXSTACK => pte'[f][wa] = pte[f][wa]
      /\ \A f \in Envs, wa \in VAs : pte[f][wa] # NULL => pte[f][wa].pp # pte'[c][UXSTACK].pp
      /\ \A f \in Envs, wa \in VAs : pte'[f][wa] # NULL =>
             content'[pte'[f][wa].pp] = content[pte'[f][wa].pp]
  BY <1>b, <1>c, NewPage, Zenon
<1>4. /\ status'[c] = "alive" /\ \A f \in Envs \ {c} : status'[f] = status[f]
      /\ fork_at'[e] = "none" /\ \A f \in Envs \ {e} : fork_at'[f] = fork_at[f]
      /\ \A f \in Envs \ {e} : fork_child'[f] = fork_child[f]
  BY <1>0, <1>1, <1>2, Zenon DEF TypeOK
<1>5. \A f \in Envs : fork_at'[f] # "none" =>
         f # e /\ f # c /\ fork_at[f] # "none" /\ fork_child[f] # c /\ fork_child[f] \in Envs
  BY <1>0, <1>1, <1>2, <1>4 DEF Parents, ParentOf, Local, LifeOf
<1>6. fork_at[c] = "none" /\ pf_at[c] = "none"
  BY <1>0, <1>2, Zenon DEF Local, LifeOf
<1>10. TypeOK'
  BY <1>0, <1>1, <1>3, Zenon DEF TypeOK
<1>11. ASSUME NEW f \in Envs PROVE Local(f)'
  <2>0. Local(f)
    BY <1>0, Zenon
  <2>1. CASE f # e /\ f # c
    BY <1>1, <1>3, <1>4, <2>0, <2>1, LocalFrame
  <2>2. CASE f = e
    <3>1. status'[e] = "alive" /\ \A wa \in VAs : pte'[e][wa] = pte[e][wa]
      BY <1>1, <1>2, <1>3, <1>4, Zenon
    <3>a. LifeOf(e) /\ HandlerOf(e)
      BY <2>0, <2>2, Zenon DEF Local
    <3>b. LifeOf(e)'
      BY <1>a, <3>1, <3>a, Layout, Zenon DEF LifeOf
    <3>c. AtPageOf(e)'
      BY <1>4, Zenon DEF AtPageOf
    <3>d. HandlerOf(e)'
      BY <1>1, <1>4, <3>1, <3>a, Layout, Zenon DEF HandlerOf
    <3>3. ASSUME NEW va \in VAs PROVE CowAt(e, va)' /\ ShareAt(e, va)'
      BY <1>1, <2>0, <2>2, <3>1, Layout, Zenon DEF Local, CowAt, ShareAt
    <3> QED
      BY <2>2, <3>b, <3>c, <3>d, <3>3, Zenon DEF Local
  <2>3. CASE f = c
    <3>1. \A va \in Private \cup Shared : va \in VAs /\ va # UXSTACK /\ CopiedAt(e, va)
      BY <1>0, Layout, Zenon DEF Copied
    <3>2. LifeOf(c)'
      <4>1. \A va \in Private \cup Shared : pte[c][va] # NULL
        BY <1>1, <1>2, <3>1, Zenon DEF CopiedAt
      <4>2. \A va \in Private \cup Shared : pte'[c][va] # NULL
        BY <1>3, <3>1, <4>1, Zenon
      <4> QED
        BY <1>4, <4>2, Zenon DEF LifeOf
    <3>3. AtPageOf(c)' /\ HandlerOf(c)'
      BY <1>1, <1>2, <1>4, <1>6 DEF AtPageOf, HandlerOf
    <3>4. ASSUME NEW va \in VAs PROVE CowAt(c, va)' /\ ShareAt(c, va)'
      <4>1. CowAt(c, va)'
        BY <1>3, Zenon DEF CowAt
      <4>2. CASE va = UXSTACK
        BY <1>3, <4>1, <4>2, ShareStack, Zenon
      <4>3. CASE va # UXSTACK
        BY <1>3, <2>0, <2>3, <4>1, <4>3, ShareKept, Zenon
      <4> QED
        BY <4>2, <4>3, Zenon
    <3> QED
      BY <2>3, <3>2, <3>3, <3>4, Zenon DEF Local
  <2> QED
    BY <2>1, <2>2, <2>3, Zenon
<1>12. Parents'
  <2> SUFFICES ASSUME NEW f \in Envs, fork_at'[f] # "none" PROVE ParentOf(f)'
    BY Zenon DEF Parents, ParentOf
  <2>1. /\ f # e /\ f # c /\ fork_at[f] # "none" /\ fork_child[f] # c /\ fork_child[f] \in Envs
        /\ ParentOf(f) /\ fork_child'[f] = fork_child[f]
    BY <1>0, <1>4, <1>5, Zenon DEF Parents
  <2>2. pte'[f][UXSTACK] = pte[f][UXSTACK] /\ status'[fork_child[f]] = status[fork_child[f]]
    BY <1>3, <1>4, <2>1, Layout, ZenonT(30)
  <2>3. \A g \in Envs : fork_at'[g] # "none" => fork_at[g] # "none" /\ fork_child'[g] = fork_child[g]
    BY <1>4, Zenon
  <2> QED
    BY <2>1, <2>2, <2>3, Zenon DEF ParentOf
<1>14. Copied'
  <2> SUFFICES ASSUME NEW f \in Envs, NEW va \in Private \cup Shared PROVE CopiedAt(f, va)'
    BY Zenon DEF Copied
  <2>1. CASE fork_at'[f] = "none"
    BY <2>1, Zenon DEF CopiedAt
  <2>2. CASE fork_at'[f] # "none"
    <3>1. f # e /\ fork_child[f] \in Envs /\ CopiedAt(f, va) /\ va \in VAs /\ va # UXSTACK
      BY <1>0, <1>5, <2>2, Layout, Zenon DEF Copied
    <3>2. /\ pte'[f][va] = pte[f][va] /\ pte'[fork_child[f]][va] = pte[fork_child[f]][va]
          /\ fork_child'[f] = fork_child[f] /\ fork_at'[f] = fork_at[f] /\ fork_pn'[f] = fork_pn[f]
      BY <1>1, <1>3, <1>4, <3>1
    <3> QED
      BY <3>1, <3>2, Zenon DEF CopiedAt, Same
  <2> QED
    BY <2>1, <2>2, Zenon
<1>15. ASSUME NEW f \in Envs, NEW g \in Envs, NEW va \in VAs, NEW wa \in VAs, Same(f, va, g, wa)'
       PROVE  \/ f = c /\ g = c /\ va = UXSTACK /\ wa = UXSTACK
              \/ /\ f # c \/ va # UXSTACK
                 /\ g # c \/ wa # UXSTACK
                 /\ Same(f, va, g, wa) /\ pte'[f][va] = pte[f][va]
  <2>1. /\ pte'[c][UXSTACK] # NULL
        /\ \A h \in Envs, xa \in VAs : h # c \/ xa # UXSTACK => pte'[h][xa] = pte[h][xa]
        /\ \A h \in Envs, xa \in VAs : pte[h][xa] # NULL => pte[h][xa].pp # pte'[c][UXSTACK].pp
    BY <1>3, Zenon
  <2> QED
    BY <1>15, <2>1 DEF Same
<1>16. Temp'
  <2> SUFFICES ASSUME NEW f \in Envs, pf_at'[f] \in {"copy", "map"} PROVE TempOf(f)'
    BY Zenon DEF Temp, TempOf
  <2>1. pf_at[f] \in {"copy", "map"} /\ TempOf(f) /\ pte'[f][PFTEMP] = pte[f][PFTEMP]
    BY <1>0, <1>1, <1>3, Layout DEF Temp
  <2> QED
    <3>1. ASSUME NEW g \in Envs, NEW wa \in VAs, Same(f, PFTEMP, g, wa)' PROVE Same(f, PFTEMP, g, wa)
      BY <1>15, <3>1, Layout, Zenon
    <3> QED
      BY <2>1, <3>1, Zenon DEF TempOf
<1>17. CopyDone'
  <2> SUFFICES ASSUME NEW f \in Envs, pf_at'[f] = "map" PROVE CopyDoneOf(f)'
    BY Zenon DEF CopyDone, CopyDoneOf
  <2>1. f # c /\ pf_at[f] = "map" /\ pf_va'[f] = pf_va[f]
    BY <1>1, <1>6, Zenon
  <2>2. \A wa \in VAs : pte'[f][wa] = pte[f][wa]
    BY <1>3, <2>1, Zenon
  <2> QED
    BY <1>3, <2>1, <2>2, CopyKept, Zenon
<1>18. Owned'
  <2> SUFFICES ASSUME NEW f \in Envs, NEW g \in Envs, NEW va \in VAs \ {PFTEMP}, NEW wa \in VAs,
                      Has(f, va, "W")', Same(f, va, g, wa)'
               PROVE  \/ f = g /\ wa \in {va, PFTEMP}
                      \/ Looping(f)' /\ g = fork_child'[f] /\ fork_pn'[f] <= va
    BY ZenonT(30) DEF Owned, OwnedAt
  <2>1. CASE f = c /\ g = c /\ va = UXSTACK /\ wa = UXSTACK
    BY <2>1, Zenon
  <2>2. CASE Same(f, va, g, wa) /\ pte'[f][va] = pte[f][va]
    <3>1. OwnedAt(f, g, va, wa)
      BY <1>0, Zenon DEF Owned
    <3> QED
      BY <1>1, <1>4, <2>2, <3>1, Zenon DEF OwnedAt
  <2> QED
    BY <1>15, <2>1, <2>2
<1>19. XStack'
  <2> SUFFICES ASSUME NEW f \in Envs, pte'[f][UXSTACK] # NULL PROVE XStackOf(f)'
    BY Zenon DEF XStack, XStackOf
  <2>1. XStackOf(f)
    BY <1>0, Zenon DEF XStack
  <2>2. Has(f, UXSTACK, "W")'
    BY <1>3, <2>1, Layout, ZenonT(30) DEF XStackOf
  <2>3. ASSUME NEW g \in Envs, NEW wa \in VAs, Same(f, UXSTACK, g, wa)' PROVE g = f /\ wa = UXSTACK
    BY <1>15, <2>1, <2>3, Layout DEF XStackOf, Same
  <2> QED
    BY <2>2, <2>3, Zenon DEF XStackOf
<1>22. ShareSame'
  <2> SUFFICES ASSUME NEW f \in Envs, NEW g \in Envs, NEW va \in Shared, NEW wa \in VAs
               PROVE  ShareSameAt(f, g, va, wa)'
    BY Zenon DEF ShareSame
  <2>1. ShareSameAt(f, g, va, wa) /\ va \in VAs /\ va # UXSTACK
    BY <1>0, Layout, Zenon DEF ShareSame
  <2>2. pte'[f][va] = pte[f][va]
    BY <1>3, <2>1, Zenon
  <2>3. CASE g = c /\ wa = UXSTACK
    BY <1>3, <2>1, <2>2, <2>3 DEF ShareSameAt
  <2>4. CASE g # c \/ wa # UXSTACK
    BY <1>3, <2>1, <2>2, <2>4, ZenonT(30) DEF ShareSameAt
  <2> QED
    BY <2>3, <2>4, Zenon
<1> QED
  BY <1>10, <1>11, <1>12, <1>14, <1>16, <1>17, <1>18, <1>19, <1>22, Zenon DEF IInv

\* set_pgfault_handler() in fork(): the parent has an exception stack of its own,
\* and nothing else is different.
LEMMA ForkStack ==
    ASSUME IInv, NEW e \in Envs, NEW c \in Envs, fork(e, c)
    PROVE  /\ pte' \in [Envs -> [VAs -> Entry \cup {NULL}]] /\ content' \in [Pages -> Val]
           /\ Has(e, UXSTACK, "W")'
           /\ \A f \in Envs, wa \in VAs : f # e \/ wa # UXSTACK => pte'[f][wa] = pte[f][wa]
           /\ \A f \in Envs, wa \in VAs : pte'[f][wa] # NULL =>
                  content'[pte'[f][wa].pp] = content[pte'[f][wa].pp]
           /\ \A f, g \in Envs, va, wa \in VAs : Same(f, va, g, wa)' =>
                  \/ f = e /\ g = e /\ va = UXSTACK /\ wa = UXSTACK
                  \/ Same(f, va, g, wa) /\ pte'[f][va] = pte[f][va]
<1> USE DEF Maps, Has
<1>1. TypeOK /\ UXSTACK \in VAs /\ XStackOf(e)
  BY Layout, Zenon DEF IInv, XStack
<1>2. CASE pte[e][UXSTACK] # NULL
  <2>1. UNCHANGED <<pte, content>>
    BY <1>2, Zenon DEF fork
  <2> QED
    BY <1>1, <1>2, <2>1 DEF TypeOK, XStackOf, Same
<1>3. CASE pte[e][UXSTACK] = NULL
  <2>1. Free # {} /\ Remap([pte EXCEPT ![e][UXSTACK] = [pp |-> page_alloc(e, UXSTACK), perm |-> "W"]])
    BY <1>3, Zenon DEF fork
  <2>2. /\ pte' \in [Envs -> [VAs -> Entry \cup {NULL}]] /\ content' \in [Pages -> Val]
        /\ pte'[e][UXSTACK] # NULL /\ pte'[e][UXSTACK].perm = "W"
        /\ \A f \in Envs, wa \in VAs : f # e \/ wa # UXSTACK => pte'[f][wa] = pte[f][wa]
        /\ \A f \in Envs, wa \in VAs : pte[f][wa] # NULL => pte[f][wa].pp # pte'[e][UXSTACK].pp
        /\ \A f \in Envs, wa \in VAs : pte'[f][wa] # NULL =>
               content'[pte'[f][wa].pp] = content[pte'[f][wa].pp]
    BY <1>1, <2>1, NewPage, Zenon
  <2>3. ASSUME NEW f \in Envs, NEW g \in Envs, NEW va \in VAs, NEW wa \in VAs, Same(f, va, g, wa)'
        PROVE  \/ f = e /\ g = e /\ va = UXSTACK /\ wa = UXSTACK
               \/ Same(f, va, g, wa) /\ pte'[f][va] = pte[f][va]
    BY <1>1, <2>2, <2>3, NewPageAlone
  <2> QED
    BY <2>2, <2>3, Zenon
<1> QED
  BY <1>2, <1>3, Zenon

\* fork() creates the child and starts its loop.
LEMMA StepFork ==
    ASSUME IInv, NEW e \in Envs, NEW c \in Envs, fork(e, c)
    PROVE  IInv' /\ UNCHANGED <<Alive, Mem>>
<1> USE DEF Maps, Has, Looping, Passed
<1>0. /\ TypeOK /\ \A f \in Envs : Local(f)
      /\ Parents /\ Copied /\ Temp /\ CopyDone /\ Owned /\ XStack /\ ShareSame
  BY Zenon DEF IInv
<1>1. /\ fork_at[e] = "none" /\ status[e] = "alive" /\ pf_at[e] = "none" /\ status[c] = "none"
      /\ UNCHANGED <<pf_at, pf_va>> /\ forks' \in 0 .. MaxForks
      /\ status' = [status EXCEPT ![c] = "embryo"]
      /\ fork_child' = [fork_child EXCEPT ![e] = c]
  <2>1. forks < MaxForks /\ forks' = forks + 1
    BY Zenon DEF fork
  <2>2. forks \in 0 .. MaxForks /\ MaxForks \in Nat
    BY <1>0, ForkAssumption, Zenon DEF ForkAssumption, TypeOK
  <2>3. forks' \in 0 .. MaxForks
    BY <2>1, <2>2
  <2> QED
    BY <2>3, Zenon DEF fork, Forking, pfVars
<1>2. /\ pte' \in [Envs -> [VAs -> Entry \cup {NULL}]] /\ content' \in [Pages -> Val]
      /\ pte'[e][UXSTACK] # NULL /\ pte'[e][UXSTACK].perm = "W"
      /\ \A f \in Envs, wa \in VAs : f # e \/ wa # UXSTACK => pte'[f][wa] = pte[f][wa]
      /\ \A f \in Envs, wa \in VAs : pte'[f][wa] # NULL =>
             content'[pte'[f][wa].pp] = content[pte'[f][wa].pp]
  BY ForkStack, Zenon
<1>3. /\ c # e /\ status'[c] = "embryo" /\ status'[e] = "alive" /\ fork_child'[e] = c
      /\ \A f \in Envs \ {c} : status'[f] = status[f]
      /\ \A f \in Envs \ {e} : fork_child'[f] = fork_child[f]
  BY <1>0, <1>1, Zenon DEF TypeOK
<1>4. /\ fork_at' \in [Envs -> {"none", "child", "parent", "finish"}]
      /\ fork_pn' \in [Envs -> VAs \cup {NULL}]
      /\ \A f \in Envs \ {e} : fork_at'[f] = fork_at[f] /\ fork_pn'[f] = fork_pn[f]
      /\ \/ /\ fork_at'[e] = "finish"
            /\ \A va \in VAs : Maps(e, va) /\ 0 <= va => va = UXSTACK
         \/ /\ fork_at'[e] = "child"
            /\ fork_pn'[e] \in VAs \ {UXSTACK} /\ Maps(e, fork_pn'[e])
            /\ 0 <= fork_pn'[e]
            /\ \A va \in VAs : Maps(e, va) /\ 0 <= va => fork_pn'[e] <= va
  BY <1>0, LoopGoesOn, Zenon DEF fork
<1>5. \A va \in Private \cup Shared : va \in VAs /\ va # UXSTACK /\ pte[e][va] # NULL /\ 0 <= va
  <2>1. \A va \in VAs : 0 <= va
    BY Layout
  <2> QED
    BY <1>0, <1>1, <2>1, Layout, Zenon DEF Local, LifeOf
<1>6. /\ fork_at'[e] = "child" /\ fork_pn'[e] \in VAs \ {UXSTACK} /\ pte[e][fork_pn'[e]] # NULL
      /\ \A va \in Private \cup Shared : fork_pn'[e] <= va
  <2>1. Stack \in Private \cup Shared
    BY Zenon DEF Private
  <2> QED
    BY <1>4, <1>5, <2>1, Zenon
<1>7. /\ fork_at[c] = "none" /\ pf_at[c] = "none"
      /\ \A f \in Envs : fork_at[f] # "none" => fork_child[f] \in Envs /\ fork_child[f] # c
  BY <1>0, <1>1, Zenon DEF Local, LifeOf, Parents, ParentOf
<1>10. TypeOK'
  BY <1>0, <1>1, <1>2, <1>4, Zenon DEF TypeOK
<1>11. ASSUME NEW f \in Envs PROVE Local(f)'
  <2>0. Local(f)
    BY <1>0, Zenon
  <2>1. CASE f # e /\ f # c
    <3>1. /\ \A wa \in VAs : pte'[f][wa] = pte[f][wa]
          /\ status'[f] = status[f] /\ fork_at'[f] = fork_at[f] /\ fork_pn'[f] = fork_pn[f]
          /\ pf_at'[f] = pf_at[f] /\ pf_va'[f] = pf_va[f]
      BY <1>1, <1>2, <1>3, <1>4, <2>1, Zenon
    <3> QED
      BY <2>0, <3>1, LocalFrame, Zenon
  <2>2. CASE f = e
    <3>1. LifeOf(e)'
      BY <1>2, <1>3, <1>5, Zenon DEF LifeOf
    <3>2. AtPageOf(e)'
      BY <1>2, <1>6, Zenon DEF AtPageOf
    <3>3. HandlerOf(e)'
      BY <1>1, Zenon DEF HandlerOf
    <3>4. ASSUME NEW va \in VAs PROVE CowAt(e, va)' /\ ShareAt(e, va)'
      <4>1. CowAt(e, va)'
        BY <1>2, Zenon DEF CowAt
      <4>2. CASE va = UXSTACK
        BY <1>2, <4>1, <4>2, ShareStack, Zenon
      <4>3. CASE va # UXSTACK
        BY <1>2, <2>0, <2>2, <4>1, <4>3, ShareKept, Zenon
      <4> QED
        BY <4>2, <4>3, Zenon
    <3> QED
      BY <2>2, <3>1, <3>2, <3>3, <3>4, Zenon DEF Local
  <2>3. CASE f = c
    <3>1. \A wa \in VAs : pte'[c][wa] = NULL
      <4>1. \A wa \in VAs : pte[c][wa] = NULL
        BY <1>1, <2>0, <2>3, Zenon DEF Local, LifeOf
      <4> QED
        BY <1>2, <1>3, <4>1, Zenon
    <3>2. fork_at'[c] = "none" /\ pf_at'[c] = "none"
      BY <1>1, <1>3, <1>4, <1>7, Zenon
    <3>3. LifeOf(c)' /\ AtPageOf(c)' /\ HandlerOf(c)'
      BY <1>3, <3>1, <3>2, Layout, Zenon DEF LifeOf, AtPageOf, HandlerOf
    <3>4. ASSUME NEW va \in VAs PROVE CowAt(c, va)' /\ ShareAt(c, va)'
      BY <3>1, Zenon DEF CowAt, ShareAt
    <3> QED
      BY <2>3, <3>3, <3>4, Zenon DEF Local
  <2> QED
    BY <2>1, <2>2, <2>3, Zenon
<1>12. Parents'
  <2> SUFFICES ASSUME NEW f \in Envs, fork_at'[f] # "none" PROVE ParentOf(f)'
    BY Zenon DEF Parents, ParentOf
  <2>1. CASE f = e
    <3>1. \A g \in Envs : fork_at'[g] # "none" /\ fork_child'[g] = c => g = e
      BY <1>3, <1>4, <1>7, Zenon
    <3> QED
      BY <1>2, <1>3, <2>1, <3>1, Zenon DEF ParentOf
  <2>2. CASE f # e
    <3>1. /\ fork_at[f] # "none" /\ fork_child'[f] = fork_child[f]
          /\ fork_child[f] # c /\ fork_child[f] \in Envs /\ ParentOf(f)
      BY <1>0, <1>3, <1>4, <1>7, <2>2, Zenon DEF Parents
    <3>2. pte'[f][UXSTACK] = pte[f][UXSTACK] /\ status'[fork_child[f]] = status[fork_child[f]]
      <4>1. pte'[f][UXSTACK] = pte[f][UXSTACK]
        BY <1>2, <2>2, Layout, Zenon
      <4>2. status'[fork_child[f]] = status[fork_child[f]]
        BY <1>3, <3>1, Zenon
      <4> QED
        BY <4>1, <4>2, Zenon
    <3>3. ASSUME NEW g \in Envs, fork_at'[g] # "none", fork_child'[g] = fork_child[f] PROVE g = f
      <4>1. g # e
        BY <1>3, <3>1, <3>3, Zenon
      <4>2. fork_at[g] # "none" /\ fork_child[g] = fork_child[f]
        BY <1>3, <1>4, <3>3, <4>1, Zenon
      <4> QED
        BY <3>1, <4>2, Zenon DEF ParentOf
    <3> QED
      BY <3>1, <3>2, <3>3, Zenon DEF ParentOf
  <2> QED
    BY <2>1, <2>2, Zenon
<1>14. Copied'
  <2> SUFFICES ASSUME NEW f \in Envs, NEW va \in Private \cup Shared, Passed(f, va)' PROVE CopiedAt(f, va)'
    BY Zenon DEF Copied, CopiedAt
  <2>1. f # e
    <3>1. va \in Nat /\ fork_pn'[e] \in Nat /\ fork_pn'[e] <= va
      BY <1>5, <1>6, Layout, Zenon
    <3>2. ~(va < fork_pn'[e])
      BY <3>1
    <3> QED
      BY <1>6, <3>2, Zenon
  <2>2. fork_child[f] \in Envs /\ CopiedAt(f, va) /\ va \in VAs /\ va # UXSTACK
    BY <1>0, <1>4, <1>7, <2>1, Layout, Zenon DEF Copied
  <2>3. /\ pte'[f][va] = pte[f][va] /\ pte'[fork_child[f]][va] = pte[fork_child[f]][va]
        /\ fork_child'[f] = fork_child[f] /\ fork_at'[f] = fork_at[f] /\ fork_pn'[f] = fork_pn[f]
    BY <1>2, <1>3, <1>4, <2>1, <2>2, ZenonT(30)
  <2> QED
    BY <2>2, <2>3, Zenon DEF CopiedAt, Same
<1>15. ASSUME NEW f \in Envs, NEW g \in Envs, NEW va \in VAs, NEW wa \in VAs, Same(f, va, g, wa)'
       PROVE  \/ f = e /\ g = e /\ va = UXSTACK /\ wa = UXSTACK
              \/ Same(f, va, g, wa) /\ pte'[f][va] = pte[f][va]
  BY <1>15, ForkStack
<1>16. Temp'
  <2> SUFFICES ASSUME NEW f \in Envs, pf_at'[f] \in {"copy", "map"} PROVE TempOf(f)'
    BY Zenon DEF Temp, TempOf
  <2>1. pf_at[f] \in {"copy", "map"} /\ TempOf(f) /\ pte'[f][PFTEMP] = pte[f][PFTEMP]
    BY <1>0, <1>1, <1>2, Layout, Zenon DEF Temp
  <2> QED
    BY <1>15, <2>1, Layout DEF TempOf
<1>17. CopyDone'
  <2> SUFFICES ASSUME NEW f \in Envs, pf_at'[f] = "map" PROVE CopyDoneOf(f)'
    BY Zenon DEF CopyDone, CopyDoneOf
  <2>1. f # e /\ pf_at[f] = "map" /\ pf_va'[f] = pf_va[f]
    BY <1>1, Zenon
  <2>2. \A wa \in VAs : pte'[f][wa] = pte[f][wa]
    BY <1>2, <2>1, Zenon
  <2> QED
    BY <1>2, <2>1, <2>2, CopyKept, Zenon
<1>18. Owned'
  <2> SUFFICES ASSUME NEW f \in Envs, NEW g \in Envs, NEW va \in VAs \ {PFTEMP}, NEW wa \in VAs,
                      Has(f, va, "W")', Same(f, va, g, wa)'
               PROVE  \/ f = g /\ wa \in {va, PFTEMP}
                      \/ Looping(f)' /\ g = fork_child'[f] /\ fork_pn'[f] <= va
    BY DEF Owned, OwnedAt
  <2>1. CASE f = e /\ g = e /\ va = UXSTACK /\ wa = UXSTACK
    BY <2>1, Zenon
  <2>2. CASE Same(f, va, g, wa) /\ pte'[f][va] = pte[f][va]
    <3>1. OwnedAt(f, g, va, wa)
      BY <1>0, Zenon DEF Owned
    <3>2. \/ f = g /\ wa \in {va, PFTEMP}
          \/ Looping(f) /\ g = fork_child[f] /\ fork_pn[f] <= va
      BY <2>2, <3>1, Zenon DEF OwnedAt
    <3> QED
      BY <1>1, <1>3, <1>4, <3>2
  <2> QED
    BY <1>15, <2>1, <2>2, ZenonT(30)
<1>19. XStack'
  <2> SUFFICES ASSUME NEW f \in Envs, pte'[f][UXSTACK] # NULL PROVE XStackOf(f)'
    BY Zenon DEF XStack, XStackOf
  <2>1. XStackOf(f)
    BY <1>0, Zenon DEF XStack
  <2>2. Has(f, UXSTACK, "W")'
    BY <1>2, <2>1, Layout, Zenon DEF XStackOf
  <2>3. ASSUME NEW g \in Envs, NEW wa \in VAs, Same(f, UXSTACK, g, wa)' PROVE g = f /\ wa = UXSTACK
    <3>1. \/ f = e /\ g = e /\ wa = UXSTACK
          \/ Same(f, UXSTACK, g, wa)
      BY <1>15, <2>3, Layout, Zenon
    <3>2. Same(f, UXSTACK, g, wa) => g = f /\ wa = UXSTACK
      BY <2>1, Zenon DEF XStackOf, Same
    <3> QED
      BY <3>1, <3>2, Zenon
  <2> QED
    BY <2>2, <2>3, Zenon DEF XStackOf
<1>22. ShareSame'
  <2> SUFFICES ASSUME NEW f \in Envs, NEW g \in Envs, NEW va \in Shared, NEW wa \in VAs,
                      pte'[f][va] # NULL, pte'[g][wa] # NULL
               PROVE  pte'[f][va].pp = pte'[g][wa].pp <=> va = wa
    BY DEF ShareSame, ShareSameAt
  <2>1. ShareSameAt(f, g, va, wa) /\ va \in VAs /\ va # UXSTACK
    BY <1>0, Layout, Zenon DEF ShareSame
  <2>2. pte'[f][va] = pte[f][va]
    BY <1>2, <2>1, Zenon
  <2>3. CASE wa = UXSTACK
    <3>1. pte'[f][va].pp # pte'[g][wa].pp
      BY <1>15, <2>1, <2>2, <2>3 DEF ShareSameAt, Same
    <3> QED
      BY <2>1, <2>3, <3>1, Zenon
  <2>4. CASE wa # UXSTACK
    BY <1>2, <2>1, <2>2, <2>4, Zenon DEF ShareSameAt
  <2> QED
    BY <2>3, <2>4, Zenon
<1>23. UNCHANGED <<Alive, Mem>>
  <2>1. ASSUME NEW f \in Envs, NEW va \in Private \cup Shared, status[f] = "alive"
        PROVE  content'[pte'[f][va].pp] = content[pte[f][va].pp]
    <3>1. va \in VAs /\ va # UXSTACK /\ pte[f][va] # NULL
      BY <1>0, <2>1, Layout, Zenon DEF Local, LifeOf
    <3> QED
      BY <1>2, <3>1
  <2>2. \A f \in Envs : status'[f] = "alive" <=> status[f] = "alive"
    BY <1>1, <1>3, Zenon
  <2> QED
    BY <2>1, <2>2, Unseen, Zenon
<1> QED
  BY <1>10, <1>11, <1>12, <1>14, <1>16, <1>17, <1>18, <1>19, <1>22, <1>23, Zenon DEF IInv

\* The entry of the child that the first sys_page_map() of duppage() makes, and where
\* fork() goes on.
ChildMapped(e, c, y) ==
    /\ pte' \in [Envs -> [VAs -> Entry \cup {NULL}]]
    /\ pte'[c][y] # NULL /\ pte'[c][y].pp = pte[e][y].pp
    /\ pte'[c][y].perm # "W" /\ (pte'[c][y].perm = "SHARE" <=> y \in Shared)
    /\ y = PFTEMP => pte'[c][y].perm = "COW"
    /\ \A f \in Envs, wa \in VAs : f # c \/ wa # y => pte'[f][wa] = pte[f][wa]
    /\ \/ /\ pte[e][y].perm \in {"W", "COW"}
          /\ fork_at' = [fork_at EXCEPT ![e] = "parent"] /\ fork_pn' = fork_pn
       \/ pte[e][y].perm \notin {"W", "COW"} /\ Loop(e, y + 1)

\* duppage() maps a page of the parent in the child, never with PTE_W, and changes
\* nothing else; then the parent's own entry is next, or the next page.
LEMMA DupChild ==
    ASSUME IInv, NEW e \in Envs, duppage_child(e),
           NEW c \in Envs, c = fork_child[e], NEW y \in VAs, y = fork_pn[e]
    PROVE  ChildMapped(e, c, y)
<1> DEFINE from == pte[e][y]
<1>1. TypeOK /\ Local(e) /\ fork_at[e] = "child"
  BY Zenon DEF IInv, duppage_child, Forking
<1>2. Maps(e, y) /\ ShareAt(e, y)
  BY <1>1, Zenon DEF Local, AtPageOf, Looping
<1>3. from \in Entry /\ from.pp \in Pages /\ from.perm \in Perm
  BY <1>1, <1>2, EntryType, Zenon
<1>4. /\ from.perm = "SHARE" <=> y \in Shared
      /\ y = PFTEMP => from.perm \in {"W", "COW"}
  BY <1>2, Zenon DEF ShareAt
<1> HIDE DEF from
<1>5. CASE from.perm \in {"W", "COW"}
  <2> DEFINE n == [from EXCEPT !.perm = "COW"]
  <2>1. /\ pte' = [pte EXCEPT ![c][y] = n]
        /\ fork_at' = [fork_at EXCEPT ![e] = "parent"] /\ fork_pn' = fork_pn
    BY <1>5, Zenon DEF duppage_child, from
  <2>2. n \in Entry /\ n.pp = from.pp /\ n.perm = "COW"
    BY <1>3, Zenon DEF Entry, Perm
  <2>3. n # NULL
    BY <2>2, ForkAssumption, Zenon DEF ForkAssumption
  <2> HIDE DEF n
  <2>4. /\ pte' \in [Envs -> [VAs -> Entry \cup {NULL}]] /\ pte'[c][y] = n
        /\ \A f \in Envs, wa \in VAs : f # c \/ wa # y => pte'[f][wa] = pte[f][wa]
    BY <1>1, <2>1, <2>2, OneEntry
  <2> QED
    BY <1>4, <1>5, <2>1, <2>2, <2>3, <2>4, Zenon DEF from, ChildMapped
<1>6. CASE from.perm \notin {"W", "COW"}
  <2>1. pte' = [pte EXCEPT ![c][y] = from] /\ Loop(e, y + 1)
    BY <1>6, Zenon DEF duppage_child, from
  <2>2. from # NULL
    BY <1>2, Zenon DEF Maps, from
  <2>3. /\ pte' \in [Envs -> [VAs -> Entry \cup {NULL}]] /\ pte'[c][y] = from
        /\ \A f \in Envs, wa \in VAs : f # c \/ wa # y => pte'[f][wa] = pte[f][wa]
    BY <1>1, <1>3, <2>1, OneEntry
  <2> QED
    BY <1>4, <1>6, <2>1, <2>2, <2>3, Zenon DEF from, ChildMapped
<1> QED
  BY <1>5, <1>6, Zenon

\* How far the loop has come after duppage() is done with page y: every page of the
\* program that it has passed is y or one it had passed before, and every page that
\* is still writable comes later, but for the exception stack.
LEMMA LoopPassed ==
    ASSUME IInv, NEW e \in Envs, fork_at[e] \in {"child", "parent"}, status[e] = "alive",
           NEW y \in VAs, y = fork_pn[e], Loop(e, y + 1)
    PROVE  /\ fork_at' \in [Envs -> {"none", "child", "parent", "finish"}]
           /\ fork_pn' \in [Envs -> VAs \cup {NULL}]
           /\ \A f \in Envs \ {e} : fork_at'[f] = fork_at[f] /\ fork_pn'[f] = fork_pn[f]
           /\ fork_at'[e] \in {"child", "finish"}
           /\ fork_at'[e] = "child" => /\ fork_pn'[e] \in VAs \ {UXSTACK} /\ fork_pn'[e] # y
                                       /\ Maps(e, fork_pn'[e])
           /\ \A va \in Private \cup Shared : Passed(e, va)' => va = y \/ Passed(e, va)
           /\ \A va \in VAs : Maps(e, va) /\ va # y /\ va # UXSTACK /\ y <= va =>
                  fork_at'[e] = "child" /\ fork_pn'[e] <= va
<1>1. TypeOK /\ y \in Nat /\ y + 1 \in Nat
  BY Layout DEF IInv
<1>2. /\ fork_at' \in [Envs -> {"none", "child", "parent", "finish"}]
      /\ fork_pn' \in [Envs -> VAs \cup {NULL}]
      /\ \A f \in Envs \ {e} : fork_at'[f] = fork_at[f] /\ fork_pn'[f] = fork_pn[f]
      /\ \/ /\ fork_at'[e] = "finish"
            /\ \A va \in VAs : Maps(e, va) /\ y + 1 <= va => va = UXSTACK
         \/ /\ fork_at'[e] = "child"
            /\ fork_pn'[e] \in VAs \ {UXSTACK} /\ Maps(e, fork_pn'[e])
            /\ y + 1 <= fork_pn'[e]
            /\ \A va \in VAs : Maps(e, va) /\ y + 1 <= va => fork_pn'[e] <= va
  BY <1>1, LoopGoesOn, Zenon
<1>3. \A va \in Private \cup Shared : va \in VAs /\ va # UXSTACK /\ Maps(e, va)
  BY Layout, Zenon DEF IInv, Local, LifeOf
<1>4. fork_at'[e] = "child" => fork_pn'[e] # y
  <2> SUFFICES ASSUME fork_at'[e] = "child" PROVE fork_pn'[e] # y
    BY Zenon
  <2>1. fork_pn'[e] \in Nat /\ y + 1 <= fork_pn'[e]
    BY <1>2, Layout, Zenon
  <2> QED
    BY <1>1, <2>1
<1>5. ASSUME NEW va \in VAs, Maps(e, va), va # y, va # UXSTACK, y <= va
      PROVE  fork_at'[e] = "child" /\ fork_pn'[e] <= va
  <2>1. va \in Nat /\ y + 1 <= va
    <3>1. va \in Nat
      BY Layout, Zenon
    <3> QED
      BY <1>1, <1>5, <3>1
  <2> QED
    BY <1>2, <1>5, <2>1, Zenon
<1>6. ASSUME NEW va \in Private \cup Shared, Passed(e, va)', va # y, ~Passed(e, va)
      PROVE  FALSE
  <2>1. va \in Nat /\ y <= va
    <3>1. va \in Nat
      BY <1>3, Layout, Zenon
    <3>2. ~(va < y)
      BY <1>6, Zenon DEF Passed, Looping
    <3> QED
      BY <1>1, <3>1, <3>2
  <2>2. fork_at'[e] = "child" /\ fork_pn'[e] <= va
    BY <1>3, <1>5, <1>6, <2>1, Zenon
  <2>3. fork_pn'[e] \in Nat
    BY <1>2, <2>2, Layout, Zenon
  <2>4. ~(va < fork_pn'[e])
    BY <2>1, <2>2, <2>3
  <2> QED
    BY <1>6, <2>2, <2>4, Zenon DEF Passed, Looping
<1> QED
  BY <1>2, <1>4, <1>5, <1>6, Zenon

\* duppage() gives the child the page that the loop is at.
LEMMA StepDupChild ==
    ASSUME IInv, NEW e \in Envs, duppage_child(e)
    PROVE  IInv' /\ UNCHANGED <<Alive, Mem>>
<1> USE DEF Maps, Has, Looping
<1>0. /\ TypeOK /\ \A f \in Envs : Local(f)
      /\ Parents /\ Copied /\ Temp /\ CopyDone /\ Owned /\ XStack /\ ShareSame
  BY Zenon DEF IInv
<1>1. /\ status[e] = "alive" /\ pf_at[e] = "none" /\ fork_at[e] = "child"
      /\ UNCHANGED <<content, status, fork_child, pf_at, pf_va, forks>>
  BY Zenon DEF duppage_child, Forking, pfVars
<1>2. PICK c \in Envs : c = fork_child[e] /\ status[c] = "embryo" /\ c # e
  BY <1>0, <1>1, Zenon DEF Parents, ParentOf
<1>3. PICK y \in VAs : y = fork_pn[e] /\ y # UXSTACK /\ pte[e][y] # NULL
  BY <1>0, <1>1, Zenon DEF Local, AtPageOf
<1>a. ChildMapped(e, c, y)
  BY <1>2, <1>3, DupChild, Zenon
<1>4. /\ pte' \in [Envs -> [VAs -> Entry \cup {NULL}]]
      /\ pte'[c][y] # NULL /\ pte'[c][y].pp = pte[e][y].pp
      /\ pte'[c][y].perm # "W" /\ (pte'[c][y].perm = "SHARE" <=> y \in Shared)
      /\ y = PFTEMP => pte'[c][y].perm = "COW"
      /\ \A f \in Envs, wa \in VAs : f # c \/ wa # y => pte'[f][wa] = pte[f][wa]
  BY <1>a, Zenon DEF ChildMapped
<1>5. \/ /\ pte[e][y].perm \in {"W", "COW"}
         /\ fork_at' = [fork_at EXCEPT ![e] = "parent"] /\ fork_pn' = fork_pn
      \/ pte[e][y].perm \notin {"W", "COW"} /\ Loop(e, y + 1)
  BY <1>a, Zenon DEF ChildMapped
<1>6. /\ fork_at' \in [Envs -> {"none", "child", "parent", "finish"}]
      /\ fork_pn' \in [Envs -> VAs \cup {NULL}]
      /\ \A f \in Envs \ {e} : fork_at'[f] = fork_at[f] /\ fork_pn'[f] = fork_pn[f]
      /\ fork_at'[e] # "none"
      /\ fork_at'[e] \in {"child", "parent"} =>
            fork_pn'[e] \in VAs \ {UXSTACK} /\ pte[e][fork_pn'[e]] # NULL
      /\ fork_at'[e] = "parent" => pte[e][fork_pn'[e]].perm \in {"W", "COW"}
      /\ \A va \in Private \cup Shared : Passed(e, va)' => va = y \/ Passed(e, va)
      /\ \A va \in VAs : Has(e, va, "W") /\ va # UXSTACK /\ y <= va =>
             Looping(e)' /\ fork_pn'[e] <= va
  <2>1. CASE /\ pte[e][y].perm \in {"W", "COW"}
             /\ fork_at' = [fork_at EXCEPT ![e] = "parent"] /\ fork_pn' = fork_pn
    <3>1. fork_at'[e] = "parent" /\ \A f \in Envs \ {e} : fork_at'[f] = fork_at[f]
      BY <1>0, <2>1, Zenon DEF TypeOK
    <3> QED
      BY <1>0, <1>1, <1>3, <2>1, <3>1, Zenon DEF TypeOK, Passed
  <2>2. CASE pte[e][y].perm \notin {"W", "COW"} /\ Loop(e, y + 1)
    <3>1. /\ fork_at' \in [Envs -> {"none", "child", "parent", "finish"}]
          /\ fork_pn' \in [Envs -> VAs \cup {NULL}]
          /\ \A f \in Envs \ {e} : fork_at'[f] = fork_at[f] /\ fork_pn'[f] = fork_pn[f]
          /\ fork_at'[e] \in {"child", "finish"}
          /\ fork_at'[e] = "child" => /\ fork_pn'[e] \in VAs \ {UXSTACK} /\ fork_pn'[e] # y
                                      /\ Maps(e, fork_pn'[e])
          /\ \A va \in Private \cup Shared : Passed(e, va)' => va = y \/ Passed(e, va)
          /\ \A va \in VAs : Maps(e, va) /\ va # y /\ va # UXSTACK /\ y <= va =>
                 fork_at'[e] = "child" /\ fork_pn'[e] <= va
      BY <1>1, <1>3, <2>2, LoopPassed, Zenon
    <3> QED
      BY <2>2, <3>1, Zenon
  <2> QED
    BY <1>5, <2>1, <2>2, Zenon
<1>7. /\ fork_at[c] = "none" /\ pf_at[c] = "none" /\ \A va \in VAs : ~Has(c, va, "W")
      /\ pte[c][UXSTACK] = NULL
  BY <1>0, <1>2, Zenon DEF Local, LifeOf
<1>10. TypeOK'
  BY <1>0, <1>1, <1>4, <1>6, Zenon DEF TypeOK
<1>11. ASSUME NEW f \in Envs PROVE Local(f)'
  <2>0. Local(f)
    BY <1>0, Zenon
  <2>1. CASE f # e /\ f # c
    <3>1. /\ \A wa \in VAs : pte'[f][wa] = pte[f][wa]
          /\ fork_at'[f] = fork_at[f] /\ fork_pn'[f] = fork_pn[f]
      BY <1>4, <1>6, <2>1, Zenon
    <3> QED
      BY <1>1, <2>0, <3>1, LocalFrame, Zenon
  <2>2. CASE f = e
    <3>0. \A wa \in VAs : pte'[e][wa] = pte[e][wa]
      BY <1>2, <1>4, Zenon
    <3>1. LifeOf(e)'
      <4>1. \A va \in Private \cup Shared : va \in VAs /\ pte[e][va] # NULL
        BY <1>1, <2>0, <2>2, Layout, Zenon DEF Local, LifeOf
      <4> QED
        BY <1>1, <3>0, <4>1, Zenon DEF LifeOf
    <3>2. AtPageOf(e)'
      BY <1>6, <3>0, Zenon DEF AtPageOf
    <3>3. HandlerOf(e)'
      BY <1>1, Zenon DEF HandlerOf
    <3>4. ASSUME NEW va \in VAs PROVE CowAt(e, va)' /\ ShareAt(e, va)'
      <4>1. CowAt(e, va)'
        BY <1>1, <2>0, <2>2, <3>0, Layout, Zenon DEF Local, CowAt
      <4> QED
        BY <2>0, <2>2, <3>0, <4>1, ShareKept, Zenon
    <3> QED
      BY <2>2, <3>1, <3>2, <3>3, <3>4, Zenon DEF Local
  <2>3. CASE f = c
    <3>1. LifeOf(c)'
      <4>1. status'[c] = "embryo" /\ fork_at'[c] = "none" /\ pf_at'[c] = "none"
        BY <1>1, <1>2, <1>6, <1>7, Zenon
      <4>2. pte'[c][UXSTACK] = NULL
        BY <1>3, <1>4, <1>7, Layout, Zenon
      <4>3. ASSUME NEW va \in VAs PROVE ~Has(c, va, "W")'
        <5>1. CASE va = y
          BY <1>4, <5>1, Zenon
        <5>2. CASE va # y
          BY <1>4, <1>7, <5>2, Zenon
        <5> QED
          BY <5>1, <5>2, Zenon
      <4> QED
        BY <4>1, <4>2, <4>3, Zenon DEF LifeOf
    <3>2. AtPageOf(c)' /\ HandlerOf(c)'
      BY <1>1, <1>2, <1>6, <1>7, Zenon DEF AtPageOf, HandlerOf
    <3>3. ASSUME NEW va \in VAs PROVE CowAt(c, va)'
      BY <1>1, <1>2, Zenon DEF CowAt
    <3>4. ASSUME NEW va \in VAs PROVE ShareAt(c, va)'
      <4>1. CASE va = y
        BY <1>4, <4>1, Zenon DEF ShareAt
      <4>2. CASE va # y
        BY <1>4, <2>0, <2>3, <4>2, ShareKept, Zenon
      <4> QED
        BY <4>1, <4>2, Zenon
    <3> QED
      BY <2>3, <3>1, <3>2, <3>3, <3>4, Zenon DEF Local
  <2> QED
    BY <2>1, <2>2, <2>3, Zenon
<1>12. Parents'
  <2> SUFFICES ASSUME NEW f \in Envs, fork_at'[f] # "none" PROVE ParentOf(f)'
    BY Zenon DEF Parents, ParentOf
  <2>1. \A g \in Envs : fork_at'[g] # "none" => fork_at[g] # "none"
    BY <1>1, <1>6, Zenon
  <2>2. ParentOf(f) /\ pte'[f][UXSTACK] = pte[f][UXSTACK]
    BY <1>0, <1>3, <1>4, Layout, Zenon DEF Parents
  <2> QED
    BY <1>1, <2>1, <2>2, Zenon DEF ParentOf
<1>14. Copied'
  <2> SUFFICES ASSUME NEW f \in Envs, NEW va \in Private \cup Shared, Passed(f, va)' PROVE CopiedAt(f, va)'
    BY Zenon DEF Copied, CopiedAt
  <2>1. CopiedAt(f, va) /\ ParentOf(f) /\ va \in VAs
    BY <1>0, Layout, Zenon DEF Copied, Parents
  <2>2. CASE f = e /\ va = y
    <3>1. pte'[e][y] = pte[e][y]
      BY <1>2, <1>4, Zenon
    <3> QED
      BY <1>1, <1>2, <1>3, <1>4, <2>2, <3>1, Zenon DEF CopiedAt, Same
  <2>3. CASE f = e /\ va # y
    <3>1. pte'[e][va] = pte[e][va] /\ pte'[c][va] = pte[c][va] /\ Passed(e, va)
      BY <1>2, <1>4, <1>6, <2>1, <2>3, Zenon
    <3> QED
      BY <1>1, <1>2, <2>1, <2>3, <3>1, Zenon DEF CopiedAt, Same
  <2>4. CASE f # e
    <3>1. Passed(f, va)
      BY <1>6, <2>4, Zenon DEF Passed
    <3>2. fork_child[f] \in Envs /\ fork_child[f] # c /\ f # c
      BY <1>0, <1>1, <1>2, <1>7, <2>1, <2>4, <3>1, Zenon DEF Parents, ParentOf, Passed
    <3>3. pte'[f][va] = pte[f][va] /\ pte'[fork_child[f]][va] = pte[fork_child[f]][va]
      BY <1>4, <2>1, <3>2, Zenon
    <3> QED
      BY <1>1, <2>1, <3>1, <3>3, Zenon DEF CopiedAt, Same
  <2> QED
    BY <2>2, <2>3, <2>4, Zenon
<1>15. ASSUME NEW f \in Envs, NEW g \in Envs, NEW va \in VAs, NEW wa \in VAs, Same(f, va, g, wa)',
              f # c \/ va # y
       PROVE  /\ pte'[f][va] = pte[f][va]
              /\ \/ g = c /\ wa = y /\ Same(f, va, e, y)
                 \/ (g # c \/ wa # y) /\ Same(f, va, g, wa)
  BY <1>3, <1>4, <1>15, ZenonT(30) DEF Same
<1>16. Temp'
  <2> SUFFICES ASSUME NEW f \in Envs, pf_at'[f] \in {"copy", "map"} PROVE TempOf(f)'
    BY Zenon DEF Temp, TempOf
  <2>1. f # c /\ f # e /\ pf_at[f] \in {"copy", "map"} /\ TempOf(f)
    BY <1>0, <1>1, <1>7, Zenon DEF Temp
  <2>2. pte'[f][PFTEMP] = pte[f][PFTEMP]
    BY <1>4, <2>1, Layout, Zenon
  <2>3. ASSUME NEW g \in Envs, NEW wa \in VAs, Same(f, PFTEMP, g, wa)' PROVE g = f /\ wa = PFTEMP
    <3>1. Same(f, PFTEMP, e, y) \/ Same(f, PFTEMP, g, wa)
      BY <1>15, <2>1, <2>3, Layout, Zenon
    <3> QED
      BY <2>1, <3>1, Zenon DEF TempOf
  <2> QED
    BY <2>1, <2>2, <2>3, Zenon DEF TempOf
<1>17. CopyDone'
  <2> SUFFICES ASSUME NEW f \in Envs, pf_at'[f] = "map" PROVE CopyDoneOf(f)'
    BY Zenon DEF CopyDone, CopyDoneOf
  <2>1. f # c /\ pf_at[f] = "map" /\ pf_va'[f] = pf_va[f]
    BY <1>1, <1>7, Zenon
  <2>2. \A wa \in VAs : pte'[f][wa] = pte[f][wa]
    BY <1>4, <2>1, Zenon
  <2> QED
    BY <1>1, <2>1, <2>2, CopyKept, Zenon
<1>18. Owned'
  <2> SUFFICES ASSUME NEW f \in Envs, NEW g \in Envs, NEW va \in VAs \ {PFTEMP}, NEW wa \in VAs,
                      Has(f, va, "W")', Same(f, va, g, wa)'
               PROVE  \/ f = g /\ wa \in {va, PFTEMP}
                      \/ Looping(f)' /\ g = fork_child'[f] /\ fork_pn'[f] <= va
    <3> SUFFICES ASSUME NEW f \in Envs, NEW g \in Envs, NEW va \in VAs \ {PFTEMP}, NEW wa \in VAs
                 PROVE  OwnedAt(f, g, va, wa)'
      BY Zenon DEF Owned
    <3> QED
      BY Zenon DEF OwnedAt
  <2>1. f # c \/ va # y
    BY <1>4, Zenon
  <2>2. Has(f, va, "W") /\ va \in VAs /\ va # PFTEMP
    <3>1. pte'[f][va] = pte[f][va]
      BY <1>15, <2>1, Zenon
    <3> QED
      BY <3>1, Zenon
  <2>3. va = UXSTACK => g = f /\ wa = UXSTACK
    <3> SUFFICES ASSUME va = UXSTACK PROVE g = f /\ wa = UXSTACK
      BY Zenon
    <3>1. XStackOf(f) /\ pte[f][UXSTACK] # NULL
      BY <1>0, <2>2, Zenon DEF XStack
    <3>2. Same(f, UXSTACK, g, wa) \/ Same(f, UXSTACK, e, y)
      BY <1>15, <2>1, <2>2, Zenon
    <3> QED
      BY <1>3, <3>1, <3>2, Zenon DEF XStackOf
  <2>4. CASE g = c /\ wa = y /\ Same(f, va, e, y)
    <3>1. OwnedAt(f, e, va, y) /\ ~(fork_at[f] # "none" /\ fork_child[f] = e)
      BY <1>0, <1>1, <2>2, Zenon DEF Owned, Parents, ParentOf
    <3>2. f = e /\ y \in {va, PFTEMP}
      BY <2>2, <2>4, <3>1, Zenon DEF OwnedAt
    <3>3. y <= va
      <4>1. y \in Nat /\ va \in Nat
        BY <2>2, Layout, Zenon
      <4>2. y = va \/ y < va
        BY <2>2, <3>2, Layout, Zenon
      <4> QED
        BY <4>1, <4>2
    <3> QED
      BY <1>1, <1>2, <1>6, <2>2, <2>3, <2>4, <3>2, <3>3, ZenonT(30)
  <2>5. CASE Same(f, va, g, wa)
    <3>1. \/ f = g /\ wa \in {va, PFTEMP}
          \/ Looping(f) /\ g = fork_child[f] /\ fork_pn[f] <= va
      BY <1>0, <2>2, <2>5, Zenon DEF Owned, OwnedAt
    <3>2. CASE f = g /\ wa \in {va, PFTEMP}
      BY <3>2, Zenon
    <3>3. CASE Looping(f) /\ g = fork_child[f] /\ fork_pn[f] <= va
      BY <1>1, <1>2, <1>3, <1>6, <2>2, <2>3, <3>3, Zenon
    <3> QED
      BY <3>1, <3>2, <3>3, Zenon
  <2> QED
    BY <1>15, <2>1, <2>4, <2>5, Zenon
<1>19. XStack'
  <2> SUFFICES ASSUME NEW f \in Envs, pte'[f][UXSTACK] # NULL PROVE XStackOf(f)'
    BY Zenon DEF XStack, XStackOf
  <2>1. XStackOf(f) /\ pte'[f][UXSTACK] = pte[f][UXSTACK]
    BY <1>0, <1>3, <1>4, Layout, Zenon DEF XStack
  <2>3. ASSUME NEW g \in Envs, NEW wa \in VAs, Same(f, UXSTACK, g, wa)' PROVE g = f /\ wa = UXSTACK
    <3>1. Same(f, UXSTACK, e, y) \/ Same(f, UXSTACK, g, wa)
      BY <1>3, <1>15, <2>3, Layout, Zenon
    <3>2. pte[f][UXSTACK] # NULL
      BY <2>1, Zenon
    <3> QED
      BY <1>3, <2>1, <3>1, <3>2, Zenon DEF XStackOf
  <2> QED
    BY <2>1, <2>3, Zenon DEF XStackOf
<1>22. ShareSame'
  <2> SUFFICES ASSUME NEW f \in Envs, NEW g \in Envs, NEW va \in Shared, NEW wa \in VAs,
                      pte'[f][va] # NULL, pte'[g][wa] # NULL
               PROVE  pte'[f][va].pp = pte'[g][wa].pp <=> va = wa
    BY DEF ShareSame, ShareSameAt
  <2>1. va \in VAs
    BY Layout, Zenon
  <2>2. PICK f1 \in Envs : pte[f1][va] # NULL /\ pte'[f][va].pp = pte[f1][va].pp
    BY <1>3, <1>4, <2>1, ZenonT(30)
  <2>3. PICK g1 \in Envs : pte[g1][wa] # NULL /\ pte'[g][wa].pp = pte[g1][wa].pp
    BY <1>3, <1>4, ZenonT(30)
  <2>4. ShareSameAt(f1, g1, va, wa)
    BY <1>0, Zenon DEF ShareSame
  <2> QED
    BY <2>2, <2>3, <2>4, Zenon DEF ShareSameAt
<1>23. UNCHANGED <<Alive, Mem>>
  <2>1. ASSUME NEW f \in Envs, NEW va \in Private \cup Shared, status[f] = "alive"
        PROVE  content'[pte'[f][va].pp] = content[pte[f][va].pp]
    <3>1. va \in VAs /\ f # c
      BY <1>2, <2>1, Layout, Zenon
    <3> QED
      BY <1>1, <1>4, <3>1, Zenon
  <2> QED
    BY <1>1, <2>1, Unseen, Zenon
<1> QED
  BY <1>10, <1>11, <1>12, <1>14, <1>16, <1>17, <1>18, <1>19, <1>22, <1>23, ZenonT(30) DEF IInv

\* duppage() marks the parent's own page copy-on-write.
LEMMA StepDupParent ==
    ASSUME IInv, NEW e \in Envs, duppage_parent(e)
    PROVE  IInv' /\ UNCHANGED <<Alive, Mem>>
<1> USE DEF Maps, Has, Looping
<1>0. /\ TypeOK /\ \A f \in Envs : Local(f)
      /\ Parents /\ Copied /\ Temp /\ CopyDone /\ Owned /\ XStack /\ ShareSame
  BY Zenon DEF IInv
<1>1. /\ status[e] = "alive" /\ pf_at[e] = "none" /\ fork_at[e] = "parent"
      /\ UNCHANGED <<content, status, fork_child, pf_at, pf_va, forks>>
  BY Zenon DEF duppage_parent, remap_parent, Forking, pfVars
<1>2. PICK y \in VAs : /\ y = fork_pn[e] /\ y # UXSTACK /\ pte[e][y] # NULL
                       /\ pte[e][y].perm \in {"W", "COW"} /\ y \notin Shared
  BY <1>0, <1>1, Zenon DEF Local, AtPageOf, ShareAt
<1> DEFINE n == [pte[e][y] EXCEPT !.perm = "COW"]
<1>3. n \in Entry /\ n.pp = pte[e][y].pp /\ n.perm = "COW"
  BY <1>0, <1>2, EntryType DEF Entry, Perm
<1>4. n # NULL
  BY <1>3, Layout, Zenon
<1>5. pte' = [pte EXCEPT ![e][y] = n] /\ Loop(e, y + 1)
  <2>1. /\ pte' = [pte EXCEPT ![e][y] = [@ EXCEPT !.perm = "COW"]]
        /\ Loop(e, y + 1)
    BY <1>2, Zenon DEF duppage_parent, remap_parent
  <2> QED
    BY <1>0, <2>1, Zenon DEF TypeOK
<1> HIDE DEF n
<1>6. /\ pte' \in [Envs -> [VAs -> Entry \cup {NULL}]] /\ pte'[e][y] = n
      /\ \A f \in Envs, wa \in VAs : f # e \/ wa # y => pte'[f][wa] = pte[f][wa]
  BY <1>0, <1>3, <1>5, OneEntry
<1>7. /\ pte'[e][y] # NULL /\ pte'[e][y].perm = "COW" /\ pte'[e][y].pp = pte[e][y].pp
      /\ \A f \in Envs, wa \in VAs : f # e \/ wa # y => pte'[f][wa] = pte[f][wa]
  BY <1>3, <1>4, <1>6, Zenon
<1>9. \A f \in Envs, wa \in VAs : /\ pte'[f][wa] = NULL <=> pte[f][wa] = NULL
                                  /\ pte'[f][wa].pp = pte[f][wa].pp
  BY <1>2, <1>7, Zenon
<1>8. /\ fork_at' \in [Envs -> {"none", "child", "parent", "finish"}]
      /\ fork_pn' \in [Envs -> VAs \cup {NULL}]
      /\ \A f \in Envs \ {e} : fork_at'[f] = fork_at[f] /\ fork_pn'[f] = fork_pn[f]
      /\ fork_at'[e] \in {"child", "finish"}
      /\ fork_at'[e] = "child" => /\ fork_pn'[e] \in VAs \ {UXSTACK} /\ fork_pn'[e] # y
                                  /\ Maps(e, fork_pn'[e])
      /\ \A va \in Private \cup Shared : Passed(e, va)' => va = y \/ Passed(e, va)
      /\ \A va \in VAs : Maps(e, va) /\ va # y /\ va # UXSTACK /\ y <= va =>
             fork_at'[e] = "child" /\ fork_pn'[e] <= va
  BY <1>1, <1>2, <1>5, LoopPassed, Zenon
<1>10. TypeOK'
  BY <1>0, <1>1, <1>6, <1>8, Zenon DEF TypeOK
<1>11. ASSUME NEW f \in Envs PROVE Local(f)'
  <2>0. Local(f)
    BY <1>0, Zenon
  <2>1. CASE f # e
    <3>1. /\ \A wa \in VAs : pte'[f][wa] = pte[f][wa]
          /\ fork_at'[f] = fork_at[f] /\ fork_pn'[f] = fork_pn[f]
      BY <1>7, <1>8, <2>1, Zenon
    <3> QED
      BY <1>1, <2>0, <3>1, LocalFrame, Zenon
  <2>2. CASE f = e
    <3>1. LifeOf(e)'
      <4>1. \A va \in Private \cup Shared : va \in VAs /\ pte[e][va] # NULL
        BY <1>1, <2>0, <2>2, Layout, Zenon DEF Local, LifeOf
      <4> QED
        BY <1>1, <1>9, <4>1, Zenon DEF LifeOf
    <3>2. AtPageOf(e)'
      BY <1>8, <1>9, Zenon DEF AtPageOf
    <3>3. HandlerOf(e)'
      BY <1>1, Zenon DEF HandlerOf
    <3>4. pte'[e][UXSTACK] # NULL
      BY <1>0, <1>1, <1>9, Layout, Zenon DEF Parents, ParentOf
    <3>5. ASSUME NEW va \in VAs PROVE CowAt(e, va)' /\ ShareAt(e, va)'
      <4>1. CowAt(e, va)'
        BY <3>4, Zenon DEF CowAt
      <4>2. CASE va = y
        <5>1. ShareAt(e, y)'
          BY <1>2, <1>7, Zenon DEF ShareAt
        <5> QED
          BY <4>1, <4>2, <5>1, Zenon
      <4>3. CASE va # y
        BY <1>7, <2>0, <2>2, <4>1, <4>3, ShareKept, Zenon
      <4> QED
        BY <4>2, <4>3, Zenon
    <3> QED
      BY <2>2, <3>1, <3>2, <3>3, <3>5, Zenon DEF Local
  <2> QED
    BY <2>1, <2>2, Zenon
<1>12. Parents'
  <2> SUFFICES ASSUME NEW f \in Envs, fork_at'[f] # "none" PROVE ParentOf(f)'
    BY Zenon DEF Parents, ParentOf
  <2>1. \A g \in Envs : fork_at'[g] # "none" => fork_at[g] # "none"
    BY <1>1, <1>8, Zenon
  <2>2. ParentOf(f) /\ (pte'[f][UXSTACK] # NULL <=> pte[f][UXSTACK] # NULL)
    BY <1>0, <1>9, Layout, Zenon DEF Parents
  <2> QED
    BY <1>1, <2>1, <2>2, Zenon DEF ParentOf
<1>14. Copied'
  <2> SUFFICES ASSUME NEW f \in Envs, NEW va \in Private \cup Shared, Passed(f, va)' PROVE CopiedAt(f, va)'
    BY Zenon DEF Copied, CopiedAt
  <2>1. CopiedAt(f, va) /\ ParentOf(f) /\ va \in VAs
    BY <1>0, Layout, Zenon DEF Copied, Parents
  <2>2. Passed(f, va)
    <3>1. CASE f = e
      BY <1>1, <1>2, <1>8, <3>1, Zenon DEF Passed
    <3>2. CASE f # e
      BY <1>8, <3>2, Zenon DEF Passed
    <3> QED
      BY <3>1, <3>2, Zenon
  <2>3. fork_child[f] \in Envs
    BY <2>1, <2>2, Zenon DEF ParentOf, Passed
  <2>4. /\ pte'[f][va] # NULL <=> pte[f][va] # NULL
        /\ pte'[fork_child[f]][va] # NULL <=> pte[fork_child[f]][va] # NULL
        /\ pte'[f][va].pp = pte[f][va].pp /\ pte'[fork_child[f]][va].pp = pte[fork_child[f]][va].pp
    BY <1>9, <2>1, <2>3, Zenon
  <2> QED
    BY <1>1, <2>1, <2>2, <2>4, Zenon DEF CopiedAt, Same
<1>15. ASSUME NEW f \in Envs, NEW g \in Envs, NEW va \in VAs, NEW wa \in VAs
       PROVE  Same(f, va, g, wa)' <=> Same(f, va, g, wa)
  BY <1>9, Zenon DEF Same
<1>16. Temp'
  <2> SUFFICES ASSUME NEW f \in Envs, pf_at'[f] \in {"copy", "map"} PROVE TempOf(f)'
    BY Zenon DEF Temp, TempOf
  <2>1. f # e /\ pf_at[f] \in {"copy", "map"} /\ TempOf(f)
    BY <1>0, <1>1, Zenon DEF Temp
  <2>2. pte'[f][PFTEMP] = pte[f][PFTEMP]
    BY <1>7, <2>1, Layout, Zenon
  <2> QED
    BY <1>15, <2>1, <2>2, Layout, Zenon DEF TempOf
<1>17. CopyDone'
  <2> SUFFICES ASSUME NEW f \in Envs, pf_at'[f] = "map" PROVE CopyDoneOf(f)'
    BY Zenon DEF CopyDone, CopyDoneOf
  <2>1. f # e /\ pf_at[f] = "map" /\ pf_va'[f] = pf_va[f]
    BY <1>1, Zenon
  <2>2. \A wa \in VAs : pte'[f][wa] = pte[f][wa]
    BY <1>7, <2>1, Zenon
  <2> QED
    BY <1>1, <2>1, <2>2, CopyKept, Zenon
<1>18. Owned'
  <2> SUFFICES ASSUME NEW f \in Envs, NEW g \in Envs, NEW va \in VAs \ {PFTEMP}, NEW wa \in VAs,
                      Has(f, va, "W")', Same(f, va, g, wa)'
               PROVE  \/ f = g /\ wa \in {va, PFTEMP}
                      \/ Looping(f)' /\ g = fork_child'[f] /\ fork_pn'[f] <= va
    <3> SUFFICES ASSUME NEW f \in Envs, NEW g \in Envs, NEW va \in VAs \ {PFTEMP}, NEW wa \in VAs
                 PROVE  OwnedAt(f, g, va, wa)'
      BY Zenon DEF Owned
    <3> QED
      BY Zenon DEF OwnedAt
  <2>1. (f # e \/ va # y) /\ Has(f, va, "W") /\ Same(f, va, g, wa) /\ va \in VAs
    BY <1>7, <1>15, Zenon
  <2>2. \/ f = g /\ wa \in {va, PFTEMP}
        \/ Looping(f) /\ g = fork_child[f] /\ fork_pn[f] <= va
    BY <1>0, <2>1, Zenon DEF Owned, OwnedAt
  <2>3. va = UXSTACK => g = f /\ wa = va
    <3>1. XStackOf(f)
      BY <1>0, Zenon DEF XStack
    <3> QED
      BY <2>1, <3>1, Zenon DEF XStackOf
  <2>4. CASE f = g /\ wa \in {va, PFTEMP}
    BY <2>4, Zenon
  <2>5. CASE f # e /\ Looping(f) /\ g = fork_child[f] /\ fork_pn[f] <= va
    BY <1>1, <1>8, <2>5, Zenon
  <2>6. CASE f = e /\ Looping(f) /\ g = fork_child[f] /\ fork_pn[f] <= va
    BY <1>1, <1>2, <1>8, <2>1, <2>3, <2>6, Zenon
  <2> QED
    BY <2>2, <2>4, <2>5, <2>6, Zenon
<1>19. XStack'
  <2> SUFFICES ASSUME NEW f \in Envs, pte'[f][UXSTACK] # NULL PROVE XStackOf(f)'
    BY Zenon DEF XStack, XStackOf
  <2>1. XStackOf(f) /\ pte'[f][UXSTACK] = pte[f][UXSTACK]
    BY <1>0, <1>2, <1>7, Layout, Zenon DEF XStack
  <2>2. ASSUME NEW g \in Envs, NEW wa \in VAs, Same(f, UXSTACK, g, wa)' PROVE g = f /\ wa = UXSTACK
    <3>1. Same(f, UXSTACK, g, wa)
      BY <1>15, <2>2, Layout, Zenon
    <3> QED
      BY <2>1, <3>1, Zenon DEF XStackOf, Same
  <2> QED
    BY <2>1, <2>2, Zenon DEF XStackOf
<1>22. ShareSame'
  <2> SUFFICES ASSUME NEW f \in Envs, NEW g \in Envs, NEW va \in Shared, NEW wa \in VAs
               PROVE  ShareSameAt(f, g, va, wa)'
    BY Zenon DEF ShareSame
  <2>1. va \in VAs /\ ShareSameAt(f, g, va, wa)
    BY <1>0, Layout, Zenon DEF ShareSame
  <2>2. /\ (pte'[f][va] = NULL <=> pte[f][va] = NULL) /\ pte'[f][va].pp = pte[f][va].pp
        /\ (pte'[g][wa] = NULL <=> pte[g][wa] = NULL) /\ pte'[g][wa].pp = pte[g][wa].pp
    BY <1>9, <2>1, Zenon
  <2> QED
    BY <2>1, <2>2, Zenon DEF ShareSameAt
<1>23. UNCHANGED <<Alive, Mem>>
  <2>1. ASSUME NEW f \in Envs, NEW va \in Private \cup Shared, status[f] = "alive"
        PROVE  content'[pte'[f][va].pp] = content[pte[f][va].pp]
    <3>1. va \in VAs
      BY Layout, Zenon
    <3> QED
      BY <1>1, <1>9, <3>1, Zenon
  <2> QED
    BY <1>1, <2>1, Unseen, Zenon
<1> QED
  BY <1>10, <1>11, <1>12, <1>14, <1>16, <1>17, <1>18, <1>19, <1>22, <1>23, Zenon DEF IInv

-----------------------------------------------------------------------------
(* The steps that are seen implement those of PrivateMemory. *)

\* Where a write is seen: by the writer at that address, and by all who share it.
LEMMA WriteSeen ==
    ASSUME IInv, NEW e \in Envs, NEW y \in VAs, NEW v \in Writes[e], write(e, y, v),
           NEW f \in Envs, status[f] = "alive"
    PROVE  \A wa \in Private \cup Shared : content'[pte'[f][wa].pp] =
               IF wa = y /\ (f = e \/ y \in Shared) THEN v ELSE content[pte[f][wa].pp]
<1> SUFFICES ASSUME NEW wa \in Private \cup Shared
             PROVE  content'[pte'[f][wa].pp] =
                        IF wa = y /\ (f = e \/ y \in Shared) THEN v ELSE content[pte[f][wa].pp]
  BY Zenon
<1> USE DEF Maps, Has, Same, Looping
<1>1. /\ status[e] = "alive" /\ y \in Data \cup Shared \cup {Stack} /\ pte[e][y] # NULL
      /\ pte[e][y].perm \in {"W", "SHARE"}
      /\ pte' = pte /\ content' = [content EXCEPT ![pte[e][y].pp] = v]
  BY Zenon DEF write, Executes
<1>2. TypeOK /\ Local(f) /\ Local(e)
  BY Zenon DEF IInv
<1>3. wa \in VAs /\ pte[f][wa] # NULL /\ wa # PFTEMP
  BY <1>2, Layout, Zenon DEF Local, LifeOf
<1>4. pte[e][y].pp \in Pages /\ pte[f][wa].pp \in Pages
  BY <1>1, <1>2, <1>3, EntryType, Zenon
<1>5. content'[pte'[f][wa].pp] = IF pte[f][wa].pp = pte[e][y].pp THEN v ELSE content[pte[f][wa].pp]
  BY <1>1, <1>2, <1>4, Zenon DEF TypeOK
<1>6. pte[f][wa].pp = pte[e][y].pp <=> wa = y /\ (f = e \/ y \in Shared)
  <2>1. CASE y \in Shared
    <3>1. ShareSameAt(e, f, y, wa)
      BY <1>3, <2>1, Zenon DEF IInv, ShareSame
    <3> QED
      BY <1>1, <1>3, <2>1, <3>1, Zenon DEF ShareSameAt
  <2>2. CASE y \notin Shared
    <3>1. pte[e][y].perm = "W" /\ y # PFTEMP
      BY <1>1, <1>2, <2>2, Layout, Zenon DEF Local, ShareAt
    <3>2. OwnedAt(e, f, y, wa)
      BY <1>3, <3>1, Zenon DEF IInv, Owned
    <3>3. fork_at[e] # "none" => fork_child[e] # f
      BY Zenon DEF IInv, Parents, ParentOf
    <3> QED
      BY <1>1, <1>3, <2>2, <3>1, <3>2, <3>3, Zenon DEF OwnedAt
  <2> QED
    BY <2>1, <2>2, Zenon
<1> QED
  BY <1>5, <1>6, Zenon

\* The addresses of a program, as both specifications see them.
LEMMA SameAddr == M!Addr = Private \cup Shared
BY Zenon DEF M!Addr, Private

\* A write is a Write of PrivateMemory.
LEMMA WriteImplements ==
    ASSUME IInv, NEW e \in Envs, NEW y \in VAs, NEW v \in Writes[e], write(e, y, v)
    PROVE  y \in M!Addr /\ M!Write(Alive, Mem, Alive', Mem', e, y, v)
<1>1. /\ status[e] = "alive" /\ status' = status
      /\ y \in Data \cup Shared \cup {Stack}
  BY Zenon DEF write, Executes
<1>2. y \in Private \cup Shared
  BY <1>1, Zenon DEF Private
<1>3. e \in Alive /\ Alive' = Alive
  BY <1>1, Zenon DEF Alive
<1> DEFINE N == [f \in Envs |-> IF f = e \/ (y \in Shared /\ f \in Alive)
                               THEN [Mem[f] EXCEPT ![y] = v] ELSE Mem[f]]
<1>4. ASSUME NEW f \in Envs PROVE Mem'[f] = N[f]
  <2>1. Mem[f] = [wa \in Private \cup Shared |->
                    IF status[f] = "alive" THEN content[pte[f][wa].pp] ELSE NULL]
    BY Zenon DEF Mem
  <2>2. Mem'[f] = [wa \in Private \cup Shared |->
                    IF status[f] = "alive" THEN content'[pte'[f][wa].pp] ELSE NULL]
    BY <1>1, Zenon DEF Mem
  <2>3. CASE status[f] # "alive"
    <3>1. f # e /\ f \notin Alive
      BY <1>1, <2>3, Zenon DEF Alive
    <3> QED
      BY <2>1, <2>2, <2>3, <3>1, Zenon
  <2>4. CASE status[f] = "alive"
    <3>1. f \in Alive
      BY <2>4, Zenon DEF Alive
    <3>2. \A wa \in Private \cup Shared : content'[pte'[f][wa].pp] =
             IF wa = y /\ (f = e \/ y \in Shared) THEN v ELSE content[pte[f][wa].pp]
      BY <2>4, WriteSeen
    <3>3. CASE f = e \/ y \in Shared
      <4>1. N[f] = [Mem[f] EXCEPT ![y] = v]
        BY <3>1, <3>3, Zenon
      <4>2. N[f] = [wa \in Private \cup Shared |-> IF wa = y THEN v ELSE content[pte[f][wa].pp]]
        BY <1>2, <2>1, <2>4, <4>1, Zenon
      <4> QED
        BY <2>2, <2>4, <3>2, <3>3, <4>2
    <3>4. CASE f # e /\ y \notin Shared
      <4>1. N[f] = Mem[f]
        BY <3>4, Zenon
      <4> QED
        BY <2>1, <2>2, <2>4, <3>2, <3>4, <4>1
    <3> QED
      BY <3>3, <3>4, Zenon
  <2> QED
    BY <2>3, <2>4, Zenon
<1>5. Mem' = N
  <2>1. Mem' = [f \in Envs |-> Mem'[f]]
    BY Zenon DEF Mem
  <2>2. N = [f \in Envs |-> N[f]]
    BY Zenon
  <2> HIDE DEF N
  <2> QED
    BY <1>4, <2>1, <2>2, Zenon
<1> QED
  BY <1>2, <1>3, <1>5, SameAddr, Zenon DEF M!Write

\* The end of fork() is a Fork of PrivateMemory: the child's memory is the parent's.
LEMMA FinishImplements ==
    ASSUME IInv, NEW e \in Envs, fork_finish(e)
    PROVE  \E c \in Envs : M!Fork(Alive, Mem, Alive', Mem', e, c)
<1> USE DEF Maps, Has, Same
<1>0. TypeOK /\ fork_at[e] = "finish" /\ status[e] = "alive" /\ Free # {} /\ UXSTACK \in VAs
  BY Layout, Zenon DEF IInv, fork_finish, Forking
<1>1. PICK c \in Envs : c = fork_child[e] /\ status[c] = "embryo" /\ c # e
  BY <1>0, Zenon DEF IInv, Parents, ParentOf
<1>2. /\ Remap([pte EXCEPT ![c][UXSTACK] = [pp |-> page_alloc(c, UXSTACK), perm |-> "W"]])
      /\ status' = [status EXCEPT ![c] = "alive"]
  BY <1>1, Zenon DEF fork_finish
<1>3. /\ content' \in [Pages -> Val]
      /\ \A f \in Envs, wa \in VAs : f # c \/ wa # UXSTACK => pte'[f][wa] = pte[f][wa]
      /\ \A f \in Envs, wa \in VAs : pte'[f][wa] # NULL =>
             content'[pte'[f][wa].pp] = content[pte'[f][wa].pp]
  BY <1>0, <1>2, NewPage
<1>4. status'[c] = "alive" /\ \A f \in Envs \ {c} : status'[f] = status[f]
  BY <1>0, <1>2, Zenon DEF TypeOK
<1>5. e \in Alive /\ c \in Envs \ Alive /\ Alive' = Alive \cup {c}
  BY <1>0, <1>1, <1>4, Zenon DEF Alive
<1>6. ASSUME NEW f \in Envs, NEW va \in Private \cup Shared, pte[f][va] # NULL
      PROVE  content'[pte'[f][va].pp] = content[pte[f][va].pp]
  <2>1. va \in VAs /\ va # UXSTACK
    BY Layout, Zenon
  <2> QED
    BY <1>3, <1>6, <2>1
<1>7. \A va \in Private \cup Shared :
          /\ va \in VAs /\ pte[c][va] # NULL /\ pte[e][va] # NULL
          /\ va # Stack => pte[c][va].pp = pte[e][va].pp
  <2> SUFFICES ASSUME NEW va \in Private \cup Shared
               PROVE  /\ va \in VAs /\ pte[c][va] # NULL /\ pte[e][va] # NULL
                      /\ va # Stack => pte[c][va].pp = pte[e][va].pp
    BY Zenon
  <2>1. CopiedAt(e, va) /\ Local(e) /\ va \in VAs
    BY Layout, Zenon DEF IInv, Copied
  <2>2. pte[e][va] # NULL
    BY <1>0, <2>1, Zenon DEF Local, LifeOf
  <2> QED
    BY <1>0, <1>1, <2>1, <2>2, Zenon DEF CopiedAt, Passed
<1>8. Stack \in Private \cup Shared
  BY Zenon DEF Private
<1> DEFINE v == content[pte[c][Stack].pp]
           N == [Mem EXCEPT ![c] = [Mem[e] EXCEPT ![Stack] = v]]
<1>9. v \in Val
  <2>1. pte[c][Stack].pp \in Pages
    BY <1>0, <1>7, <1>8, EntryType, Zenon
  <2> QED
    BY <1>0, <2>1, Zenon DEF TypeOK
<1> HIDE DEF v
<1>10. Mem[e] = [va \in Private \cup Shared |-> content[pte[e][va].pp]]
  BY <1>0, Zenon DEF Mem
<1>a. Mem = [f \in Envs |-> Mem[f]]
  BY Zenon DEF Mem
<1>b. N = [f \in Envs |-> N[f]] /\ N[c] = [Mem[e] EXCEPT ![Stack] = v] /\ \A f \in Envs \ {c} : N[f] = Mem[f]
  BY <1>a, Zenon
<1> HIDE DEF N
<1>11. ASSUME NEW f \in Envs PROVE Mem'[f] = N[f]
  <2>0. Mem'[f] = [va \in Private \cup Shared |->
                    IF status'[f] = "alive" THEN content'[pte'[f][va].pp] ELSE NULL]
    BY Zenon DEF Mem
  <2>1. CASE f = c
    <3>1. N[f] = [Mem[e] EXCEPT ![Stack] = v]
      BY <1>b, <2>1, Zenon
    <3>2. N[f] = [va \in Private \cup Shared |-> IF va = Stack THEN v ELSE content[pte[e][va].pp]]
      <4>1. \A va \in Private \cup Shared : Mem[e][va] = content[pte[e][va].pp]
        BY <1>10, Zenon
      <4>2. DOMAIN Mem[e] = Private \cup Shared
        BY <1>10, Zenon
      <4> QED
        BY <3>1, <4>1, <4>2, Zenon
    <3>3. \A va \in Private \cup Shared : content'[pte'[c][va].pp] = content[pte[c][va].pp]
      BY <1>6, <1>7, Zenon
    <3>4. \A va \in Private \cup Shared :
             content'[pte'[c][va].pp] = IF va = Stack THEN v ELSE content[pte[e][va].pp]
      BY <1>7, <3>3, Zenon DEF v
    <3> QED
      BY <1>4, <2>0, <2>1, <3>2, <3>4, Zenon
  <2>2. CASE f # c
    <3>1. N[f] = Mem[f]
      BY <1>b, <2>2, Zenon
    <3>2. Mem[f] = [va \in Private \cup Shared |->
                      IF status[f] = "alive" THEN content[pte[f][va].pp] ELSE NULL]
      BY Zenon DEF Mem
    <3>3. \A va \in Private \cup Shared :
             status[f] = "alive" => content'[pte'[f][va].pp] = content[pte[f][va].pp]
      BY <1>6, Zenon DEF IInv, Local, LifeOf
    <3> QED
      BY <1>4, <2>0, <2>2, <3>1, <3>2, <3>3, Zenon
  <2> QED
    BY <2>1, <2>2, Zenon
<1>12. Mem' = N
  <2>1. N = [f \in Envs |-> N[f]]
    BY <1>b, Zenon
  <2>2. Mem' = [f \in Envs |-> Mem'[f]]
    BY Zenon DEF Mem
  <2> QED
    BY <1>11, <2>1, <2>2, Zenon
<1>13. M!Fork(Alive, Mem, Alive', Mem', e, c)
  <2>1. \E w \in Val : Mem' = [Mem EXCEPT ![c] = [Mem[e] EXCEPT ![Stack] = w]]
    BY <1>9, <1>12, Zenon DEF N
  <2> QED
    BY <1>5, <2>1, Zenon DEF M!Fork
<1> QED
  BY <1>13, Zenon

\* The end of an environment is an Exit of PrivateMemory.
LEMMA ExitImplements ==
    ASSUME IInv, NEW e \in Envs, exit(e)
    PROVE  M!Exit(Alive, Mem, Alive', Mem', e)
<1> USE DEF Maps
<1>0. TypeOK /\ status[e] = "alive" /\ status' = [status EXCEPT ![e] = "none"]
  BY Zenon DEF IInv, exit
<1> DEFINE t == [pte EXCEPT ![e] = [va \in VAs |-> NULL]]
<1>1. Remap(t)
  BY Zenon DEF exit
<1>2. /\ t \in [Envs -> [VAs -> Entry \cup {NULL}]]
      /\ \A f \in Envs \ {e}, wa \in VAs : t[f][wa] = pte[f][wa]
  BY <1>0, Zenon DEF TypeOK
<1> HIDE DEF t
<1>3. /\ pte' = t
      /\ \A f \in Envs, wa \in VAs : pte'[f][wa] # NULL =>
             content'[pte'[f][wa].pp] = content[pte'[f][wa].pp]
  BY <1>0, <1>1, <1>2, RemapKeeps, Zenon
<1>4. status'[e] = "none" /\ \A f \in Envs \ {e} : status'[f] = status[f]
  BY <1>0, Zenon DEF TypeOK
<1>5. e \in Alive /\ Alive' = Alive \ {e}
  BY <1>0, <1>4, Zenon DEF Alive
<1>6. ASSUME NEW f \in Envs \ {e}, NEW va \in Private \cup Shared, status[f] = "alive"
      PROVE  content'[pte'[f][va].pp] = content[pte[f][va].pp]
  <2>1. va \in VAs /\ pte[f][va] # NULL
    BY <1>6, Layout, Zenon DEF IInv, Local, LifeOf
  <2>2. pte'[f][va] = pte[f][va]
    BY <1>2, <1>3, <2>1, Zenon
  <2> QED
    BY <1>3, <2>1, <2>2, Zenon
<1> DEFINE N == [Mem EXCEPT ![e] = M!NoMem]
<1>a. Mem = [f \in Envs |-> Mem[f]]
  BY Zenon DEF Mem
<1>b. N = [f \in Envs |-> N[f]] /\ N[e] = M!NoMem /\ \A f \in Envs \ {e} : N[f] = Mem[f]
  BY <1>a, Zenon
<1> HIDE DEF N
<1>7. ASSUME NEW f \in Envs PROVE Mem'[f] = N[f]
  <2>0. Mem'[f] = [va \in Private \cup Shared |->
                    IF status'[f] = "alive" THEN content'[pte'[f][va].pp] ELSE NULL]
    BY Zenon DEF Mem
  <2>1. CASE f = e
    <3>1. N[f] = [va \in Private \cup Shared |-> NULL]
      BY <1>b, <2>1, SameAddr, Zenon DEF M!NoMem
    <3> QED
      BY <1>4, <2>0, <2>1, <3>1, Zenon
  <2>2. CASE f # e
    <3>1. N[f] = Mem[f]
      BY <1>b, <2>2, Zenon
    <3>2. Mem[f] = [va \in Private \cup Shared |->
                      IF status[f] = "alive" THEN content[pte[f][va].pp] ELSE NULL]
      BY Zenon DEF Mem
    <3> QED
      <4>1. status'[f] = status[f]
        BY <1>4, <2>2, Zenon
      <4>2. \A va \in Private \cup Shared :
               status[f] = "alive" => content'[pte'[f][va].pp] = content[pte[f][va].pp]
        BY <1>6, <2>2, Zenon
      <4>3. [va \in Private \cup Shared |->
                IF status'[f] = "alive" THEN content'[pte'[f][va].pp] ELSE NULL]
            = [va \in Private \cup Shared |->
                IF status[f] = "alive" THEN content[pte[f][va].pp] ELSE NULL]
        BY <4>1, <4>2, Zenon
      <4> QED
        BY <2>0, <3>1, <3>2, <4>3, Zenon
  <2> QED
    BY <2>1, <2>2, Zenon
<1>8. Mem' = N
  <2>1. N = [f \in Envs |-> N[f]]
    BY <1>b, Zenon
  <2>2. Mem' = [f \in Envs |-> Mem'[f]]
    BY Zenon DEF Mem
  <2> QED
    BY <1>7, <2>1, <2>2, Zenon
<1> QED
  BY <1>5, <1>8, Zenon DEF M!Exit, N

-----------------------------------------------------------------------------
(* The theorems. *)

\* The first environment has all its pages writable or read-only, and to itself.
LEMMA InitIInv == Init => IInv /\ M!Init
<1> SUFFICES ASSUME Init PROVE IInv /\ M!Init
  BY Zenon
<1> USE DEF Maps, Has, Same, Looping, Passed
<1>1. /\ \A e \in Envs, va \in VAs : pte[e][va] # NULL => e = Env0 /\ va \in Private \cup Shared
      /\ \A va \in Private \cup Shared :
            /\ va \in VAs /\ pte[Env0][va] # NULL
            /\ pte[Env0][va].pp = InitPage[va] /\ pte[Env0][va].perm = InitPerm(va)
      /\ pte \in [Envs -> [VAs -> Entry \cup {NULL}]]
  <2> DEFINE n(va) == [pp |-> InitPage[va], perm |-> InitPerm(va)]
  <2>1. ASSUME NEW va \in Private \cup Shared
        PROVE  n(va) \in Entry /\ n(va).pp = InitPage[va] /\ n(va).perm = InitPerm(va)
    BY ForkAssumption, Zenon DEF ForkAssumption, Entry, Perm, InitPerm
  <2>2. ASSUME NEW va \in Private \cup Shared
        PROVE  n(va) \in Entry /\ n(va).pp = InitPage[va] /\ n(va).perm = InitPerm(va) /\ n(va) # NULL
    BY <2>1, Layout, Zenon
  <2>3. pte = [e \in Envs |-> [va \in VAs |->
                  IF e = Env0 /\ va \in Private \cup Shared THEN n(va) ELSE NULL]]
    BY Zenon DEF Init
  <2> HIDE DEF n
  <2> QED
    BY <2>2, <2>3, Layout, ForkAssumption, Zenon DEF ForkAssumption
<1>2. /\ content = [p \in Pages |-> Zero]
      /\ status = [e \in Envs |-> IF e = Env0 THEN "alive" ELSE "none"]
      /\ fork_at = [e \in Envs |-> "none"] /\ fork_child = [e \in Envs |-> NULL]
      /\ fork_pn = [e \in Envs |-> NULL] /\ pf_at = [e \in Envs |-> "none"]
      /\ pf_va = [e \in Envs |-> NULL] /\ forks = 0
  BY Zenon DEF Init
<1>3. /\ Env0 \in Envs /\ Zero \in Val /\ MaxForks \in Nat
      /\ InitPage \in [Private \cup Shared -> Pages]
      /\ \A v, w \in Private \cup Shared : InitPage[v] = InitPage[w] => v = w
  BY ForkAssumption, Zenon DEF ForkAssumption
<1>4. \A e \in Envs : /\ fork_at[e] = "none" /\ pf_at[e] = "none"
                      /\ status[e] = IF e = Env0 THEN "alive" ELSE "none"
  BY <1>2, Zenon
<1>5. ASSUME NEW va \in Private \cup Shared
      PROVE  /\ InitPerm(va) # "COW" /\ (InitPerm(va) = "SHARE" <=> va \in Shared)
             /\ va # PFTEMP /\ va # UXSTACK
  BY Layout, ForkAssumption, Zenon DEF ForkAssumption, InitPerm
<1>10. TypeOK
  BY <1>1, <1>2, <1>3 DEF TypeOK
<1>11. ASSUME NEW e \in Envs PROVE Local(e)
  <2>1. LifeOf(e)
    BY <1>1, <1>4, <1>5, Layout DEF LifeOf
  <2>2. AtPageOf(e) /\ HandlerOf(e)
    BY <1>4, Zenon DEF AtPageOf, HandlerOf
  <2>3. ASSUME NEW va \in VAs PROVE CowAt(e, va) /\ ShareAt(e, va)
    BY <1>1, <1>5, Zenon DEF CowAt, ShareAt
  <2> QED
    BY <2>1, <2>2, <2>3, Zenon DEF Local
<1>12. Parents /\ Copied /\ Temp /\ CopyDone
  BY <1>4, Zenon DEF Parents, ParentOf, Copied, CopiedAt, Temp, TempOf, CopyDone, CopyDoneOf
<1>13. ASSUME NEW e \in Envs, NEW f \in Envs, NEW va \in VAs, NEW wa \in VAs, Same(e, va, f, wa)
       PROVE  e = f /\ va = wa
  BY <1>1, <1>3, <1>13
<1>14. Owned
  <2> SUFFICES ASSUME NEW e \in Envs, NEW f \in Envs, NEW va \in VAs \ {PFTEMP}, NEW wa \in VAs
               PROVE  OwnedAt(e, f, va, wa)
    BY Zenon DEF Owned
  <2> QED
    BY <1>13 DEF OwnedAt
<1>15. XStack
  BY <1>1, <1>5, Layout, Zenon DEF XStack, XStackOf
<1>16. ShareSame
  <2> SUFFICES ASSUME NEW e \in Envs, NEW f \in Envs, NEW va \in Shared, NEW wa \in VAs,
                      pte[e][va] # NULL, pte[f][wa] # NULL
               PROVE  pte[e][va].pp = pte[f][wa].pp <=> va = wa
    BY DEF ShareSame, ShareSameAt
  <2>0. va \in VAs
    BY Layout, Zenon
  <2>1. va \in VAs /\ e = Env0 /\ f = Env0
    BY <1>1, <2>0, Zenon
  <2> QED
    BY <1>13, <2>1, Zenon
<1>17. M!Init
  <2>1. Alive = {Env0}
    BY <1>3, <1>4, Zenon DEF Alive
  <2> DEFINE m == [va \in Private \cup Shared |-> Zero]
  <2>2. m \in [M!Addr -> Val]
    BY <1>3, SameAddr, Zenon
  <2>3. Mem[Env0] = m
    <3>1. \A va \in Private \cup Shared : content[pte[Env0][va].pp] = Zero
      BY <1>1, <1>2, <1>3
    <3>2. Mem[Env0] = [va \in Private \cup Shared |-> content[pte[Env0][va].pp]]
      BY <1>3, <1>4, Zenon DEF Mem
    <3> QED
      BY <3>1, <3>2, Zenon
  <2>4. \A e \in Envs \ {Env0} : Mem[e] = M!NoMem
    BY <1>4, SameAddr, Zenon DEF Mem, M!NoMem
  <2>5. Mem = [e \in Envs |-> Mem[e]]
    BY Zenon DEF Mem
  <2> HIDE DEF m
  <2>6. Mem = [e \in Envs |-> IF e = Env0 THEN m ELSE M!NoMem]
    BY <2>3, <2>4, <2>5, Zenon
  <2> QED
    BY <2>1, <2>2, <2>6, Zenon DEF M!Init
<1> QED
  BY <1>10, <1>11, <1>12, <1>14, <1>15, <1>16, <1>17, Zenon DEF IInv

\* Every step keeps the invariant, and is a step of PrivateMemory or not seen.
LEMMA NextIInv == IInv /\ [Next]_vars => IInv' /\ [M!Next]_<<Alive, Mem>>
<1> SUFFICES ASSUME IInv, [Next]_vars PROVE IInv' /\ [M!Next]_<<Alive, Mem>>
  BY Zenon
<1>1. CASE UNCHANGED vars
  <2>1. UNCHANGED <<pte, content, status, fork_at, fork_child, fork_pn, pf_at, pf_va, forks>>
    BY <1>1, Zenon DEF vars, forkVars, pfVars
  <2>2. TypeOK'
    BY <2>1, Zenon DEF IInv, TypeOK
  <2>3. ASSUME NEW f \in Envs PROVE Local(f)'
    BY <2>1, LocalFrame, Zenon DEF IInv
  <2>0. Parents /\ Copied /\ Temp /\ CopyDone /\ Owned /\ XStack /\ ShareSame
    BY Zenon DEF IInv
  <2>4. Parents'
    BY <2>0, <2>1, Zenon DEF Parents, ParentOf, Maps
  <2>5. Copied'
    BY <2>0, <2>1, Zenon DEF Copied, CopiedAt, Maps, Same, Looping, Passed
  <2>7. Temp'
    BY <2>0, <2>1, Zenon DEF Temp, TempOf, Maps, Has, Same
  <2>8. CopyDone'
    BY <2>0, <2>1, Zenon DEF CopyDone, CopyDoneOf
  <2>9. Owned'
    BY <2>0, <2>1 DEF Owned, OwnedAt, Maps, Has, Same, Looping
  <2>10. XStack'
    BY <2>0, <2>1, Zenon DEF XStack, XStackOf, Maps, Has, Same
  <2>11. ShareSame'
    BY <2>0, <2>1 DEF ShareSame, ShareSameAt, Maps
  <2>6. UNCHANGED <<Alive, Mem>>
    BY <2>1, Zenon DEF Alive, Mem
  <2> QED
    BY <2>2, <2>3, <2>4, <2>5, <2>6, <2>7, <2>8, <2>9, <2>10, <2>11, ZenonT(30) DEF IInv
<1>2. ASSUME NEW e \in Envs, NEW va \in VAs, page_fault(e, va)
      PROVE  IInv' /\ [M!Next]_<<Alive, Mem>>
  BY <1>2, StepFault, Zenon
<1>3. ASSUME NEW e \in Envs, NEW va \in VAs, NEW v \in Writes[e], write(e, va, v)
      PROVE  IInv' /\ [M!Next]_<<Alive, Mem>>
  <2>1. IInv'
    BY <1>3, StepWrite, Zenon
  <2>2. va \in M!Addr /\ M!Write(Alive, Mem, Alive', Mem', e, va, v)
    BY <1>3, WriteImplements, Zenon
  <2>3. M!Next
    BY <2>2, Zenon DEF M!Next
  <2> QED
    BY <2>1, <2>3, Zenon
<1>4. ASSUME NEW e \in Envs, pgfault_alloc(e) \/ pgfault_copy(e) \/ pgfault_map(e)
      PROVE  IInv' /\ [M!Next]_<<Alive, Mem>>
  BY <1>4, StepAlloc, StepCopy, StepMap, Zenon
<1>5. ASSUME NEW e \in Envs, NEW c \in Envs, fork(e, c)
      PROVE  IInv' /\ [M!Next]_<<Alive, Mem>>
  BY <1>5, StepFork, Zenon
<1>6. ASSUME NEW e \in Envs, duppage_child(e) \/ duppage_parent(e)
      PROVE  IInv' /\ [M!Next]_<<Alive, Mem>>
  BY <1>6, StepDupChild, StepDupParent, Zenon
<1>7. ASSUME NEW e \in Envs, fork_finish(e)
      PROVE  IInv' /\ [M!Next]_<<Alive, Mem>>
  <2>1. IInv'
    BY <1>7, StepFinish, Zenon
  <2>2. \E c \in Envs : M!Fork(Alive, Mem, Alive', Mem', e, c)
    BY <1>7, FinishImplements, Zenon
  <2>3. M!Next
    BY <2>2, Zenon DEF M!Next
  <2> QED
    BY <2>1, <2>3, Zenon
<1>8. ASSUME NEW e \in Envs, exit(e)
      PROVE  IInv' /\ [M!Next]_<<Alive, Mem>>
  <2>1. IInv'
    BY <1>8, StepExit, Zenon
  <2>2. M!Exit(Alive, Mem, Alive', Mem', e)
    BY <1>8, ExitImplements, Zenon
  <2>3. M!Next
    BY <2>2, Zenon DEF M!Next
  <2> QED
    BY <2>1, <2>3, Zenon
<1> QED
  BY <1>1, <1>2, <1>3, <1>4, <1>5, <1>6, <1>7, <1>8, Zenon DEF Next, over

\* The invariant holds in every state of fork(), duppage() and pgfault().
THEOREM ForkInv == Spec => []IInv
<1>1. Init => IInv
  BY InitIInv, Zenon
<1>2. IInv /\ [Next]_vars => IInv'
  BY NextIInv, Zenon
<1> QED
  BY <1>1, <1>2, PTL DEF Spec

\* fork() has marked a page copy-on-write on both sides before the child starts: a
\* page that an environment can write to is mapped by no other that runs, for any
\* number of environments, pages and calls of fork().
THEOREM WritableIsPrivateHolds == Spec => []WritableIsPrivate
<1>1. IInv => WritableIsPrivate
  <2> SUFFICES ASSUME IInv, NEW e \in Alive, NEW f \in Alive,
                      NEW va \in Private \cup {UXSTACK}, NEW wa \in VAs,
                      pte[e][va] # NULL, pte[f][wa] # NULL,
                      pte[e][va].perm = "W", pte[e][va].pp = pte[f][wa].pp
               PROVE  e = f /\ wa \in {va, PFTEMP}
    BY Zenon DEF WritableIsPrivate, IInv
  <2>1. e \in Envs /\ f \in Envs /\ status[f] = "alive" /\ va \in VAs \ {PFTEMP}
    BY Layout, Zenon DEF Alive
  <2>2. OwnedAt(e, f, va, wa) /\ ParentOf(e)
    BY <2>1, Zenon DEF IInv, Owned, Parents
  <2> QED
    BY <2>1, <2>2, Zenon DEF OwnedAt, ParentOf, Has, Same, Maps, Looping
<1> QED
  BY <1>1, ForkInv, PTL

\* An environment inside fork() or pgfault() has an exception stack that is mapped
\* writable: duppage() never made it copy-on-write.
THEOREM ExceptionStackHolds == Spec => []ExceptionStack
<1>1. IInv => ExceptionStack
  <2> SUFFICES ASSUME IInv, NEW e \in Alive, pf_at[e] # "none" \/ fork_at[e] # "none"
               PROVE  pte[e][UXSTACK] # NULL /\ pte[e][UXSTACK].perm = "W"
    BY Zenon DEF ExceptionStack
  <2>1. e \in Envs /\ status[e] = "alive" /\ Local(e) /\ ParentOf(e) /\ XStackOf(e)
    BY Zenon DEF Alive, IInv, Parents, XStack
  <2>2. CASE fork_at[e] # "none"
    BY <2>1, <2>2, Zenon DEF ParentOf, XStackOf, Has, Maps
  <2>3. CASE pf_at[e] # "none"
    <3>1. pf_va[e] \in VAs /\ Has(e, pf_va[e], "COW")
      BY <2>1, <2>3, Layout, Zenon DEF Local, HandlerOf
    <3> QED
      BY <2>1, <3>1, Zenon DEF Local, CowAt, XStackOf, Has, Maps
  <2> QED
    BY <2>2, <2>3, Zenon
<1> QED
  BY <1>1, ForkInv, PTL

\* fork(), duppage() and pgfault() implement private memories: a child starts with
\* its parent's memory, and a write of one is never seen by the other, unless the
\* page is marked PTE_SHARE.
THEOREM ForkCopiesHolds == Spec => ForkCopies
<1>1. Init => M!Init
  BY InitIInv, Zenon
<1>2. IInv /\ [Next]_vars => [M!Next]_<<Alive, Mem>>
  BY NextIInv, Zenon
<1> QED
  BY <1>1, <1>2, ForkInv, PTL DEF Spec, ForkCopies, M!Spec
=============================================================================
