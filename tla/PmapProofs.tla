----------------------------- MODULE PmapProofs -----------------------------
(***************************************************************************)
(* Proofs about module Pmap, for any number of CPUs, environments, pages    *)
(* and addresses: page reference counts are exact, no page is lost or freed *)
(* in use, page tables are private, the mappings of an environment change   *)
(* only as authorised, read-only pages stay read-only, and the TLBs agree   *)
(* with the page tables.                                                    *)
(***************************************************************************)
EXTENDS Pmap, FiniteSetTheorems, TLAPS

(* The memory: what points to a page, and that the page tables are trees. *)

Has(m, e) == m.dir[e] # NULL
Pde(m, e, i) == m.pde[m.dir[e]][i]
MapOf(m, e, va) == page_lookup(m, m.dir[e], va)
Points(m, e, va, p) == MapOf(m, e, va) # NULL /\ MapOf(m, e, va).pp = p

Dirs(m, p) == {e \in Envs : m.dir[e] = p}
Tabs(m, p) == {x \in Envs \X PDES : Has(m, x[1]) /\ Pde(m, x[1], x[2]) = p}
Uses(m, p) == {x \in Envs \X VAs : Has(m, x[1]) /\ Points(m, x[1], x[2], p)}
Count(m, p) == Cardinality(Dirs(m, p)) + Cardinality(Tabs(m, p)) + Cardinality(Uses(m, p))

\* Nothing points to p; p is no page directory or page table.
NoTable(m, p) == \A e \in Envs : Has(m, e) => m.dir[e] # p /\ \A i \in PDES : Pde(m, e, i) # p
Unused(m, p) == /\ NoTable(m, p)
                /\ \A e \in Envs, va \in VAs : Has(m, e) => ~Points(m, e, va, p)

\* A page directory or page table has one use, in one place.
TreeAt(m, e, f) ==
    /\ m.dir[e] = m.dir[f] => e = f
    /\ \A i \in PDES : Pde(m, e, i) # m.dir[f]
    /\ \A i, j \in PDES : Pde(m, e, i) # NULL /\ Pde(m, e, i) = Pde(m, f, j) => e = f /\ i = j
Tree(m) == /\ \A e, f \in Envs : Has(m, e) /\ Has(m, f) => TreeAt(m, e, f)
           /\ \A e \in Envs, va \in VAs : Has(m, e) /\ MapOf(m, e, va) # NULL
                                              => NoTable(m, MapOf(m, e, va).pp)

\* The counts are exact, and the free pages are those that nothing points to, but
\* for the pages A that page_alloc() has handed out and that are not in use yet.
Good(m, A) == /\ m \in Mem
              /\ Tree(m)
              /\ \A p \in Pages : m.ref[p] = Count(m, p)
              /\ \A p \in Pages : Unused(m, p) <=> p \in m.free \cup A
              /\ m.free \cap A = {}

-----------------------------------------------------------------------------
(* Counting *)

\* The number of page table slots is finite, and no larger than that of addresses.
LEMMA SlotsFinite ==
    /\ IsFiniteSet(PDES) /\ Cardinality(PDES) <= Cardinality(VAs)
    /\ Cardinality(PDES) \in Nat /\ Cardinality(VAs) \in Nat /\ Cardinality(Envs) \in Nat
    /\ Cardinality(Envs) >= 1
<1>0. IsFiniteSet(VAs) /\ IsFiniteSet(Envs) /\ Env0 \in Envs
  BY PmapAssumption, Zenon DEF PmapAssumption
<1> DEFINE f == [va \in VAs |-> va[1]]
<1>1. f \in Surjection(VAs, PDES)
  BY Zenon DEF Surjection, PDES
<1>2. IsFiniteSet(PDES) /\ Cardinality(PDES) <= Cardinality(VAs)
  BY <1>0, <1>1, FS_Surjection, Zenon
<1>3. Cardinality(PDES) \in Nat /\ Cardinality(VAs) \in Nat /\ Cardinality(Envs) \in Nat
  BY <1>0, <1>2, FS_CardinalityType, Zenon
<1>4. Cardinality(Envs) # 0
  BY <1>0, FS_EmptySet, Zenon
<1> QED
  BY <1>2, <1>3, <1>4

\* The pointers to a page are finitely many, and pp_ref has room for one more.
LEMMA CountBound ==
    ASSUME NEW m, NEW p
    PROVE  /\ IsFiniteSet(Dirs(m, p)) /\ IsFiniteSet(Tabs(m, p)) /\ IsFiniteSet(Uses(m, p))
           /\ Cardinality(Dirs(m, p)) \in Nat /\ Cardinality(Tabs(m, p)) \in Nat
           /\ Cardinality(Uses(m, p)) \in Nat
           /\ Count(m, p) \in Nat /\ Count(m, p) + 1 < RefMod
<1>0. IsFiniteSet(VAs) /\ IsFiniteSet(Envs) /\ IsFiniteSet(PDES)
  BY PmapAssumption, SlotsFinite, Zenon DEF PmapAssumption
<1>1. /\ IsFiniteSet(Envs \X PDES) /\ IsFiniteSet(Envs \X VAs)
      /\ Cardinality(Envs \X PDES) = Cardinality(Envs) * Cardinality(PDES)
      /\ Cardinality(Envs \X VAs) = Cardinality(Envs) * Cardinality(VAs)
  BY <1>0, FS_Product, Zenon
<1>2. /\ Dirs(m, p) \in SUBSET Envs /\ Tabs(m, p) \in SUBSET (Envs \X PDES)
      /\ Uses(m, p) \in SUBSET (Envs \X VAs)
  BY Zenon DEF Dirs, Tabs, Uses
<1>3. /\ IsFiniteSet(Dirs(m, p)) /\ IsFiniteSet(Tabs(m, p)) /\ IsFiniteSet(Uses(m, p))
      /\ Cardinality(Dirs(m, p)) <= Cardinality(Envs)
      /\ Cardinality(Tabs(m, p)) <= Cardinality(Envs) * Cardinality(PDES)
      /\ Cardinality(Uses(m, p)) <= Cardinality(Envs) * Cardinality(VAs)
  <2>1. IsFiniteSet(Dirs(m, p)) /\ Cardinality(Dirs(m, p)) <= Cardinality(Envs)
    BY <1>0, <1>2, FS_Subset, Zenon
  <2>2. IsFiniteSet(Tabs(m, p)) /\ Cardinality(Tabs(m, p)) <= Cardinality(Envs \X PDES)
    BY <1>1, <1>2, FS_Subset, Zenon
  <2>3. IsFiniteSet(Uses(m, p)) /\ Cardinality(Uses(m, p)) <= Cardinality(Envs \X VAs)
    BY <1>1, <1>2, FS_Subset, Zenon
  <2> QED
    BY <1>1, <2>1, <2>2, <2>3, Zenon
<1>4. /\ Cardinality(Dirs(m, p)) \in Nat /\ Cardinality(Tabs(m, p)) \in Nat
      /\ Cardinality(Uses(m, p)) \in Nat
  BY <1>3, FS_CardinalityType, Zenon
<1>5. Count(m, p) \in Nat /\ Count(m, p) + 1 < RefMod
  <2>1. PICK n, k, v \in Nat : n = Cardinality(Envs) /\ k = Cardinality(PDES) /\ v = Cardinality(VAs)
    BY SlotsFinite, Zenon
  <2>2. k <= v /\ n >= 1 /\ RefMod \in Nat /\ RefMod > 2 * n * (1 + v)
    BY <2>1, SlotsFinite, PmapAssumption, Zenon DEF PmapAssumption
  <2>3. PICK x, y \in Nat : x = n * k /\ y = n * v
    <3>1. n * k \in Nat /\ n * v \in Nat
      BY <2>1
    <3> QED
      BY <3>1, Zenon
  <2>4. x <= y
    BY <2>2, <2>3
  <2>5. RefMod > 2 * n + 2 * y
    BY <2>2, <2>3
  <2>6. PICK a, b, c \in Nat : /\ a = Cardinality(Dirs(m, p)) /\ b = Cardinality(Tabs(m, p))
                               /\ c = Cardinality(Uses(m, p))
    BY <1>4, Zenon
  <2>7. a <= n /\ b <= x /\ c <= y
    BY <1>3, <2>1, <2>3, <2>6, Zenon
  <2>8. Count(m, p) = a + b + c
    BY <2>6, Zenon DEF Count
  <2> QED
    BY <2>2, <2>4, <2>5, <2>7, <2>8
<1> QED
  BY <1>3, <1>4, <1>5, Zenon

\* A pointer more, and one less.
LEMMA AddOne ==
    ASSUME NEW S, IsFiniteSet(S), NEW x, x \notin S
    PROVE  Cardinality(S \cup {x}) = Cardinality(S) + 1
BY FS_AddElement, Zenon

LEMMA DropOne ==
    ASSUME NEW S, IsFiniteSet(S), NEW x, x \in S
    PROVE  Cardinality(S \ {x}) = Cardinality(S) - 1
BY FS_RemoveElement, Zenon

\* The count is zero exactly if nothing points to the page.
LEMMA CountZero ==
    ASSUME NEW m \in Mem, NEW p \in Pages
    PROVE  Count(m, p) = 0 <=> Unused(m, p)
<1>0. p # NULL
  BY PmapAssumption, Zenon DEF PmapAssumption
<1>1. Count(m, p) = 0 <=> Dirs(m, p) = {} /\ Tabs(m, p) = {} /\ Uses(m, p) = {}
  <2>1. /\ Cardinality(Dirs(m, p)) = 0 <=> Dirs(m, p) = {}
        /\ Cardinality(Tabs(m, p)) = 0 <=> Tabs(m, p) = {}
        /\ Cardinality(Uses(m, p)) = 0 <=> Uses(m, p) = {}
    BY CountBound, FS_EmptySet, Zenon
  <2>2. /\ Cardinality(Dirs(m, p)) \in Nat /\ Cardinality(Tabs(m, p)) \in Nat
        /\ Cardinality(Uses(m, p)) \in Nat
    BY CountBound, Zenon
  <2>3. Count(m, p) = 0 <=> /\ Cardinality(Dirs(m, p)) = 0 /\ Cardinality(Tabs(m, p)) = 0
                            /\ Cardinality(Uses(m, p)) = 0
    <3>1. \A a, b, c \in Nat : a + b + c = 0 <=> a = 0 /\ b = 0 /\ c = 0
      OBVIOUS
    <3> QED
      BY <2>2, <3>1, Zenon DEF Count
  <2> QED
    BY <2>1, <2>3, Zenon
<1>2. ASSUME Unused(m, p) PROVE Dirs(m, p) = {} /\ Tabs(m, p) = {} /\ Uses(m, p) = {}
  BY <1>0, <1>2, Zenon DEF Unused, NoTable, Dirs, Tabs, Uses, Has
<1>3. ASSUME Dirs(m, p) = {}, Tabs(m, p) = {}, Uses(m, p) = {}, NEW e \in Envs, Has(m, e)
      PROVE  /\ m.dir[e] # p
             /\ \A i \in PDES : Pde(m, e, i) # p
             /\ \A va \in VAs : ~Points(m, e, va, p)
  <2>1. m.dir[e] # p
    BY <1>3, Zenon DEF Dirs
  <2>2. ASSUME NEW i \in PDES, Pde(m, e, i) = p PROVE FALSE
    <3>1. <<e, i>> \in Tabs(m, p)
      BY <1>3, <2>2, Zenon DEF Tabs
    <3> QED
      BY <1>3, <3>1, Zenon
  <2>3. ASSUME NEW va \in VAs, Points(m, e, va, p) PROVE FALSE
    <3>1. <<e, va>> \in Uses(m, p)
      BY <1>3, <2>3, Zenon DEF Uses
    <3> QED
      BY <1>3, <3>1, Zenon
  <2> QED
    BY <2>1, <2>2, <2>3, Zenon
<1> QED
  BY <1>1, <1>2, <1>3, Zenon DEF Unused, NoTable

-----------------------------------------------------------------------------
(* What the functions of pmap.c change *)

\* A reference more, a reference less, and the free pages after that.
Up(r, p) == [r EXCEPT ![p] = (@ + 1) % RefMod]
Down(r, q) == [r EXCEPT ![q] = (r[q] - 1) % RefMod]
Freed(f, r, q) == IF (r[q] - 1) % RefMod = 0 THEN f \cup {q} ELSE f
Set(T, t, j, x) == [T EXCEPT ![t][j] = x]

LEMMA MemFields ==
    ASSUME NEW m \in Mem
    PROVE  /\ m.ref \in [Pages -> 0 .. RefMod - 1] /\ m.free \in SUBSET Pages
           /\ m.dir \in [Envs -> Pages \cup {NULL}]
           /\ m.pde \in [Pages -> [PDES -> Pages \cup {NULL}]]
           /\ m.pte \in [Pages -> [PTES -> Mapping \cup {NULL}]]
BY Zenon DEF Mem

\* Counting up and down stays in range.
LEMMA RefType ==
    ASSUME NEW r \in [Pages -> 0 .. RefMod - 1], NEW p \in Pages
    PROVE  Up(r, p) \in [Pages -> 0 .. RefMod - 1] /\ Down(r, p) \in [Pages -> 0 .. RefMod - 1]
<1>1. RefMod \in Nat /\ r[p] \in 0 .. RefMod - 1
  BY PmapAssumption, Zenon DEF PmapAssumption
<1>2. (r[p] + 1) % RefMod \in 0 .. RefMod - 1 /\ (r[p] - 1) % RefMod \in 0 .. RefMod - 1
  BY <1>1
<1> QED
  BY <1>2, Zenon DEF Up, Down

\* So does changing an entry of a page table.
LEMMA PteType ==
    ASSUME NEW T \in [Pages -> [PTES -> Mapping \cup {NULL}]], NEW t \in Pages, NEW j \in PTES,
           NEW x \in Mapping \cup {NULL}
    PROVE  Set(T, t, j, x) \in [Pages -> [PTES -> Mapping \cup {NULL}]]
<1>1. [T[t] EXCEPT ![j] = x] \in [PTES -> Mapping \cup {NULL}]
  BY Zenon
<1> QED
  BY <1>1, Zenon DEF Set

\* The last change counts.
LEMMA SetTwice ==
    ASSUME NEW T \in [Pages -> [PTES -> Mapping \cup {NULL}]], NEW t \in Pages, NEW j \in PTES,
           NEW x, NEW y
    PROVE  Set(Set(T, t, j, x), t, j, y) = Set(T, t, j, y)
<1>1. PICK R : R = T[t]
  BY Zenon
<1>2. Set(T, t, j, x) = [T EXCEPT ![t] = [R EXCEPT ![j] = x]]
  BY <1>1, Zenon DEF Set
<1>3. Set(T, t, j, y) = [T EXCEPT ![t] = [R EXCEPT ![j] = y]]
  BY <1>1, Zenon DEF Set
<1>4. Set(Set(T, t, j, x), t, j, y) = [T EXCEPT ![t] = [[R EXCEPT ![j] = x] EXCEPT ![j] = y]]
  BY <1>2, Zenon DEF Set
<1>5. [[R EXCEPT ![j] = x] EXCEPT ![j] = y] = [R EXCEPT ![j] = y]
  BY Zenon, <1>1
<1> QED
  BY <1>3, <1>4, <1>5, Zenon

\* An address has a slot in a page directory and one in a page table.
LEMMA Address ==
    ASSUME NEW va \in VAs
    PROVE  va[1] \in PDES /\ va[2] \in PTES /\ va = <<va[1], va[2]>> /\ va # NULL
<1>1. va[1] \in PDES /\ va[2] \in PTES /\ va # NULL
  BY PmapAssumption, Zenon DEF PDES, PTES, PmapAssumption
<1>2. va \in Nat \X Nat
  BY PmapAssumption, Zenon DEF PmapAssumption
<1> QED
  BY <1>1, <1>2

\* The types of the entries for an address.
LEMMA EntryTypes ==
    ASSUME NEW m \in Mem, NEW d \in Pages, NEW va \in VAs
    PROVE  m.pde[d][va[1]] \in Pages \cup {NULL} /\ m.pte[d][va[2]] \in Mapping \cup {NULL}
<1>1. /\ m.pde \in [Pages -> [PDES -> Pages \cup {NULL}]]
      /\ m.pte \in [Pages -> [PTES -> Mapping \cup {NULL}]]
  BY MemFields, Zenon
<1>2. va[1] \in PDES /\ va[2] \in PTES
  BY Address, Zenon
<1>3. m.pde[d] \in [PDES -> Pages \cup {NULL}] /\ m.pte[d] \in [PTES -> Mapping \cup {NULL}]
  BY <1>1, Zenon
<1>4. m.pde[d][va[1]] \in Pages \cup {NULL}
  BY <1>2, <1>3, Zenon
<1>5. m.pte[d][va[2]] \in Mapping \cup {NULL}
  BY <1>2, <1>3, Zenon
<1> QED
  BY <1>4, <1>5, Zenon

LEMMA AllocFields ==
    ASSUME NEW m \in Mem, NEW a \in page_alloc(m)
    PROVE  /\ a[1] \in m.free /\ a[1] \in Pages /\ a[2] \in Mem /\ a[2].free = m.free \ {a[1]}
           /\ a[2].ref = m.ref /\ a[2].dir = m.dir /\ a[2].pde = m.pde /\ a[2].pte = m.pte
<1>1. PICK p \in m.free : a = <<p, [m EXCEPT !.free = @ \ {p}]>>
  BY Zenon DEF page_alloc
<1>2. PICK n : n = [m EXCEPT !.free = @ \ {p}]
  BY Zenon
<1>3. /\ n \in Mem /\ n.free = m.free \ {p} /\ p \in Pages
      /\ n.ref = m.ref /\ n.dir = m.dir /\ n.pde = m.pde /\ n.pte = m.pte
  BY <1>2, Zenon DEF Mem
<1>4. a[1] = p /\ a[2] = n
  BY <1>1, <1>2, Zenon
<1> QED
  BY <1>3, <1>4, Zenon

\* pgdir_walk() where there is no page table.
Walked(m, m1, d, i, t) ==
    /\ m1 \in Mem /\ m1.ref = Up(m.ref, t) /\ m1.free = m.free \ {t} /\ m1.dir = m.dir
    /\ m1.pde = Set(m.pde, d, i, t)
    /\ m1.pte = [m.pte EXCEPT ![t] = [j \in PTES |-> NULL]]

LEMMA WalkFields ==
    ASSUME NEW m \in Mem, NEW d \in Pages, NEW va \in VAs, NEW m1 \in pgdir_walk(m, d, va),
           m.pde[d][va[1]] = NULL
    PROVE  \E t \in m.free : Walked(m, m1, d, va[1], t)
<1>1. PICK a \in page_alloc(m) : m1 = [a[2] EXCEPT !.ref[a[1]] = (@ + 1) % RefMod,
                                                   !.pde[d][va[1]] = a[1],
                                                   !.pte[a[1]] = [j \in PTES |-> NULL]]
  BY Zenon DEF pgdir_walk
<1>2. PICK t \in m.free, n \in Mem :
         /\ t = a[1] /\ n = a[2] /\ n.free = m.free \ {t} /\ t \in Pages
         /\ n.ref = m.ref /\ n.dir = m.dir /\ n.pde = m.pde /\ n.pte = m.pte
  <2>1. /\ a[1] \in m.free /\ a[1] \in Pages /\ a[2] \in Mem /\ a[2].free = m.free \ {a[1]}
        /\ a[2].ref = m.ref /\ a[2].dir = m.dir /\ a[2].pde = m.pde /\ a[2].pte = m.pte
    BY AllocFields, Zenon
  <2> QED
    BY <2>1, Zenon
<1>3. m1 = [n EXCEPT !.ref[t] = (@ + 1) % RefMod, !.pde[d][va[1]] = t,
                     !.pte[t] = [j \in PTES |-> NULL]]
  BY <1>1, <1>2, Zenon
<1>4. /\ m1.ref = Up(m.ref, t) /\ m1.free = m.free \ {t}
      /\ m1.dir = m.dir /\ m1.pde = Set(m.pde, d, va[1], t)
      /\ m1.pte = [m.pte EXCEPT ![t] = [j \in PTES |-> NULL]]
  BY <1>2, <1>3, Zenon DEF Mem, Up, Set
<1>7. t \in Pages
  BY <1>2, Zenon
<1>5. /\ m1.ref \in [Pages -> 0 .. RefMod - 1]
      /\ m1.pde \in [Pages -> [PDES -> Pages \cup {NULL}]]
      /\ m1.pte \in [Pages -> [PTES -> Mapping \cup {NULL}]]
  <2>0. /\ m.ref \in [Pages -> 0 .. RefMod - 1]
        /\ m.pde \in [Pages -> [PDES -> Pages \cup {NULL}]]
        /\ m.pte \in [Pages -> [PTES -> Mapping \cup {NULL}]]
    BY MemFields, Zenon
  <2>1. Up(m.ref, t) \in [Pages -> 0 .. RefMod - 1]
    BY <1>7, <2>0, RefType, Zenon
  <2>2. [m.pde[d] EXCEPT ![va[1]] = t] \in [PDES -> Pages \cup {NULL}]
    BY <1>7, <2>0, Address, Zenon
  <2>3. Set(m.pde, d, va[1], t) = [m.pde EXCEPT ![d] = [m.pde[d] EXCEPT ![va[1]] = t]]
    BY Zenon DEF Set
  <2>4. Set(m.pde, d, va[1], t) \in [Pages -> [PDES -> Pages \cup {NULL}]]
    BY <2>0, <2>2, <2>3, Zenon
  <2>5. [m.pte EXCEPT ![t] = [j \in PTES |-> NULL]] \in [Pages -> [PTES -> Mapping \cup {NULL}]]
    BY <2>0, Zenon
  <2> QED
    BY <1>4, <2>1, <2>4, <2>5, Zenon
<1>6. m1 \in Mem
  BY <1>2, <1>3, <1>4, <1>5, Zenon DEF Mem
<1>8. Walked(m, m1, d, va[1], t)
  BY <1>4, <1>6, Zenon DEF Walked
<1> QED
  BY <1>8, Zenon

\* page_remove() of a page that is mapped.
Removal(m, m2, t, j, q) ==
    /\ m2 \in Mem /\ m2.dir = m.dir /\ m2.pde = m.pde /\ m2.pte = Set(m.pte, t, j, NULL)
    /\ m2.ref = Down(m.ref, q) /\ m2.free = Freed(m.free, m.ref, q)

LEMMA RemoveFields ==
    ASSUME NEW m \in Mem, NEW d \in Pages, NEW va \in VAs, page_lookup(m, d, va) # NULL
    PROVE  Removal(m, page_remove(m, d, va), m.pde[d][va[1]], va[2], page_lookup(m, d, va).pp)
<1>11. PICK t : t = m.pde[d][va[1]]
  BY Zenon
<1>0. t # NULL
  BY <1>11, Zenon DEF page_lookup
<1>1. page_lookup(m, d, va) = m.pte[t][va[2]]
  BY <1>0, <1>11, Zenon DEF page_lookup
<1>12. t \in Pages
  BY <1>0, <1>11, EntryTypes, Zenon
<1>13. m.pte[t][va[2]] \in Mapping
  BY <1>1, <1>12, EntryTypes, Zenon
<1>14. PICK q \in Pages : q = m.pte[t][va[2]].pp
  BY <1>13, Zenon DEF Mapping
<1>2. page_remove(m, d, va) = [page_decref(m, q) EXCEPT !.pte[t][va[2]] = NULL]
  BY <1>1, <1>11, <1>14, Zenon DEF page_remove
<1> DEFINE R == Down(m.ref, q)
           F == Freed(m.free, m.ref, q)
           T == Set(m.pte, t, va[2], NULL)
<1>3. page_decref(m, q) = [m EXCEPT !.ref = R, !.free = F]
  BY Zenon DEF page_decref, Mem, Down, Freed
<1>4. page_remove(m, d, va) = [m EXCEPT !.ref = R, !.free = F, !.pte = T]
  <2> HIDE DEF R, F
  <2>1. PICK n : n = [m EXCEPT !.ref = R, !.free = F]
    BY Zenon
  <2>2. n.pte = m.pte
    BY <2>1, Zenon DEF Mem
  <2>3. page_remove(m, d, va) = [n EXCEPT !.pte[t][va[2]] = NULL]
    BY <1>2, <1>3, <2>1, Zenon
  <2> QED
    BY <2>1, <2>2, <2>3, Zenon DEF Mem, Set
<1>5. m.ref \in [Pages -> 0 .. RefMod - 1] /\ m.free \in SUBSET Pages
  BY MemFields, Zenon
<1>6. R \in [Pages -> 0 .. RefMod - 1]
  BY <1>5, <1>14, RefType, Zenon
<1>7. F \in SUBSET Pages
  BY <1>5, <1>14, Zenon DEF Freed
<1>8. T \in [Pages -> [PTES -> Mapping \cup {NULL}]]
  BY <1>12, MemFields, Address, PteType, Zenon
<1> HIDE DEF R, F, T
<1>9. page_remove(m, d, va) \in Mem
  BY <1>4, <1>6, <1>7, <1>8, Zenon DEF Mem
<1>10. /\ page_remove(m, d, va).dir = m.dir /\ page_remove(m, d, va).pde = m.pde
       /\ page_remove(m, d, va).pte = T /\ page_remove(m, d, va).ref = R
       /\ page_remove(m, d, va).free = F
  BY <1>4, Zenon DEF Mem
<1> QED
  BY <1>1, <1>9, <1>10, <1>11, <1>14, Zenon DEF R, F, T, Removal

\* page_insert() where there is a page table.
Inserted(m, d, p, va, t, new) ==
    [page_remove([m EXCEPT !.ref[p] = (@ + 1) % RefMod], d, va) EXCEPT !.pte[t][va[2]] = new]

Insertion(m, m2, t, j, p, new) ==
    /\ m2 \in Mem /\ m2.dir = m.dir /\ m2.pde = m.pde /\ m2.pte = Set(m.pte, t, j, new)
    /\ m.pte[t][j] = NULL => m2.ref = Up(m.ref, p) /\ m2.free = m.free
    /\ \A q \in Pages : m.pte[t][j] # NULL /\ q = m.pte[t][j].pp =>
          m2.ref = Down(Up(m.ref, p), q) /\ m2.free = Freed(m.free, Up(m.ref, p), q)

LEMMA InsertFields ==
    ASSUME NEW m \in Mem, NEW d \in Pages, NEW va \in VAs, NEW t \in Pages, t = m.pde[d][va[1]],
           NEW p \in Pages, NEW new \in Mapping,
           NEW m2, m2 = Inserted(m, d, p, va, t, new)
    PROVE  Insertion(m, m2, t, va[2], p, new)
<1>0. t # NULL /\ va[2] \in PTES
  BY PmapAssumption, Address, Zenon DEF PmapAssumption
<1>1. PICK n : n = [m EXCEPT !.ref[p] = (@ + 1) % RefMod]
  BY Zenon
<1>2. Up(m.ref, p) \in [Pages -> 0 .. RefMod - 1]
  BY MemFields, RefType, Zenon
<1>3. n = [m EXCEPT !.ref = Up(m.ref, p)]
  BY <1>1, Zenon DEF Mem, Up
<1>4. /\ n \in Mem /\ n.ref = Up(m.ref, p) /\ n.free = m.free /\ n.dir = m.dir /\ n.pde = m.pde
      /\ n.pte = m.pte
  BY <1>2, <1>3, Zenon DEF Mem
<1>10. n \in Mem
  BY <1>4, Zenon
<1>5. m2 = [page_remove(n, d, va) EXCEPT !.pte[t][va[2]] = new]
  BY <1>1, Zenon DEF Inserted
<1>6. ASSUME NEW n2 \in Mem, m2 = [n2 EXCEPT !.pte[t][va[2]] = new]
      PROVE  /\ m2 \in Mem /\ m2.dir = n2.dir /\ m2.pde = n2.pde /\ m2.ref = n2.ref
             /\ m2.free = n2.free /\ m2.pte = Set(n2.pte, t, va[2], new)
  <2> DEFINE T == Set(n2.pte, t, va[2], new)
  <2>1. T \in [Pages -> [PTES -> Mapping \cup {NULL}]]
    BY <1>0, MemFields, PteType, Zenon
  <2>2. m2 = [n2 EXCEPT !.pte = T]
    BY <1>6, Zenon DEF Mem, Set
  <2> HIDE DEF T
  <2>3. m2 \in Mem
    BY <2>1, <2>2, Zenon DEF Mem
  <2>4. /\ m2.dir = n2.dir /\ m2.pde = n2.pde /\ m2.ref = n2.ref
        /\ m2.free = n2.free /\ m2.pte = T
    BY <2>2, Zenon DEF Mem
  <2> QED
    BY <2>3, <2>4, Zenon DEF T
<1>7. CASE m.pte[t][va[2]] = NULL
  <2>1. page_remove(n, d, va) = n
    BY <1>0, <1>4, <1>7, Zenon DEF page_remove, page_lookup
  <2>2. /\ m2 \in Mem /\ m2.dir = n.dir /\ m2.pde = n.pde /\ m2.ref = n.ref
        /\ m2.free = n.free /\ m2.pte = Set(n.pte, t, va[2], new)
    BY <1>10, <1>5, <1>6, <2>1, Zenon
  <2> QED
    BY <1>4, <1>7, <2>2, Zenon DEF Insertion
<1>8. ASSUME m.pte[t][va[2]] # NULL, NEW q \in Pages, q = m.pte[t][va[2]].pp
      PROVE  /\ m2 \in Mem /\ m2.dir = m.dir /\ m2.pde = m.pde
             /\ m2.pte = Set(m.pte, t, va[2], new)
             /\ m2.ref = Down(Up(m.ref, p), q)
             /\ m2.free = Freed(m.free, Up(m.ref, p), q)
  <2>1. /\ n.pte[t][va[2]] # NULL /\ q = n.pte[t][va[2]].pp /\ t = n.pde[d][va[1]]
    BY <1>4, <1>8, Zenon
  <2>2. PICK n2 : n2 = page_remove(n, d, va)
    BY Zenon
  <2>3. /\ n2 \in Mem /\ n2.dir = n.dir /\ n2.pde = n.pde
        /\ n2.pte = Set(n.pte, t, va[2], NULL)
        /\ n2.ref = Down(n.ref, q) /\ n2.free = Freed(n.free, n.ref, q)
    <3>1. page_lookup(n, d, va) = n.pte[t][va[2]]
      BY <1>0, <2>1, Zenon DEF page_lookup
    <3>2. Removal(n, n2, n.pde[d][va[1]], va[2], page_lookup(n, d, va).pp)
      BY <1>10, <2>1, <2>2, <3>1, RemoveFields, Zenon
    <3> QED
      BY <2>1, <3>1, <3>2, Zenon DEF Removal
  <2>4. /\ m2 \in Mem /\ m2.dir = n2.dir /\ m2.pde = n2.pde /\ m2.ref = n2.ref
        /\ m2.free = n2.free /\ m2.pte = Set(n2.pte, t, va[2], new)
    <3>1. n2 \in Mem
      BY <2>3, Zenon
    <3>2. m2 = [n2 EXCEPT !.pte[t][va[2]] = new]
      BY <1>5, <2>2, Zenon
    <3> QED
      BY <1>6, <3>1, <3>2, Zenon
  <2>5. m.pte \in [Pages -> [PTES -> Mapping \cup {NULL}]]
    BY MemFields, Zenon
  <2>6. m2.pte = Set(m.pte, t, va[2], new)
    <3>1. Set(Set(m.pte, t, va[2], NULL), t, va[2], new) = Set(m.pte, t, va[2], new)
      BY <1>0, <2>5, SetTwice
    <3> QED
      BY <1>4, <2>3, <2>4, <3>1, Zenon
  <2> QED
    BY <1>4, <2>3, <2>4, <2>6, Zenon
<1>9. CASE m.pte[t][va[2]] # NULL
  <2>1. m.pte[t][va[2]] \in Mapping
    <3>1. m.pte \in [Pages -> [PTES -> Mapping \cup {NULL}]]
      BY MemFields, Zenon
    <3>2. m.pte[t][va[2]] \in Mapping \cup {NULL}
      BY <1>0, <3>1, Zenon
    <3> QED
      BY <1>9, <3>2, Zenon
  <2>2. m.pte[t][va[2]].pp \in Pages
    BY <2>1, Zenon DEF Mapping
  <2> QED
    BY <1>8, <1>9, <2>2, Zenon DEF Insertion
<1> QED
  BY <1>7, <1>9, Zenon

-----------------------------------------------------------------------------
(* What that does to the pointers *)

\* There is one pointer more, and it points to t.
OneMore(m, m1, t) ==
    /\ Tree(m1) /\ Count(m1, t) = Count(m, t) + 1 /\ ~Unused(m1, t)
    /\ \A p \in Pages \ {t} : Count(m1, p) = Count(m, p) /\ (Unused(m1, p) <=> Unused(m, p))

\* A new page table t in slot i of e.
LEMMA AddTable ==
    ASSUME NEW m, NEW m1, NEW e \in Envs, Has(m, e), NEW i \in PDES, NEW t \in Pages,
           Tree(m), Unused(m, t), Pde(m, e, i) = NULL, m1.dir = m.dir, Pde(m1, e, i) = t,
           \A f \in Envs, j \in PDES : Has(m, f) /\ (f # e \/ j # i) => Pde(m1, f, j) = Pde(m, f, j),
           \A f \in Envs, va \in VAs : Has(m, f) => MapOf(m1, f, va) = MapOf(m, f, va)
    PROVE  OneMore(m, m1, t)
<1>0. \A p \in Pages : p # NULL
  BY PmapAssumption, Zenon DEF PmapAssumption
<1>1. \A f \in Envs : Has(m1, f) <=> Has(m, f)
  BY Zenon DEF Has
<1>2. \A p : Dirs(m1, p) = Dirs(m, p)
  BY Zenon DEF Dirs
<1>3. \A p : \A f \in Envs, va \in VAs : Has(m, f) => (Points(m1, f, va, p) <=> Points(m, f, va, p))
  BY Zenon DEF Points
<1>4. \A p : Uses(m1, p) = Uses(m, p)
  BY <1>1, <1>3, Zenon DEF Uses
<1>5. \A f \in Envs, j \in PDES : Has(m, f) => Pde(m1, f, j) = Pde(m, f, j) \/ (f = e /\ j = i)
  BY Zenon
<1>6. ASSUME NEW p \in Pages \ {t}
      PROVE  Count(m1, p) = Count(m, p) /\ (Unused(m1, p) <=> Unused(m, p))
  <2>1. \A f \in Envs, j \in PDES : Has(m, f) => (Pde(m1, f, j) = p <=> Pde(m, f, j) = p)
    BY <1>0, <1>5, Zenon
  <2>2. Tabs(m1, p) = Tabs(m, p)
    BY <1>1, <2>1, Zenon DEF Tabs
  <2>3. NoTable(m1, p) <=> NoTable(m, p)
    BY <1>1, <2>1, Zenon DEF NoTable
  <2> QED
    BY <1>1, <1>2, <1>3, <1>4, <2>2, <2>3, Zenon DEF Count, Unused
<1>7. Count(m1, t) = Count(m, t) + 1
  <2>1. Tabs(m1, t) = Tabs(m, t) \cup {<<e, i>>}
    BY <1>1, <1>5 DEF Tabs
  <2>2. <<e, i>> \notin Tabs(m, t)
    BY <1>0, Zenon DEF Tabs
  <2>3. Cardinality(Tabs(m1, t)) = Cardinality(Tabs(m, t)) + 1
    BY <2>1, <2>2, CountBound, AddOne, Zenon
  <2>4. PICK a, b, c \in Nat : /\ a = Cardinality(Dirs(m, t)) /\ b = Cardinality(Tabs(m, t))
                               /\ c = Cardinality(Uses(m, t))
    BY CountBound, Zenon
  <2>5. Count(m, t) = a + b + c /\ Count(m1, t) = a + (b + 1) + c
    BY <1>2, <1>4, <2>3, <2>4, Zenon DEF Count
  <2> QED
    BY <2>5
<1>8. ~Unused(m1, t)
  BY <1>1, Zenon DEF Unused, NoTable
<1>9. ASSUME NEW f \in Envs, NEW g \in Envs, Has(m, f), Has(m, g) PROVE TreeAt(m1, f, g)
  <2>1. TreeAt(m, f, g)
    BY <1>9, Zenon DEF Tree
  <2>2. NoTable(m, t)
    BY Zenon DEF Unused
  <2>3. \A j \in PDES : Pde(m1, f, j) # m1.dir[g]
    BY <1>5, <1>9, <2>1, <2>2, Zenon DEF TreeAt, NoTable
  <2>4. ASSUME NEW j \in PDES, NEW k \in PDES, Pde(m1, f, j) # NULL, Pde(m1, f, j) = Pde(m1, g, k)
        PROVE  f = g /\ j = k
    <3>0. ASSUME NEW h \in Envs, NEW l \in PDES, Has(m, h), Pde(m1, h, l) = t
          PROVE  h = e /\ l = i
      <4>1. Pde(m, h, l) # t
        BY <2>2, <3>0, Zenon DEF NoTable
      <4> QED
        BY <1>5, <3>0, <4>1, Zenon
    <3>1. CASE f = e /\ j = i
      BY <1>9, <2>4, <3>0, <3>1, Zenon
    <3>2. CASE g = e /\ k = i
      BY <1>9, <2>4, <3>0, <3>2, Zenon
    <3>3. CASE ~(f = e /\ j = i) /\ ~(g = e /\ k = i)
      BY <1>5, <1>9, <2>1, <2>4, <3>3, Zenon DEF TreeAt
    <3> QED
      BY <3>1, <3>2, <3>3, Zenon
  <2> QED
    BY <2>1, <2>3, <2>4, Zenon DEF TreeAt
<1>10. ASSUME NEW f \in Envs, NEW va \in VAs, Has(m, f), MapOf(m1, f, va) # NULL
       PROVE  NoTable(m1, MapOf(m1, f, va).pp)
  <2>1. MapOf(m1, f, va) = MapOf(m, f, va)
    BY <1>10, Zenon
  <2>2. NoTable(m, MapOf(m, f, va).pp)
    BY <1>10, <2>1, Zenon DEF Tree
  <2>3. MapOf(m, f, va).pp # t
    BY <1>10, <2>1, Zenon DEF Unused, Points
  <2> QED
    BY <1>1, <1>5, <2>1, <2>2, <2>3, Zenon DEF NoTable
<1>11. Tree(m1)
  BY <1>1, <1>9, <1>10, Zenon DEF Tree
<1> QED
  BY <1>6, <1>7, <1>8, <1>11, Zenon DEF OneMore

\* Another mapping, or none, at address va of e.
LEMMA SetMap ==
    ASSUME NEW m, NEW m1, NEW e \in Envs, Has(m, e), NEW va \in VAs, Tree(m), m1.dir = m.dir,
           \A f \in Envs, j \in PDES : Has(m, f) => Pde(m1, f, j) = Pde(m, f, j),
           \A f \in Envs, vb \in VAs : Has(m, f) /\ (f # e \/ vb # va)
                                          => MapOf(m1, f, vb) = MapOf(m, f, vb),
           MapOf(m1, e, va) # NULL => NoTable(m, MapOf(m1, e, va).pp)
    PROVE  /\ Tree(m1)
           /\ \A p \in Pages :
                /\ Points(m1, e, va, p) /\ ~Points(m, e, va, p) => Count(m1, p) = Count(m, p) + 1
                /\ ~Points(m1, e, va, p) /\ Points(m, e, va, p) => Count(m1, p) = Count(m, p) - 1
                /\ (Points(m1, e, va, p) <=> Points(m, e, va, p)) => Count(m1, p) = Count(m, p)
<1>1. \A f \in Envs : Has(m1, f) <=> Has(m, f)
  BY Zenon DEF Has
<1>2. \A p : Dirs(m1, p) = Dirs(m, p)
  BY Zenon DEF Dirs
<1>3. \A p : Tabs(m1, p) = Tabs(m, p)
  BY <1>1, Zenon DEF Tabs
<1>4. ASSUME NEW p PROVE NoTable(m1, p) <=> NoTable(m, p)
  <2>1. ASSUME NEW f \in Envs, Has(m, f)
        PROVE  /\ m1.dir[f] # p <=> m.dir[f] # p
               /\ (\A i \in PDES : Pde(m1, f, i) # p) <=> \A i \in PDES : Pde(m, f, i) # p
    BY <2>1, Zenon
  <2> QED
    BY <1>1, <2>1, Zenon DEF NoTable
<1>5. Tree(m1)
  <2>1. ASSUME NEW f \in Envs, NEW g \in Envs, Has(m, f), Has(m, g) PROVE TreeAt(m1, f, g)
    <3>1. TreeAt(m, f, g)
      BY <2>1, Zenon DEF Tree
    <3>2. \A j \in PDES : Pde(m1, f, j) = Pde(m, f, j) /\ Pde(m1, g, j) = Pde(m, g, j)
      BY <2>1, Zenon
    <3> QED
      BY <3>1, <3>2 DEF TreeAt
  <2>2. ASSUME NEW f \in Envs, NEW vb \in VAs, Has(m, f), MapOf(m1, f, vb) # NULL
        PROVE  NoTable(m1, MapOf(m1, f, vb).pp)
    <3>1. CASE f = e /\ vb = va
      BY <1>4, <2>2, <3>1, Zenon
    <3>2. CASE ~(f = e /\ vb = va)
      <4>1. MapOf(m1, f, vb) = MapOf(m, f, vb)
        BY <2>2, <3>2, Zenon
      <4>2. NoTable(m, MapOf(m, f, vb).pp)
        BY <2>2, <4>1, Zenon DEF Tree
      <4> QED
        BY <1>4, <4>1, <4>2, Zenon
    <3> QED
      BY <3>1, <3>2, Zenon
  <2> QED
    BY <1>1, <2>1, <2>2, Zenon DEF Tree
<1>6. ASSUME NEW p \in Pages
      PROVE  /\ Points(m1, e, va, p) /\ ~Points(m, e, va, p) => Count(m1, p) = Count(m, p) + 1
             /\ ~Points(m1, e, va, p) /\ Points(m, e, va, p) => Count(m1, p) = Count(m, p) - 1
             /\ (Points(m1, e, va, p) <=> Points(m, e, va, p)) => Count(m1, p) = Count(m, p)
  <2>1. \A f \in Envs, vb \in VAs : Has(m, f) /\ (f # e \/ vb # va)
                                      => (Points(m1, f, vb, p) <=> Points(m, f, vb, p))
    BY Zenon DEF Points
  <2>2. PICK a, b, c \in Nat : /\ a = Cardinality(Dirs(m, p)) /\ b = Cardinality(Tabs(m, p))
                               /\ c = Cardinality(Uses(m, p))
    BY CountBound, Zenon
  <2>3. Count(m, p) = a + b + c /\ Count(m1, p) = a + b + Cardinality(Uses(m1, p))
    BY <1>2, <1>3, <2>2, Zenon DEF Count
  <2>4. IsFiniteSet(Uses(m, p))
    BY CountBound, Zenon
  <2>5. CASE Points(m1, e, va, p) /\ ~Points(m, e, va, p)
    <3>1. Uses(m1, p) = Uses(m, p) \cup {<<e, va>>}
      BY <1>1, <2>1, <2>5 DEF Uses
    <3>2. <<e, va>> \notin Uses(m, p)
      BY <2>5, Zenon DEF Uses
    <3>3. Cardinality(Uses(m1, p)) = c + 1
      BY <2>2, <2>4, <3>1, <3>2, AddOne, Zenon
    <3> QED
      BY <2>3, <2>5, <3>3
  <2>6. CASE ~Points(m1, e, va, p) /\ Points(m, e, va, p)
    <3>1. Uses(m1, p) = Uses(m, p) \ {<<e, va>>}
      BY <1>1, <2>1, <2>6 DEF Uses
    <3>2. <<e, va>> \in Uses(m, p)
      BY <2>6, Zenon DEF Uses
    <3>3. Cardinality(Uses(m1, p)) = c - 1
      BY <2>2, <2>4, <3>1, <3>2, DropOne, Zenon
    <3> QED
      BY <2>3, <2>6, <3>3
  <2>7. CASE Points(m1, e, va, p) <=> Points(m, e, va, p)
    <3>1. \A f \in Envs, vb \in VAs : Has(m, f) => (Points(m1, f, vb, p) <=> Points(m, f, vb, p))
      BY <2>1, <2>7, Zenon
    <3>2. Uses(m1, p) = Uses(m, p)
      BY <1>1, <3>1, Zenon DEF Uses
    <3> QED
      BY <2>2, <2>3, <2>7, <3>2, Zenon
  <2> QED
    BY <2>5, <2>6, <2>7, Zenon
<1> QED
  BY <1>5, <1>6, Zenon

\* What an address is mapped to.
LEMMA MapType ==
    ASSUME NEW m \in Mem, NEW e \in Envs, Has(m, e), NEW va \in VAs
    PROVE  /\ m.dir[e] \in Pages /\ MapOf(m, e, va) \in Mapping \cup {NULL}
           /\ MapOf(m, e, va) # NULL => MapOf(m, e, va).pp \in Pages
<1>1. m.dir[e] \in Pages
  BY MemFields, Zenon DEF Has
<1>2. Pde(m, e, va[1]) \in Pages \cup {NULL}
  BY <1>1, EntryTypes, Zenon DEF Pde
<1>3. MapOf(m, e, va) \in Mapping \cup {NULL}
  BY <1>2, EntryTypes, Zenon DEF MapOf, page_lookup, Pde
<1> QED
  BY <1>1, <1>3, Zenon DEF Mapping

\* A new environment e with the page directory t.
LEMMA AddEnv ==
    ASSUME NEW m \in Mem, NEW m1, NEW e \in Envs, ~Has(m, e), NEW t \in Pages, Tree(m), Unused(m, t),
           m1.dir[e] = t, \A f \in Envs \ {e} : m1.dir[f] = m.dir[f],
           \A j \in PDES : Pde(m1, e, j) = NULL,
           \A f \in Envs, j \in PDES : Has(m, f) => Pde(m1, f, j) = Pde(m, f, j),
           \A f \in Envs, va \in VAs : Has(m, f) => MapOf(m1, f, va) = MapOf(m, f, va),
           \A va \in VAs : MapOf(m1, e, va) = NULL
    PROVE  OneMore(m, m1, t)
<1>0. \A p \in Pages : p # NULL
  BY PmapAssumption, Zenon DEF PmapAssumption
<1>1. Has(m1, e) /\ \A f \in Envs \ {e} : Has(m1, f) <=> Has(m, f)
  BY <1>0, Zenon DEF Has
<1>2. \A p \in Pages : \A f \in Envs, j \in PDES :
         Has(m1, f) /\ Pde(m1, f, j) = p <=> Has(m, f) /\ Pde(m, f, j) = p
  BY <1>0, <1>1, Zenon
<1>3. \A p \in Pages : \A f \in Envs, va \in VAs :
         Has(m1, f) /\ Points(m1, f, va, p) <=> Has(m, f) /\ Points(m, f, va, p)
  BY <1>0, <1>1, Zenon DEF Points
<1>4. \A p \in Pages : Tabs(m1, p) = Tabs(m, p)
  BY <1>2 DEF Tabs
<1>5. \A p \in Pages : Uses(m1, p) = Uses(m, p)
  BY <1>3, Zenon DEF Uses
<1>6. ASSUME NEW p \in Pages \ {t} PROVE NoTable(m1, p) <=> NoTable(m, p)
  <2>1. ASSUME NEW f \in Envs \ {e}, Has(m, f)
        PROVE  /\ m1.dir[f] # p <=> m.dir[f] # p
               /\ (\A i \in PDES : Pde(m1, f, i) # p) <=> \A i \in PDES : Pde(m, f, i) # p
    BY <2>1, Zenon
  <2>2. m1.dir[e] # p /\ \A i \in PDES : Pde(m1, e, i) # p
    BY <1>0, Zenon
  <2> QED
    BY <1>1, <2>1, <2>2, Zenon DEF NoTable
<1>7. ASSUME NEW p \in Pages \ {t}
      PROVE  Count(m1, p) = Count(m, p) /\ (Unused(m1, p) <=> Unused(m, p))
  <2>1. Dirs(m1, p) = Dirs(m, p)
    BY <1>0, <1>1, Zenon DEF Dirs, Has
  <2> QED
    BY <1>3, <1>4, <1>5, <1>6, <2>1, Zenon DEF Count, Unused
<1>8. Count(m1, t) = Count(m, t) + 1
  <2>1. Dirs(m1, t) = Dirs(m, t) \cup {e} /\ e \notin Dirs(m, t)
    BY <1>0, <1>1, Zenon DEF Dirs, Has
  <2>2. Cardinality(Dirs(m1, t)) = Cardinality(Dirs(m, t)) + 1
    BY <2>1, CountBound, AddOne, Zenon
  <2>3. PICK a, b, c \in Nat : /\ a = Cardinality(Dirs(m, t)) /\ b = Cardinality(Tabs(m, t))
                               /\ c = Cardinality(Uses(m, t))
    BY CountBound, Zenon
  <2>4. Count(m, t) = a + b + c /\ Count(m1, t) = (a + 1) + b + c
    BY <1>4, <1>5, <2>2, <2>3, Zenon DEF Count
  <2> QED
    BY <2>4
<1>9. ~Unused(m1, t)
  BY <1>1, Zenon DEF Unused, NoTable
<1>10. ASSUME NEW f \in Envs, NEW g \in Envs, Has(m1, f), Has(m1, g) PROVE TreeAt(m1, f, g)
  <2>1. NoTable(m, t)
    BY Zenon DEF Unused
  <2>2. CASE f = e
    BY <1>0, <1>1, <1>10, <2>1, <2>2, Zenon DEF TreeAt, NoTable, Has
  <2>3. CASE f # e /\ g = e
    BY <1>0, <1>1, <1>10, <2>1, <2>3, Zenon DEF TreeAt, NoTable
  <2>4. CASE f # e /\ g # e
    <3>0. Has(m, f) /\ Has(m, g) /\ m1.dir[f] = m.dir[f] /\ m1.dir[g] = m.dir[g]
      BY <1>1, <1>10, <2>4, Zenon
    <3>1. TreeAt(m, f, g)
      BY <3>0, Zenon DEF Tree
    <3>2. \A j \in PDES : Pde(m1, f, j) = Pde(m, f, j) /\ Pde(m1, g, j) = Pde(m, g, j)
      BY <3>0, Zenon
    <3> QED
      BY <3>0, <3>1, <3>2 DEF TreeAt
  <2> QED
    BY <2>2, <2>3, <2>4, Zenon
<1>11. ASSUME NEW f \in Envs, NEW va \in VAs, Has(m1, f), MapOf(m1, f, va) # NULL
       PROVE  NoTable(m1, MapOf(m1, f, va).pp)
  <2>1. f # e /\ Has(m, f) /\ MapOf(m1, f, va) = MapOf(m, f, va)
    BY <1>1, <1>11, Zenon
  <2>2. NoTable(m, MapOf(m, f, va).pp)
    BY <1>11, <2>1, Zenon DEF Tree
  <2>3. MapOf(m, f, va).pp # t
    BY <1>11, <2>1, Zenon DEF Unused, Points
  <2>4. MapOf(m, f, va).pp \in Pages
    BY <1>11, <2>1, MapType, Zenon
  <2> QED
    BY <1>6, <2>1, <2>2, <2>3, <2>4, Zenon
<1>12. Tree(m1)
  BY <1>10, <1>11, Zenon DEF Tree
<1> QED
  BY <1>7, <1>8, <1>9, <1>12, Zenon DEF OneMore

\* The pairs of e and an element of X are as many as X.
LEMMA Pairs ==
    ASSUME NEW X, IsFiniteSet(X), NEW S, IsFiniteSet(S), NEW e, \A x \in S : x[1] # e
    PROVE  /\ Cardinality(S \cup ({e} \X X)) = Cardinality(S) + Cardinality(X)
           /\ Cardinality(X) \in Nat
<1> DEFINE E == {e} \X X
<1>1. IsFiniteSet({e}) /\ Cardinality({e}) = 1
  BY FS_Singleton, Zenon
<1>2. Cardinality(X) \in Nat /\ Cardinality(S) \in Nat
  BY FS_CardinalityType, Zenon
<1>3. IsFiniteSet(E) /\ Cardinality(E) = 1 * Cardinality(X)
  BY <1>1, FS_Product, Zenon
<1>4. S \cap E = {}
  BY Zenon
<1> HIDE DEF E
<1>5. Cardinality(S \cap E) = 0
  BY <1>4, FS_EmptySet, Zenon
<1>6. Cardinality(S \cup E) = Cardinality(S) + Cardinality(E) - Cardinality(S \cap E)
  BY <1>3, FS_Union, Zenon
<1>7. Cardinality(S \cup E) = Cardinality(S) + Cardinality(X)
  <2>1. \A a, b \in Nat : a + (1 * b) - 0 = a + b
    OBVIOUS
  <2> QED
    BY <1>2, <1>3, <1>5, <1>6, <2>1, Zenon
<1> QED
  BY <1>2, <1>7, Zenon DEF E

\* Environment e goes, and with it what its address space holds.
LEMMA DropEnv ==
    ASSUME NEW m \in Mem, NEW m1, NEW e \in Envs, Has(m, e), Tree(m),
           m1.dir[e] = NULL, \A f \in Envs \ {e} : m1.dir[f] = m.dir[f],
           \A f \in Envs \ {e}, j \in PDES : Has(m, f) => Pde(m1, f, j) = Pde(m, f, j),
           \A f \in Envs \ {e}, va \in VAs : Has(m, f) => MapOf(m1, f, va) = MapOf(m, f, va)
    PROVE  /\ Tree(m1)
           /\ \A p \in Pages : /\ Count(m, p) = Count(m1, p) + Held(m, m.dir[e], p)
                               /\ Held(m, m.dir[e], p) \in Nat
<1>0. \A p \in Pages : p # NULL
  BY PmapAssumption, Zenon DEF PmapAssumption
<1>1. ~Has(m1, e) /\ \A f \in Envs \ {e} : Has(m1, f) <=> Has(m, f)
  BY Zenon DEF Has
<1>2. ASSUME NEW f \in Envs, NEW g \in Envs, Has(m1, f), Has(m1, g) PROVE TreeAt(m1, f, g)
  <2>1. /\ f # e /\ g # e /\ Has(m, f) /\ Has(m, g)
        /\ m1.dir[f] = m.dir[f] /\ m1.dir[g] = m.dir[g]
    BY <1>1, <1>2, Zenon
  <2>2. TreeAt(m, f, g)
    BY <2>1, Zenon DEF Tree
  <2>3. \A j \in PDES : Pde(m1, f, j) = Pde(m, f, j) /\ Pde(m1, g, j) = Pde(m, g, j)
    BY <2>1, Zenon
  <2> QED
    BY <2>1, <2>2, <2>3 DEF TreeAt
<1>3. ASSUME NEW f \in Envs, NEW va \in VAs, Has(m1, f), MapOf(m1, f, va) # NULL
      PROVE  NoTable(m1, MapOf(m1, f, va).pp)
  <2>1. f # e /\ Has(m, f) /\ MapOf(m1, f, va) = MapOf(m, f, va)
    BY <1>1, <1>3, Zenon
  <2>2. NoTable(m, MapOf(m, f, va).pp)
    BY <1>3, <2>1, Zenon DEF Tree
  <2>3. \A p : NoTable(m, p) => NoTable(m1, p)
    BY <1>1, Zenon DEF NoTable
  <2> QED
    BY <2>1, <2>2, <2>3, Zenon
<1>4. Tree(m1)
  BY <1>2, <1>3, Zenon DEF Tree
<1>5. ASSUME NEW p \in Pages
      PROVE  /\ Count(m, p) = Count(m1, p) + Held(m, m.dir[e], p)
             /\ Held(m, m.dir[e], p) \in Nat
  <2> DEFINE d == m.dir[e]
             V == {va \in VAs : page_lookup(m, d, va) # NULL /\ page_lookup(m, d, va).pp = p}
             I == {i \in PDES : m.pde[d][i] = p}
  <2>1. IsFiniteSet(V) /\ IsFiniteSet(I)
    <3>1. IsFiniteSet(VAs) /\ IsFiniteSet(PDES)
      BY PmapAssumption, SlotsFinite, Zenon DEF PmapAssumption
    <3>2. V \in SUBSET VAs /\ I \in SUBSET PDES
      BY Zenon
    <3> QED
      BY <3>1, <3>2, FS_Subset, Zenon
  <2>2. Uses(m, p) = Uses(m1, p) \cup ({e} \X V)
    <3>1. \A f \in Envs, va \in VAs : Has(m, f) /\ Points(m, f, va, p)
             <=> (Has(m1, f) /\ Points(m1, f, va, p)) \/ (f = e /\ va \in V)
      BY <1>1, Zenon DEF Points, MapOf
    <3> HIDE DEF V
    <3>2. V \in SUBSET VAs
      BY Zenon DEF V
    <3> QED
      BY <3>1, <3>2, Zenon DEF Uses
  <2>3. Tabs(m, p) = Tabs(m1, p) \cup ({e} \X I)
    <3>1. \A f \in Envs, i \in PDES : Has(m, f) /\ Pde(m, f, i) = p
             <=> (Has(m1, f) /\ Pde(m1, f, i) = p) \/ (f = e /\ i \in I)
      BY <1>1, Zenon DEF Pde
    <3> HIDE DEF I
    <3>2. I \in SUBSET PDES
      BY Zenon DEF I
    <3> QED
      BY <3>1, <3>2 DEF Tabs
  <2> HIDE DEF V, I
  <2>4. \A x \in Uses(m1, p) : x[1] # e
    BY <1>1, Zenon DEF Uses
  <2>5. \A x \in Tabs(m1, p) : x[1] # e
    BY <1>1, Zenon DEF Tabs
  <2>6. /\ Cardinality(Uses(m, p)) = Cardinality(Uses(m1, p)) + Cardinality(V)
        /\ Cardinality(V) \in Nat
    <3>1. IsFiniteSet(Uses(m1, p))
      BY CountBound, Zenon
    <3>2. /\ Cardinality(Uses(m1, p) \cup ({e} \X V)) = Cardinality(Uses(m1, p)) + Cardinality(V)
          /\ Cardinality(V) \in Nat
      BY <2>1, <2>4, <3>1, Pairs, Zenon
    <3> QED
      BY <2>2, <3>2, Zenon
  <2>7. /\ Cardinality(Tabs(m, p)) = Cardinality(Tabs(m1, p)) + Cardinality(I)
        /\ Cardinality(I) \in Nat
    <3>1. IsFiniteSet(Tabs(m1, p))
      BY CountBound, Zenon
    <3>2. /\ Cardinality(Tabs(m1, p) \cup ({e} \X I)) = Cardinality(Tabs(m1, p)) + Cardinality(I)
          /\ Cardinality(I) \in Nat
      BY <2>1, <2>5, <3>1, Pairs, Zenon
    <3> QED
      BY <2>3, <3>2, Zenon
  <2>8. Cardinality(Dirs(m, p)) = Cardinality(Dirs(m1, p)) + (IF d = p THEN 1 ELSE 0)
    <3>1. CASE d = p
      <4>1. Dirs(m, p) = Dirs(m1, p) \cup {e} /\ e \notin Dirs(m1, p)
        BY <1>0, <3>1, Zenon DEF Dirs
      <4> QED
        BY <3>1, <4>1, CountBound, AddOne, Zenon
    <3>2. CASE d # p
      <4>1. Dirs(m, p) = Dirs(m1, p)
        BY <1>0, <3>2, Zenon DEF Dirs
      <4>2. Cardinality(Dirs(m1, p)) + 0 = Cardinality(Dirs(m1, p))
        BY CountBound
      <4> QED
        BY <3>2, <4>1, <4>2, Zenon
    <3> QED
      BY <3>1, <3>2, Zenon
  <2>9. PICK h \in Nat : h = (IF d = p THEN 1 ELSE 0)
    BY Zenon
  <2>10. Held(m, d, p) = Cardinality(V) + Cardinality(I) + h
    BY <2>9, Zenon DEF Held, V, I
  <2>11. PICK a, b, c \in Nat : /\ a = Cardinality(Dirs(m1, p)) /\ b = Cardinality(Tabs(m1, p))
                                /\ c = Cardinality(Uses(m1, p))
    BY CountBound, Zenon
  <2>12. PICK v, i \in Nat : v = Cardinality(V) /\ i = Cardinality(I)
    BY <2>6, <2>7, Zenon
  <2>13. Count(m1, p) = a + b + c /\ Count(m, p) = (a + h) + (b + i) + (c + v)
    BY <2>6, <2>7, <2>8, <2>9, <2>11, <2>12, Zenon DEF Count
  <2>14. Held(m, d, p) = v + i + h
    BY <2>10, <2>12, Zenon
  <2> HIDE DEF d
  <2>15. Count(m, p) = Count(m1, p) + Held(m, d, p) /\ Held(m, d, p) \in Nat
    BY <2>9, <2>13, <2>14
  <2> QED
    BY <2>15, Zenon DEF d
<1> QED
  BY <1>4, <1>5, Zenon

-----------------------------------------------------------------------------
(* The functions of pmap.c and env.c keep the memory good *)

\* Counts that do not overflow.
Raised(r, p, r2) == r2[p] = r[p] + 1 /\ \A q \in Pages \ {p} : r2[q] = r[q]
Lowered(r, f, q, r2, f2) == /\ r2[q] = r[q] - 1 /\ \A p \in Pages \ {q} : r2[p] = r[p]
                            /\ f2 = IF r[q] = 1 THEN f \cup {q} ELSE f

LEMMA CountUp ==
    ASSUME NEW r \in [Pages -> 0 .. RefMod - 1], NEW p \in Pages, r[p] + 1 < RefMod
    PROVE  Raised(r, p, Up(r, p))
<1>1. RefMod \in Nat /\ r[p] \in 0 .. RefMod - 1
  BY PmapAssumption, Zenon DEF PmapAssumption
<1>2. (r[p] + 1) % RefMod = r[p] + 1
  BY <1>1
<1> QED
  BY <1>2, Zenon DEF Up, Raised

LEMMA CountDown ==
    ASSUME NEW r \in [Pages -> 0 .. RefMod - 1], NEW q \in Pages, r[q] >= 1, NEW f
    PROVE  Lowered(r, f, q, Down(r, q), Freed(f, r, q))
<1>1. RefMod \in Nat /\ r[q] \in 0 .. RefMod - 1
  BY PmapAssumption, Zenon DEF PmapAssumption
<1>2. (r[q] - 1) % RefMod = r[q] - 1 /\ (r[q] - 1 = 0 <=> r[q] = 1)
  BY <1>1
<1> QED
  BY <1>2, Zenon DEF Down, Freed, Lowered

\* Good in terms of the counts alone.
LEMMA GoodCounts ==
    ASSUME NEW m \in Mem, Tree(m), \A p \in Pages : m.ref[p] = Count(m, p),
           NEW A, m.free \cap A = {}, \A p \in Pages : Count(m, p) = 0 <=> p \in m.free \cup A
    PROVE  Good(m, A)
BY CountZero, Zenon DEF Good

LEMMA CountsGood ==
    ASSUME NEW m, NEW A, Good(m, A), NEW p \in Pages
    PROVE  /\ m \in Mem /\ m.ref \in [Pages -> 0 .. RefMod - 1]
           /\ m.ref[p] = Count(m, p) /\ m.ref[p] \in Nat /\ m.ref[p] + 1 < RefMod
           /\ Count(m, p) = 0 <=> p \in m.free \cup A
<1>1. m \in Mem
  BY Zenon DEF Good
<1>2. m.ref[p] = Count(m, p) /\ m.ref \in [Pages -> 0 .. RefMod - 1]
  BY <1>1, MemFields, Zenon DEF Good
<1>3. Count(m, p) \in Nat /\ Count(m, p) + 1 < RefMod
  BY CountBound, Zenon
<1>4. Count(m, p) = 0 <=> p \in m.free \cup A
  BY <1>1, CountZero, Zenon DEF Good
<1> QED
  BY <1>1, <1>2, <1>3, <1>4, Zenon

\* Two page tables are different pages, so a change of one entry is a change of one
\* mapping of one environment.
LEMMA SetPte ==
    ASSUME NEW m \in Mem, Tree(m), NEW e \in Envs, Has(m, e), NEW va \in VAs,
           Pde(m, e, va[1]) # NULL, NEW x,
           NEW m2, m2.dir = m.dir, m2.pde = m.pde,
           m2.pte = Set(m.pte, Pde(m, e, va[1]), va[2], x)
    PROVE  /\ MapOf(m2, e, va) = x
           /\ \A f \in Envs, j \in PDES : Pde(m2, f, j) = Pde(m, f, j)
           /\ \A f \in Envs, vb \in VAs : Has(m, f) /\ (f # e \/ vb # va)
                                             => MapOf(m2, f, vb) = MapOf(m, f, vb)
<1>1. \A f \in Envs : \A j : Pde(m2, f, j) = Pde(m, f, j)
  BY Zenon DEF Pde
<1>2. ASSUME NEW f \in Envs, NEW vb \in VAs, Has(m, f)
      PROVE  Pde(m, f, vb[1]) \in Pages \cup {NULL}
  BY <1>2, MapType, EntryTypes, Zenon DEF Pde
<1>3. ASSUME NEW n, NEW f \in Envs, NEW vb \in VAs
      PROVE  MapOf(n, f, vb) = IF Pde(n, f, vb[1]) = NULL THEN NULL
                               ELSE n.pte[Pde(n, f, vb[1])][vb[2]]
  BY Zenon DEF MapOf, Pde, page_lookup
<1>4. PICK t \in Pages : t = Pde(m, e, va[1])
  BY <1>2, Zenon
<1>5. m.pte \in [Pages -> [PTES -> Mapping \cup {NULL}]] /\ va[2] \in PTES
  BY MemFields, Address, Zenon
<1>6. /\ Set(m.pte, t, va[2], x)[t][va[2]] = x
      /\ \A u \in Pages, k \in PTES : u # t \/ k # va[2]
            => Set(m.pte, t, va[2], x)[u][k] = m.pte[u][k]
  BY <1>5, SMT DEF Set
<1>7. MapOf(m2, e, va) = x
  <2>1. MapOf(m2, e, va) = m2.pte[t][va[2]]
    BY <1>1, <1>3, <1>4, Zenon
  <2> QED
    BY <1>4, <1>6, <2>1, Zenon
<1>8. ASSUME NEW f \in Envs, NEW vb \in VAs, Has(m, f), f # e \/ vb # va
      PROVE  MapOf(m2, f, vb) = MapOf(m, f, vb)
  <2>1. CASE Pde(m, f, vb[1]) = NULL
    BY <1>1, <1>3, <2>1, Zenon
  <2>2. CASE Pde(m, f, vb[1]) # NULL
    <3>1. PICK u \in Pages : u = Pde(m, f, vb[1])
      BY <1>2, <1>8, <2>2, Zenon
    <3>2. u # t \/ vb[2] # va[2]
      <4>1. SUFFICES ASSUME u = t, vb[2] = va[2] PROVE FALSE
        BY Zenon
      <4>0. TreeAt(m, f, e) /\ vb[1] \in PDES /\ va[1] \in PDES
        BY <1>8, Address, Zenon DEF Tree
      <4>2. f = e /\ vb[1] = va[1]
        BY <1>4, <2>2, <3>1, <4>0, <4>1, Zenon DEF TreeAt
      <4> QED
        BY <1>8, <4>1, <4>2, Address, Zenon
    <3>3. vb[2] \in PTES
      BY Address, Zenon
    <3>4. Set(m.pte, t, va[2], x)[u][vb[2]] = m.pte[u][vb[2]]
      BY <1>6, <3>2, <3>3, Zenon
    <3>5. MapOf(m, f, vb) = m.pte[u][vb[2]]
      BY <1>3, <2>2, <3>1, Zenon
    <3>6. MapOf(m2, f, vb) = Set(m.pte, t, va[2], x)[u][vb[2]]
      <4>1. MapOf(m2, f, vb) = m2.pte[u][vb[2]]
        BY <1>1, <1>3, <2>2, <3>1, ZenonT(30)
      <4> QED
        BY <1>4, <4>1, Zenon
    <3> QED
      BY <3>4, <3>5, <3>6, Zenon
  <2> QED
    BY <2>1, <2>2, Zenon
<1> QED
  BY <1>1, <1>7, <1>8, Zenon

\* The mappings of all environments of m are kept; all but that of va in e, which
\* becomes x.
Same(m, m1) == /\ m1.dir = m.dir
               /\ \A f \in Envs, vb \in VAs : Has(m, f) => MapOf(m1, f, vb) = MapOf(m, f, vb)
Changed(m, m1, e, va, x) ==
    /\ m1.dir = m.dir /\ MapOf(m1, e, va) = x
    /\ \A f \in Envs, vb \in VAs : Has(m, f) /\ (f # e \/ vb # va)
                                      => MapOf(m1, f, vb) = MapOf(m, f, vb)

\* The free list is no part of the page tables.
LEMMA SameTables ==
    ASSUME NEW m, Tree(m), NEW n, n.dir = m.dir, n.pde = m.pde, n.pte = m.pte
    PROVE  /\ Tree(n) /\ Same(m, n)
           /\ \A q : /\ Count(n, q) = Count(m, q)
                     /\ (NoTable(n, q) <=> NoTable(m, q)) /\ (Unused(n, q) <=> Unused(m, q))
<1>1. \A e, i : Pde(n, e, i) = Pde(m, e, i)
  BY Zenon DEF Pde
<1>2. \A e, va : MapOf(n, e, va) = MapOf(m, e, va)
  BY Zenon DEF MapOf, page_lookup
<1>3. \A e : Has(n, e) <=> Has(m, e)
  BY Zenon DEF Has
<1>4. \A q : NoTable(n, q) <=> NoTable(m, q)
  BY <1>1, <1>3, Zenon DEF NoTable
<1>5. \A q : Unused(n, q) <=> Unused(m, q)
  BY <1>2, <1>3, <1>4, Zenon DEF Unused, Points
<1>6. ASSUME NEW q PROVE Count(n, q) = Count(m, q)
  <2>1. Dirs(n, q) = Dirs(m, q)
    BY Zenon DEF Dirs
  <2>2. Tabs(n, q) = Tabs(m, q)
    BY <1>1, <1>3, Zenon DEF Tabs
  <2>3. Uses(n, q) = Uses(m, q)
    BY <1>2, <1>3, Zenon DEF Uses, Points
  <2> QED
    BY <2>1, <2>2, <2>3, Zenon DEF Count
<1>7. Tree(n)
  <2>1. \A e, f : TreeAt(m, e, f) => TreeAt(n, e, f)
    BY <1>1 DEF TreeAt
  <2> QED
    BY <1>2, <1>3, <1>4, <2>1, Zenon DEF Tree
<1>8. Same(m, n)
  BY <1>2, Zenon DEF Same
<1> QED
  BY <1>4, <1>5, <1>6, <1>7, <1>8, Zenon

\* page_alloc(): the page is unused and no longer free.
LEMMA AllocGood ==
    ASSUME NEW m, Good(m, {}), NEW a \in page_alloc(m)
    PROVE  /\ a[1] \in Pages /\ Good(a[2], {a[1]}) /\ Same(m, a[2])
           /\ NoTable(a[2], a[1]) /\ a[1] \notin a[2].free
<1>1. m \in Mem /\ Tree(m)
  BY Zenon DEF Good
<1>2. PICK p, n : p = a[1] /\ n = a[2]
  BY Zenon
<1>3. /\ p \in m.free /\ p \in Pages /\ n \in Mem /\ n.free = m.free \ {p}
      /\ n.ref = m.ref /\ n.dir = m.dir /\ n.pde = m.pde /\ n.pte = m.pte
  BY <1>1, <1>2, AllocFields, Zenon
<1>4. /\ Tree(n) /\ Same(m, n)
      /\ \A q : /\ Count(n, q) = Count(m, q)
                /\ (NoTable(n, q) <=> NoTable(m, q)) /\ (Unused(n, q) <=> Unused(m, q))
  BY <1>1, <1>3, SameTables, Zenon
<1>5. ASSUME NEW q \in Pages
      PROVE  n.ref[q] = Count(n, q) /\ (Unused(n, q) <=> q \in n.free \cup {p})
  BY <1>3, <1>4, Zenon DEF Good
<1>6. n.free \cap {p} = {} /\ p \notin n.free
  BY <1>3, Zenon
<1>7. Good(n, {p})
  BY <1>3, <1>4, <1>5, <1>6, Zenon DEF Good
<1>8. NoTable(n, p)
  BY <1>3, <1>5, Zenon DEF Unused
<1> QED
  BY <1>2, <1>3, <1>4, <1>6, <1>7, <1>8, Zenon

\* page_free() takes it back.
LEMMA FreePageGood ==
    ASSUME NEW m, NEW p \in Pages, Good(m, {p})
    PROVE  Good(page_free(m, p), {}) /\ Same(m, page_free(m, p))
<1>1. m \in Mem /\ Tree(m)
  BY Zenon DEF Good
<1>2. PICK n : n = page_free(m, p)
  BY Zenon
<1>3. /\ n \in Mem /\ n.free = m.free \cup {p}
      /\ n.ref = m.ref /\ n.dir = m.dir /\ n.pde = m.pde /\ n.pte = m.pte
  BY <1>1, <1>2, Zenon DEF page_free, Mem
<1>4. /\ Tree(n) /\ Same(m, n)
      /\ \A q : /\ Count(n, q) = Count(m, q)
                /\ (NoTable(n, q) <=> NoTable(m, q)) /\ (Unused(n, q) <=> Unused(m, q))
  BY <1>1, <1>3, SameTables, Zenon
<1>5. ASSUME NEW q \in Pages
      PROVE  n.ref[q] = Count(n, q) /\ (Unused(n, q) <=> q \in n.free \cup {})
  BY <1>3, <1>4, Zenon DEF Good
<1>6. n.free \cap {} = {}
  BY Zenon
<1>7. Good(n, {})
  BY <1>3, <1>4, <1>5, <1>6, Zenon DEF Good
<1> QED
  BY <1>2, <1>4, <1>7, Zenon


\* pgdir_walk() adds an empty page table, if there is none.
LEMMA WalkGood ==
    ASSUME NEW m, NEW A, Good(m, A), NEW e \in Envs, Has(m, e), NEW va \in VAs,
           NEW m1 \in pgdir_walk(m, m.dir[e], va)
    PROVE  /\ Good(m1, A) /\ Same(m, m1) /\ Pde(m1, e, va[1]) \in Pages
           /\ \A p : p \notin m.free => p \notin m1.free
<1>0. /\ m \in Mem /\ Tree(m) /\ m.dir[e] \in Pages /\ m.free \in SUBSET Pages
      /\ m.pde \in [Pages -> [PDES -> Pages \cup {NULL}]]
      /\ m.pte \in [Pages -> [PTES -> Mapping \cup {NULL}]]
      /\ va[1] \in PDES
  <2>1. m \in Mem /\ Tree(m)
    BY Zenon DEF Good
  <2> QED
    BY <2>1, MapType, MemFields, Address, Zenon
<1>1. CASE m.pde[m.dir[e]][va[1]] # NULL
  <2>1. m1 = m
    BY <1>1, Zenon DEF pgdir_walk
  <2>2. Pde(m, e, va[1]) \in Pages
    BY <1>0, <1>1 DEF Pde
  <2> QED
    BY <2>1, <2>2, Zenon DEF Same
<1>2. CASE m.pde[m.dir[e]][va[1]] = NULL
  <2>0. PICK t \in m.free : Walked(m, m1, m.dir[e], va[1], t)
    BY <1>0, <1>2, WalkFields, Zenon
  <2>1. /\ m1 \in Mem /\ m1.ref = Up(m.ref, t)
        /\ m1.free = m.free \ {t} /\ m1.dir = m.dir
        /\ m1.pde = Set(m.pde, m.dir[e], va[1], t)
        /\ m1.pte = [m.pte EXCEPT ![t] = [j \in PTES |-> NULL]]
    BY <2>0, Zenon DEF Walked
  <2>2. t \in Pages /\ Unused(m, t) /\ t \notin A /\ t # NULL
    BY <1>0, PmapAssumption, Zenon DEF Good, PmapAssumption
  <2>3. /\ m1.pde[m.dir[e]][va[1]] = t
        /\ \A d \in Pages, j \in PDES : d # m.dir[e] \/ j # va[1] => m1.pde[d][j] = m.pde[d][j]
    BY <1>0, <2>1 DEF Set
  <2>4. Pde(m1, e, va[1]) = t
    BY <2>1, <2>3, Zenon DEF Pde
  <2>5. ASSUME NEW f \in Envs, NEW j \in PDES, Has(m, f), f # e \/ j # va[1]
        PROVE  Pde(m1, f, j) = Pde(m, f, j)
    <3>1. f # e => m.dir[f] # m.dir[e]
      BY <1>0, <2>5, Zenon DEF Tree, TreeAt
    <3>2. m.dir[f] \in Pages
      BY <1>0, <2>5, MemFields DEF Has
    <3>3. m1.pde[m.dir[f]][j] = m.pde[m.dir[f]][j]
      BY <2>3, <2>5, <3>1, <3>2, Zenon
    <3>4. m1.dir = m.dir
      BY <2>1, Zenon
    <3> QED
      BY <3>3, <3>4, Zenon DEF Pde
  <2>6. ASSUME NEW f \in Envs, NEW vb \in VAs, Has(m, f)
        PROVE  MapOf(m1, f, vb) = MapOf(m, f, vb)
    <3>1. /\ MapOf(m, f, vb) = IF Pde(m, f, vb[1]) = NULL THEN NULL
                               ELSE m.pte[Pde(m, f, vb[1])][vb[2]]
          /\ MapOf(m1, f, vb) = IF Pde(m1, f, vb[1]) = NULL THEN NULL
                                ELSE m1.pte[Pde(m1, f, vb[1])][vb[2]]
      BY Zenon DEF MapOf, Pde, page_lookup
    <3>2. vb[1] \in PDES /\ vb[2] \in PTES
      BY Address, Zenon
    <3>3. CASE f = e /\ vb[1] = va[1]
      <4>1. MapOf(m, f, vb) = NULL
        BY <1>2, <3>1, <3>3, Zenon DEF Pde
      <4>2. MapOf(m1, f, vb) = m1.pte[t][vb[2]]
        BY <2>2, <2>4, <3>1, <3>3, Zenon
      <4>3. m1.pte[t][vb[2]] = NULL
        BY <1>0, <2>1, <2>2, <3>2
      <4> QED
        BY <4>1, <4>2, <4>3, Zenon
    <3>4. CASE ~(f = e /\ vb[1] = va[1])
      <4>1. Pde(m1, f, vb[1]) = Pde(m, f, vb[1])
        BY <2>5, <2>6, <3>2, <3>4, Zenon
      <4>2. Pde(m, f, vb[1]) # t
        BY <2>2, <2>6, <3>2, Zenon DEF Unused, NoTable
      <4>3. Pde(m, f, vb[1]) \in Pages \cup {NULL}
        BY <1>0, <2>6, MapType, EntryTypes, Zenon DEF Pde
      <4>4. \A u \in Pages : u # t => m1.pte[u] = m.pte[u]
        BY <1>0, <2>1, Zenon
      <4> QED
        BY <3>1, <4>1, <4>2, <4>3, <4>4
    <3> QED
      BY <3>3, <3>4, Zenon
  <2>7. /\ Tree(m1) /\ Count(m1, t) = Count(m, t) + 1 /\ ~Unused(m1, t)
        /\ \A p \in Pages \ {t} : Count(m1, p) = Count(m, p) /\ (Unused(m1, p) <=> Unused(m, p))
    <3>1. Pde(m, e, va[1]) = NULL
      BY <1>2, Zenon DEF Pde
    <3>2. m1.dir = m.dir /\ Tree(m) /\ va[1] \in PDES /\ Unused(m, t) /\ t \in Pages
      BY <1>0, <2>1, <2>2, Zenon
    <3>3. /\ \A f \in Envs, j \in PDES : Has(m, f) /\ (f # e \/ j # va[1])
                                            => Pde(m1, f, j) = Pde(m, f, j)
          /\ \A f \in Envs, vb \in VAs : Has(m, f) => MapOf(m1, f, vb) = MapOf(m, f, vb)
      BY <2>5, <2>6, Zenon
    <3>4. OneMore(m, m1, t)
      BY <2>4, <3>1, <3>2, <3>3, AddTable, Zenon
    <3> QED
      BY <3>4, Zenon DEF OneMore
  <2>8. \A p \in Pages : m1.ref[p] = Count(m1, p)
    <3>1. /\ m.ref \in [Pages -> 0 .. RefMod - 1] /\ m.ref[t] + 1 < RefMod
          /\ \A p \in Pages : m.ref[p] = Count(m, p)
      BY <2>2, CountsGood, Zenon
    <3>3. Raised(m.ref, t, m1.ref)
      <4>1. Raised(m.ref, t, Up(m.ref, t))
        BY <2>2, <3>1, CountUp, Zenon
      <4> QED
        BY <2>1, <4>1, Zenon
    <3>2. m1.ref[t] = m.ref[t] + 1 /\ \A p \in Pages \ {t} : m1.ref[p] = m.ref[p]
      BY <3>3, Zenon DEF Raised
    <3> QED
      BY <2>2, <2>7, <3>1, <3>2, Zenon
  <2>9. ASSUME NEW p \in Pages PROVE Unused(m1, p) <=> p \in m1.free \cup A
    <3>1. Unused(m, p) <=> p \in m.free \cup A
      BY Zenon DEF Good
    <3>2. p \in m1.free <=> p \in m.free /\ p # t
      BY <2>1, Zenon
    <3> QED
      BY <2>2, <2>7, <3>1, <3>2, Zenon
  <2>10. m1 \in Mem /\ m1.dir = m.dir /\ m1.free \subseteq m.free /\ m1.free \cap A = {}
    BY <2>1, Zenon DEF Good
  <2>11. Good(m1, A)
    BY <2>7, <2>8, <2>9, <2>10, Zenon DEF Good
  <2>12. Same(m, m1)
    BY <2>6, <2>10, Zenon DEF Same
  <2> QED
    BY <2>2, <2>4, <2>10, <2>11, <2>12, Zenon
<1> QED
  BY <1>1, <1>2, Zenon

\* page_remove()
LEMMA RemoveGood ==
    ASSUME NEW m, Good(m, {}), NEW e \in Envs, Has(m, e), NEW va \in VAs,
           NEW m2, m2 = page_remove(m, m.dir[e], va)
    PROVE  Good(m2, {}) /\ Changed(m, m2, e, va, NULL)
<1>0. m \in Mem /\ Tree(m) /\ m.dir[e] \in Pages
  <2>1. m \in Mem /\ Tree(m)
    BY Zenon DEF Good
  <2> QED
    BY <2>1, MapType, Zenon
<1>1. CASE MapOf(m, e, va) = NULL
  <2>1. m2 = m
    BY <1>1, Zenon DEF page_remove, MapOf
  <2> QED
    BY <1>1, <2>1, Zenon DEF Changed
<1>2. CASE MapOf(m, e, va) # NULL
  <2>1. PICK q \in Pages : q = MapOf(m, e, va).pp
    BY <1>0, <1>2, MapType, Zenon
  <2>2. Removal(m, m2, Pde(m, e, va[1]), va[2], q)
    BY <1>0, <1>2, <2>1, RemoveFields, Zenon DEF MapOf, Pde
  <2>3. Pde(m, e, va[1]) # NULL
    BY <1>2, Zenon DEF MapOf, Pde, page_lookup
  <2>4. m2.dir = m.dir /\ m2.pde = m.pde /\ m2.pte = Set(m.pte, Pde(m, e, va[1]), va[2], NULL)
    BY <2>2, Zenon DEF Removal
  <2>5. /\ MapOf(m2, e, va) = NULL
        /\ \A f \in Envs, j \in PDES : Pde(m2, f, j) = Pde(m, f, j)
        /\ \A f \in Envs, vb \in VAs : Has(m, f) /\ (f # e \/ vb # va)
                                          => MapOf(m2, f, vb) = MapOf(m, f, vb)
    BY <1>0, <2>3, <2>4, SetPte
  <2>6. /\ Tree(m2)
        /\ \A p \in Pages :
             /\ ~Points(m2, e, va, p) /\ Points(m, e, va, p) => Count(m2, p) = Count(m, p) - 1
             /\ (Points(m2, e, va, p) <=> Points(m, e, va, p)) => Count(m2, p) = Count(m, p)
    BY <1>0, <2>4, <2>5, SetMap
  <2>7. \A p \in Pages : ~Points(m2, e, va, p) /\ (Points(m, e, va, p) <=> p = q)
    BY <1>2, <2>1, <2>5, Zenon DEF Points
  <2>8. Count(m2, q) = Count(m, q) - 1 /\ \A p \in Pages \ {q} : Count(m2, p) = Count(m, p)
    BY <2>6, <2>7, Zenon
  <2>9. /\ m.ref \in [Pages -> 0 .. RefMod - 1] /\ m.ref[q] \in Nat
        /\ \A p \in Pages : m.ref[p] = Count(m, p) /\ (Count(m, p) = 0 <=> p \in m.free)
    BY CountsGood
  <2>10. m.ref[q] # 0
    <3>1. ~Unused(m, q)
      BY <2>7, Zenon DEF Unused
    <3> QED
      BY <1>0, <2>9, <3>1, CountZero, Zenon
  <2>11. m.ref[q] >= 1
    BY <2>9, <2>10
  <2>12. /\ m2.ref[q] = m.ref[q] - 1 /\ \A p \in Pages \ {q} : m2.ref[p] = m.ref[p]
         /\ m2.free = IF m.ref[q] = 1 THEN m.free \cup {q} ELSE m.free
    <3>1. m2.ref = Down(m.ref, q) /\ m2.free = Freed(m.free, m.ref, q)
      BY <2>2, Zenon DEF Removal
    <3>2. m.ref \in [Pages -> 0 .. RefMod - 1]
      BY <2>9, Zenon
    <3>3. Lowered(m.ref, m.free, q, m2.ref, m2.free)
      BY <2>11, <3>1, <3>2, CountDown, Zenon
    <3> QED
      BY <3>3, Zenon DEF Lowered
  <2>13. \A p \in Pages : m2.ref[p] = Count(m2, p)
    BY <2>8, <2>9, <2>12, Zenon
  <2>14. Count(m2, q) = 0 <=> m.ref[q] = 1
    BY <2>8, <2>9
  <2>15. \A p \in Pages : Count(m2, p) = 0 <=> p \in m2.free \cup {}
    BY <2>8, <2>9, <2>10, <2>12, <2>14
  <2>16. m2 \in Mem /\ m2.free \cap {} = {}
    BY <2>2, Zenon DEF Removal
  <2>17. Good(m2, {})
    BY <2>6, <2>13, <2>15, <2>16, GoodCounts, Zenon
  <2> QED
    BY <2>4, <2>5, <2>17, Zenon DEF Changed
<1> QED
  BY <1>1, <1>2, Zenon

\* In m2 the entry of va is x, and all else is mapped as in m.
PteSet(m, m2, e, va, x) ==
    /\ MapOf(m2, e, va) = x
    /\ \A f \in Envs, j \in PDES : Pde(m2, f, j) = Pde(m, f, j)
    /\ \A f \in Envs, vb \in VAs : Has(m, f) /\ (f # e \/ vb # va)
                                      => MapOf(m2, f, vb) = MapOf(m, f, vb)

\* What a new entry changes, in one word.
LEMMA PteIsSet ==
    ASSUME NEW m \in Mem, Tree(m), NEW e \in Envs, Has(m, e), NEW va \in VAs,
           Pde(m, e, va[1]) # NULL, NEW x,
           NEW m2, m2.dir = m.dir, m2.pde = m.pde,
           m2.pte = Set(m.pte, Pde(m, e, va[1]), va[2], x)
    PROVE  PteSet(m, m2, e, va, x)
BY SetPte DEF PteSet

\* page_insert() of a page that is mapped, or that page_alloc() has handed out, where
\* there is a page table.
LEMMA InsertGood ==
    ASSUME NEW m, NEW A, Good(m, A), NEW e \in Envs, Has(m, e), NEW va \in VAs,
           Pde(m, e, va[1]) \in Pages, NEW p \in Pages, NEW new \in Mapping, new.pp = p,
           NoTable(m, p), A \subseteq {p}, p \notin m.free,
           NEW m2, m2 = Inserted(m, m.dir[e], p, va, Pde(m, e, va[1]), new)
    PROVE  Good(m2, {}) /\ Changed(m, m2, e, va, new)
<1>0. m \in Mem /\ Tree(m) /\ m.dir[e] \in Pages
  <2>1. m \in Mem /\ Tree(m)
    BY Zenon DEF Good
  <2> QED
    BY <2>1, MapType, Zenon
<1>1. PICK t \in Pages : t = Pde(m, e, va[1]) /\ t # NULL
  BY PmapAssumption, Zenon DEF PmapAssumption
<1>2. Insertion(m, m2, t, va[2], p, new)
  <2>1. t = m.pde[m.dir[e]][va[1]] /\ m2 = Inserted(m, m.dir[e], p, va, t, new)
    BY <1>1, Zenon DEF Pde
  <2> QED
    BY <1>0, <2>1, InsertFields, Zenon
<1>3. MapOf(m, e, va) = m.pte[t][va[2]] /\ new # NULL
  <2>1. MapOf(m, e, va) = m.pte[t][va[2]]
    BY <1>1, Zenon DEF MapOf, Pde, page_lookup
  <2> QED
    BY <2>1, PmapAssumption, Zenon DEF PmapAssumption, Mapping
<1>4. m2 \in Mem /\ m2.dir = m.dir /\ m2.pde = m.pde /\ m2.pte = Set(m.pte, t, va[2], new)
  BY <1>2, Zenon DEF Insertion
<1>5. /\ MapOf(m2, e, va) = new
      /\ \A f \in Envs, j \in PDES : Pde(m2, f, j) = Pde(m, f, j)
      /\ \A f \in Envs, vb \in VAs : Has(m, f) /\ (f # e \/ vb # va)
                                        => MapOf(m2, f, vb) = MapOf(m, f, vb)
  <2>1. Pde(m, e, va[1]) # NULL /\ m2.pte = Set(m.pte, Pde(m, e, va[1]), va[2], new)
    BY <1>1, <1>4, Zenon
  <2>2. PteSet(m, m2, e, va, new)
    BY <1>0, <1>4, <2>1, PteIsSet, Zenon
  <2> QED
    BY <2>2, Zenon DEF PteSet
<1>6. /\ Tree(m2)
      /\ \A q \in Pages :
           /\ Points(m2, e, va, q) /\ ~Points(m, e, va, q) => Count(m2, q) = Count(m, q) + 1
           /\ ~Points(m2, e, va, q) /\ Points(m, e, va, q) => Count(m2, q) = Count(m, q) - 1
           /\ (Points(m2, e, va, q) <=> Points(m, e, va, q)) => Count(m2, q) = Count(m, q)
  BY <1>0, <1>4, <1>5, SetMap
<1>7. \A q \in Pages : Points(m2, e, va, q) <=> q = p
  BY <1>3, <1>5, Zenon DEF Points
<1>8. /\ m.ref \in [Pages -> 0 .. RefMod - 1]
      /\ \A q \in Pages : /\ m.ref[q] = Count(m, q) /\ (Count(m, q) = 0 <=> q \in m.free \cup A)
                          /\ m.ref[q] \in Nat /\ m.ref[q] + 1 < RefMod
  BY CountsGood, Zenon
<1>9. Raised(m.ref, p, Up(m.ref, p)) /\ Up(m.ref, p) \in [Pages -> 0 .. RefMod - 1]
  BY <1>8, CountUp, RefType, Zenon
<1>10. \A q \in Pages \ {p} : q \in m.free <=> Count(m, q) = 0
  BY <1>8, Zenon
<1>11. (\A q \in Pages : m2.ref[q] = Count(m2, q)) /\ \A q \in Pages : Count(m2, q) = 0 <=> q \in m2.free
  <2>1. CASE MapOf(m, e, va) = NULL
    <3>1. m2.ref = Up(m.ref, p) /\ m2.free = m.free
      BY <1>2, <1>3, <2>1, Zenon DEF Insertion
    <3>2. \A q \in Pages : ~Points(m, e, va, q)
      BY <2>1, Zenon DEF Points
    <3>3. Count(m2, p) = Count(m, p) + 1 /\ \A q \in Pages \ {p} : Count(m2, q) = Count(m, q)
      BY <1>6, <1>7, <3>2, Zenon
    <3>4. Count(m2, p) # 0
      BY <1>8, <3>3
    <3>5. \A q \in Pages : m2.ref[q] = Count(m2, q)
      BY <1>8, <1>9, <3>1, <3>3 DEF Raised
    <3>6. ASSUME NEW q \in Pages PROVE Count(m2, q) = 0 <=> q \in m2.free
      <4>1. CASE q = p
        BY <3>1, <3>4, <4>1, Zenon
      <4>2. CASE q # p
        BY <1>10, <3>1, <3>3, <4>2, Zenon
      <4> QED
        BY <4>1, <4>2, Zenon
    <3> QED
      BY <3>5, <3>6, Zenon
  <2>2. CASE MapOf(m, e, va) # NULL
    <3>1. PICK q \in Pages : q = MapOf(m, e, va).pp
      BY <1>0, <2>2, MapType, Zenon
    <3>2. m2.ref = Down(Up(m.ref, p), q) /\ m2.free = Freed(m.free, Up(m.ref, p), q)
      BY <1>2, <1>3, <2>2, <3>1, Zenon DEF Insertion
    <3>3. \A x \in Pages : Points(m, e, va, x) <=> x = q
      BY <2>2, <3>1, Zenon DEF Points
    <3>4. Count(m, q) # 0
      <4>1. ~Unused(m, q)
        BY <3>3, Zenon DEF Unused
      <4> QED
        BY <1>0, <4>1, CountZero, Zenon
    <3>5. PICK r \in [Pages -> 0 .. RefMod - 1] : r = Up(m.ref, p)
      BY <1>9, Zenon
    <3>6. Raised(m.ref, p, r)
      BY <1>9, <3>5, Zenon
    <3>7. r[q] >= 1
      BY <1>8, <3>4, <3>6 DEF Raised
    <3>8. Lowered(r, m.free, q, m2.ref, m2.free)
      <4>1. Lowered(r, m.free, q, Down(r, q), Freed(m.free, r, q))
        BY <3>7, CountDown, Zenon
      <4> QED
        BY <3>2, <3>5, <4>1, Zenon
    <3>9. CASE q = p
      <4>1. \A x \in Pages : Count(m2, x) = Count(m, x)
        BY <1>6, <1>7, <3>3, <3>9, ZenonT(30)
      <4>2. r[p] = m.ref[p] + 1 /\ m2.ref[p] = m.ref[p] /\ r[p] # 1
        BY <1>8, <3>4, <3>6, <3>8, <3>9 DEF Raised, Lowered
      <4>3. m2.free = m.free /\ \A x \in Pages : m2.ref[x] = m.ref[x]
        BY <3>6, <3>8, <3>9, <4>2, ZenonT(30) DEF Raised, Lowered
      <4>4. \A x \in Pages : m2.ref[x] = Count(m2, x)
        BY <1>8, <4>1, <4>3, Zenon
      <4>5. \A x \in Pages : Count(m2, x) = 0 <=> x \in m2.free
        BY <1>10, <3>4, <3>9, <4>1, <4>3, ZenonT(30)
      <4> QED
        BY <4>4, <4>5, Zenon
    <3>10. CASE q # p
      <4>1. /\ Count(m2, p) = Count(m, p) + 1 /\ Count(m2, q) = Count(m, q) - 1
            /\ \A x \in Pages \ {p, q} : Count(m2, x) = Count(m, x)
        BY <1>6, <1>7, <3>3, <3>10, Zenon
      <4>2. /\ m2.ref[p] = m.ref[p] + 1 /\ m2.ref[q] = m.ref[q] - 1
            /\ \A x \in Pages \ {p, q} : m2.ref[x] = m.ref[x]
        BY <3>6, <3>8, <3>10, Zenon DEF Raised, Lowered
      <4>3. m2.free = IF m.ref[q] = 1 THEN m.free \cup {q} ELSE m.free
        BY <3>6, <3>8, <3>10, Zenon DEF Raised, Lowered
      <4>4. \A x \in Pages : m2.ref[x] = Count(m2, x)
        BY <1>8, <4>1, <4>2, ZenonT(30)
      <4>5. Count(m2, p) # 0 /\ (Count(m2, q) = 0 <=> m.ref[q] = 1)
        BY <1>8, <4>1
      <4>6. ASSUME NEW x \in Pages PROVE Count(m2, x) = 0 <=> x \in m2.free
        <5>1. CASE x = p
          BY <3>10, <4>3, <4>5, <5>1, Zenon
        <5>2. CASE x = q
          BY <1>10, <3>4, <3>10, <4>3, <4>5, <5>2, ZenonT(30)
        <5>3. CASE x # p /\ x # q
          BY <1>10, <4>1, <4>3, <5>3
        <5> QED
          BY <5>1, <5>2, <5>3, Zenon
      <4> QED
        BY <4>4, <4>6, Zenon
    <3> QED
      BY <3>9, <3>10, Zenon
  <2> QED
    BY <2>1, <2>2, Zenon
<1>12. m2.free \cap {} = {} /\ m2.free \cup {} = m2.free
  BY Zenon
<1>13. Good(m2, {})
  <2>1. m2 \in Mem /\ Tree(m2) /\ \A q \in Pages : Count(m2, q) = 0 <=> q \in m2.free \cup {}
    BY <1>4, <1>6, <1>11, <1>12, Zenon
  <2> QED
    BY <1>11, <1>12, <2>1, GoodCounts, Zenon
<1> QED
  BY <1>4, <1>5, <1>13, Zenon DEF Changed

\* A page that page_insert() may be given: fresh from page_alloc(), or mapped.
Insertable(m, A, p) ==
    \/ A = {p}
    \/ A = {} /\ \E f \in Envs, vb \in VAs : Has(m, f) /\ Points(m, f, vb, p)

LEMMA InsertablePage ==
    ASSUME NEW m, NEW A, Good(m, A), NEW p \in Pages, Insertable(m, A, p)
    PROVE  NoTable(m, p) /\ A \subseteq {p} /\ p \notin m.free
<1>1. CASE A = {p}
  BY <1>1, Zenon DEF Good, Unused
<1>2. CASE A = {} /\ \E f \in Envs, vb \in VAs : Has(m, f) /\ Points(m, f, vb, p)
  <2>1. PICK f \in Envs, vb \in VAs : Has(m, f) /\ Points(m, f, vb, p)
    BY <1>2, Zenon
  <2>2. NoTable(m, p)
    BY <2>1, Zenon DEF Good, Tree, Points
  <2>3. ~Unused(m, p)
    BY <2>1, Zenon DEF Unused
  <2> QED
    BY <1>2, <2>2, <2>3, Zenon DEF Good
<1> QED
  BY <1>1, <1>2, Zenon DEF Insertable

\* page_insert()
LEMMA PageInsertGood ==
    ASSUME NEW m, NEW A, Good(m, A), NEW e \in Envs, Has(m, e), NEW va \in VAs,
           NEW p \in Pages, NEW w \in BOOLEAN, Insertable(m, A, p),
           NEW m2 \in page_insert(m, m.dir[e], p, va, w)
    PROVE  Good(m2, {}) /\ Changed(m, m2, e, va, [pp |-> p, w |-> w])
<1>1. PICK m1 \in pgdir_walk(m, m.dir[e], va) :
         m2 = Inserted(m1, m.dir[e], p, va, m1.pde[m.dir[e]][va[1]], [pp |-> p, w |-> w])
  BY Zenon DEF page_insert, Inserted
<1>2. Good(m1, A) /\ Same(m, m1) /\ Pde(m1, e, va[1]) \in Pages
  BY WalkGood, Zenon
<1>3. m1.dir = m.dir /\ \A f \in Envs : Has(m1, f) <=> Has(m, f)
  BY <1>2, Zenon DEF Same, Has
<1>4. \A f \in Envs, vb \in VAs : Has(m, f) => MapOf(m1, f, vb) = MapOf(m, f, vb)
  BY <1>2, Zenon DEF Same
<1>5. Insertable(m1, A, p)
  BY <1>3, <1>4, Zenon DEF Insertable, Points
<1>6. NoTable(m1, p) /\ A \subseteq {p} /\ p \notin m1.free
  BY <1>2, <1>5, InsertablePage, Zenon
<1>7. PICK new \in Mapping : new = [pp |-> p, w |-> w] /\ new.pp = p
  <2>1. [pp |-> p, w |-> w] \in Mapping /\ [pp |-> p, w |-> w].pp = p
    BY Zenon DEF Mapping
  <2> QED
    BY <2>1, Zenon
<1>8. m2 = Inserted(m1, m1.dir[e], p, va, Pde(m1, e, va[1]), new)
  BY <1>1, <1>3, <1>7, Zenon DEF Pde
<1>9. Good(m2, {}) /\ Changed(m1, m2, e, va, new)
  <2>1. Has(m1, e) /\ new.pp = p /\ new \in Mapping
    BY <1>3, <1>7, Zenon
  <2> QED
    BY <1>2, <1>6, <1>8, <2>1, InsertGood, Zenon
<1>10. Changed(m, m2, e, va, new)
  BY <1>3, <1>4, <1>9, Zenon DEF Changed
<1> QED
  BY <1>7, <1>9, <1>10, Zenon

\* env_setup_vm() gives e an address space where nothing is mapped.
Added(m, m1, e) ==
    /\ Has(m1, e) /\ \A f \in Envs \ {e} : m1.dir[f] = m.dir[f]
    /\ \A f \in Envs, vb \in VAs : Has(m, f) => MapOf(m1, f, vb) = MapOf(m, f, vb)
    /\ \A vb \in VAs : MapOf(m1, e, vb) = NULL

LEMMA SetupGood ==
    ASSUME NEW m, Good(m, {}), NEW e \in Envs, ~Has(m, e), NEW m1 \in env_setup_vm(m, e)
    PROVE  Good(m1, {}) /\ Added(m, m1, e)
<1>0. /\ m \in Mem /\ Tree(m) /\ m.dir \in [Envs -> Pages \cup {NULL}]
      /\ m.pde \in [Pages -> [PDES -> Pages \cup {NULL}]]
  BY MemFields, Zenon DEF Good
<1>1. PICK a \in page_alloc(m) : m1 = [a[2] EXCEPT !.ref[a[1]] = (@ + 1) % RefMod, !.dir[e] = a[1],
                                                   !.pde[a[1]] = [i \in PDES |-> NULL]]
  BY Zenon DEF env_setup_vm
<1>2. PICK t \in m.free, n \in Mem :
         /\ t = a[1] /\ n = a[2] /\ n.free = m.free \ {t} /\ t \in Pages
         /\ n.ref = m.ref /\ n.dir = m.dir /\ n.pde = m.pde /\ n.pte = m.pte
  <2>1. /\ a[1] \in m.free /\ a[1] \in Pages /\ a[2] \in Mem /\ a[2].free = m.free \ {a[1]}
        /\ a[2].ref = m.ref /\ a[2].dir = m.dir /\ a[2].pde = m.pde /\ a[2].pte = m.pte
    BY <1>0, AllocFields, Zenon
  <2> QED
    BY <2>1, Zenon
<1>3. m1 = [n EXCEPT !.ref[t] = (@ + 1) % RefMod, !.dir[e] = t, !.pde[t] = [i \in PDES |-> NULL]]
  BY <1>1, <1>2, Zenon
<1>4. /\ m1.ref = Up(m.ref, t) /\ m1.free = m.free \ {t}
      /\ m1.dir = [m.dir EXCEPT ![e] = t] /\ m1.pde = [m.pde EXCEPT ![t] = [i \in PDES |-> NULL]]
      /\ m1.pte = m.pte
  BY <1>2, <1>3, Zenon DEF Mem, Up
<1>5. t \in Pages /\ t # NULL /\ Unused(m, t)
  BY <1>2, PmapAssumption, Zenon DEF PmapAssumption, Good
<1>6. m1 \in Mem
  <2>1. m1.ref \in [Pages -> 0 .. RefMod - 1]
    <3>1. m.ref \in [Pages -> 0 .. RefMod - 1]
      BY <1>0, MemFields, Zenon
    <3>2. Up(m.ref, t) \in [Pages -> 0 .. RefMod - 1]
      BY <1>5, <3>1, RefType, ZenonT(30)
    <3> QED
      BY <1>4, <3>2, Zenon
  <2>2. m1.dir \in [Envs -> Pages \cup {NULL}] /\ m1.pde \in [Pages -> [PDES -> Pages \cup {NULL}]]
    BY <1>0, <1>4, <1>5
  <2> QED
    BY <1>2, <1>3, <1>4, <2>1, <2>2, Zenon DEF Mem
<1>7. m1.dir[e] = t /\ \A f \in Envs \ {e} : m1.dir[f] = m.dir[f]
  BY <1>0, <1>4, Zenon
<1>8. ASSUME NEW f \in Envs, Has(m, f)
      PROVE  f # e /\ m.dir[f] \in Pages \ {t} /\ \A j : Pde(m1, f, j) = Pde(m, f, j)
  <2>1. f # e
    BY <1>8, Zenon
  <2>2. m.dir[f] \in Pages /\ m.dir[f] # t
    BY <1>0, <1>5, <1>8, Zenon DEF Unused, NoTable, Has
  <2>3. m1.pde[m.dir[f]] = m.pde[m.dir[f]]
    BY <1>0, <1>4, <2>2, Zenon
  <2> QED
    BY <1>7, <2>1, <2>2, <2>3, Zenon DEF Pde
<1>9. \A j \in PDES : Pde(m1, e, j) = NULL
  <2>1. m1.pde[t] = [i \in PDES |-> NULL]
    BY <1>0, <1>4, <1>5, Zenon
  <2> QED
    BY <1>7, <2>1, Zenon DEF Pde
<1>10. ASSUME NEW f \in Envs, NEW va \in VAs, Has(m, f) PROVE MapOf(m1, f, va) = MapOf(m, f, va)
  <2>1. Pde(m1, f, va[1]) = Pde(m, f, va[1])
    BY <1>8, <1>10, Zenon
  <2> QED
    BY <1>4, <2>1, Zenon DEF MapOf, page_lookup, Pde
<1>11. ASSUME NEW va \in VAs PROVE MapOf(m1, e, va) = NULL
  BY <1>9, Address, Zenon DEF MapOf, page_lookup, Pde
<1>12. OneMore(m, m1, t)
  BY <1>0, <1>5, <1>7, <1>8, <1>9, <1>10, <1>11, AddEnv, ZenonT(30)
<1>13. \A p \in Pages : m1.ref[p] = Count(m1, p)
  <2>1. /\ m.ref \in [Pages -> 0 .. RefMod - 1] /\ m.ref[t] + 1 < RefMod
        /\ \A p \in Pages : m.ref[p] = Count(m, p)
    BY <1>5, CountsGood, Zenon
  <2>2. Raised(m.ref, t, m1.ref)
    <3>1. Raised(m.ref, t, Up(m.ref, t))
      BY <1>5, <2>1, CountUp, Zenon
    <3> QED
      BY <1>4, <3>1, Zenon
  <2> QED
    BY <1>5, <1>12, <2>1, <2>2, Zenon DEF Raised, OneMore
<1>14. ASSUME NEW p \in Pages PROVE Unused(m1, p) <=> p \in m1.free \cup {}
  <2>1. Unused(m, p) <=> p \in m.free
    BY Zenon DEF Good
  <2>2. p \in m1.free <=> p \in m.free /\ p # t
    BY <1>4, Zenon
  <2> QED
    BY <1>5, <1>12, <2>1, <2>2, Zenon DEF OneMore
<1>15. m1.free \cap {} = {} /\ Tree(m1)
  BY <1>12, Zenon DEF OneMore
<1>16. Good(m1, {})
  BY <1>6, <1>13, <1>14, <1>15, Zenon DEF Good
<1>17. Has(m1, e)
  BY <1>5, <1>7, Zenon DEF Has
<1> QED
  BY <1>7, <1>10, <1>11, <1>16, <1>17, Zenon DEF Added

\* env_free() takes away e and its address space.
Dropped(m, m1, e) ==
    /\ ~Has(m1, e) /\ \A f \in Envs \ {e} : m1.dir[f] = m.dir[f]
    /\ \A f \in Envs \ {e}, vb \in VAs : Has(m, f) => MapOf(m1, f, vb) = MapOf(m, f, vb)

LEMMA FreeGood ==
    ASSUME NEW m, Good(m, {}), NEW e \in Envs, Has(m, e)
    PROVE  Good(free_vm(m, e), {}) /\ Dropped(m, free_vm(m, e), e)
<1>0. m \in Mem /\ Tree(m)
  BY Zenon DEF Good
<1>1. /\ m.dir \in [Envs -> Pages \cup {NULL}] /\ m.free \in SUBSET Pages
      /\ m.pde \in [Pages -> [PDES -> Pages \cup {NULL}]]
      /\ m.pte \in [Pages -> [PTES -> Mapping \cup {NULL}]]
  BY <1>0, MemFields, Zenon
<1>2. PICK d \in Pages : d = m.dir[e]
  BY <1>1, Zenon DEF Has
<1> DEFINE ref2 == [p \in Pages |-> (m.ref[p] - Held(m, d, p)) % RefMod]
           F == {p \in Pages : Held(m, d, p) > 0 /\ ref2[p] = 0}
           T == [t \in Pages |-> IF \E i \in PDES : m.pde[d][i] = t
                                 THEN [j \in PTES |-> NULL] ELSE m.pte[t]]
           D == [m.dir EXCEPT ![e] = NULL]
           P == [m.pde EXCEPT ![d] = [i \in PDES |-> NULL]]
           m1 == free_vm(m, e)
<1>3. m1 = [m EXCEPT !.ref = ref2, !.free = m.free \cup F, !.dir = D, !.pte = T, !.pde = P]
  <2>1. m1 = [m EXCEPT !.ref = ref2, !.free = @ \cup F, !.dir[e] = NULL, !.pte = T,
                       !.pde[d] = [i \in PDES |-> NULL]]
    BY <1>2, Zenon DEF free_vm
  <2> HIDE DEF ref2, F, T, m1
  <2> QED
    BY <1>0, <2>1, Zenon DEF Mem, D, P
<1>4. D[e] = NULL /\ \A f \in Envs \ {e} : D[f] = m.dir[f]
  BY <1>1, Zenon
<1>5. \A u \in Pages \ {d} : P[u] = m.pde[u]
  BY <1>1, Zenon
<1>6. D \in [Envs -> Pages \cup {NULL}] /\ P \in [Pages -> [PDES -> Pages \cup {NULL}]]
  BY <1>1, Zenon
<1>7. T \in [Pages -> [PTES -> Mapping \cup {NULL}]]
  BY <1>1, Zenon
<1>8. \A t \in Pages : (\A i \in PDES : m.pde[d][i] # t) => T[t] = m.pte[t]
  BY Zenon
<1>9. ref2 \in [Pages -> 0 .. RefMod - 1]
  <2>1. \A x, y \in Int : (x - y) % RefMod \in 0 .. RefMod - 1
    <3>1. RefMod \in Nat /\ RefMod > 0
      <4>1. RefMod \in Nat /\ Count(m, d) \in Nat /\ Count(m, d) + 1 < RefMod
        BY CountBound, PmapAssumption, Zenon DEF PmapAssumption
      <4> QED
        BY <4>1
    <3> QED
      BY <3>1
  <2>2. \A p \in Pages : m.ref[p] \in Int /\ Held(m, d, p) \in Int
    <3>1. ASSUME NEW p \in Pages PROVE Held(m, d, p) \in Int
      <4>1. IsFiniteSet(VAs) /\ IsFiniteSet(PDES)
        BY PmapAssumption, SlotsFinite, Zenon DEF PmapAssumption
      <4> DEFINE V == {va \in VAs : page_lookup(m, d, va) # NULL /\ page_lookup(m, d, va).pp = p}
                 I == {i \in PDES : m.pde[d][i] = p}
      <4>2. IsFiniteSet(V) /\ IsFiniteSet(I)
        <5>1. V \in SUBSET VAs /\ I \in SUBSET PDES
          BY Zenon
        <5> QED
          BY <4>1, <5>1, FS_Subset, Zenon
      <4>3. Held(m, d, p) = Cardinality(V) + Cardinality(I) + (IF d = p THEN 1 ELSE 0)
        BY Zenon DEF Held
      <4> HIDE DEF V, I
      <4>4. Cardinality(V) \in Nat /\ Cardinality(I) \in Nat
        BY <4>2, FS_CardinalityType, Zenon
      <4> QED
        BY <4>3, <4>4
    <3>2. \A p \in Pages : m.ref[p] \in Int
      BY <1>0, MemFields
    <3> QED
      BY <3>1, <3>2, Zenon
  <2> QED
    BY <2>1, <2>2, Zenon
<1> HIDE DEF T, D, P, m1
<1>10. m1.ref = ref2 /\ m1.free = m.free \cup F /\ m1.dir = D /\ m1.pte = T /\ m1.pde = P
  <2> HIDE DEF ref2, F
  <2> QED
    BY <1>0, <1>3, Zenon DEF Mem
<1>11. m1 \in Mem
  <2>1. m.free \cup F \in SUBSET Pages
    BY <1>1, Zenon
  <2> HIDE DEF ref2, F
  <2> QED
    BY <1>0, <1>3, <1>6, <1>7, <1>9, <2>1, Zenon DEF Mem
<1>12. m1.dir[e] = NULL /\ \A f \in Envs \ {e} : m1.dir[f] = m.dir[f]
  BY <1>4, <1>10, Zenon
<1>13. ASSUME NEW f \in Envs \ {e}, NEW j, Has(m, f) PROVE Pde(m1, f, j) = Pde(m, f, j)
  <2>1. m.dir[f] \in Pages /\ m.dir[f] # d
    BY <1>0, <1>1, <1>2, <1>13, Zenon DEF Tree, TreeAt, Has
  <2>2. P[m.dir[f]] = m.pde[m.dir[f]]
    BY <1>5, <2>1, Zenon
  <2> QED
    BY <1>10, <1>12, <2>2, Zenon DEF Pde
<1>14. ASSUME NEW f \in Envs \ {e}, NEW va \in VAs, Has(m, f) PROVE MapOf(m1, f, va) = MapOf(m, f, va)
  <2>0. /\ MapOf(m, f, va) = IF Pde(m, f, va[1]) = NULL THEN NULL
                             ELSE m.pte[Pde(m, f, va[1])][va[2]]
        /\ MapOf(m1, f, va) = IF Pde(m1, f, va[1]) = NULL THEN NULL
                              ELSE m1.pte[Pde(m1, f, va[1])][va[2]]
    BY Zenon DEF MapOf, Pde, page_lookup
  <2>1. Pde(m1, f, va[1]) = Pde(m, f, va[1])
    BY <1>13, <1>14, Zenon
  <2>2. CASE Pde(m, f, va[1]) = NULL
    BY <2>0, <2>1, <2>2, Zenon
  <2>3. CASE Pde(m, f, va[1]) # NULL
    <3>1. Pde(m, f, va[1]) \in Pages
      <4>1. m.dir[f] \in Pages
        BY <1>1, <1>14, Zenon DEF Has
      <4>2. Pde(m, f, va[1]) \in Pages \cup {NULL}
        BY <1>0, <4>1, EntryTypes, Zenon DEF Pde
      <4> QED
        BY <2>3, <4>2, Zenon
    <3>2. ASSUME NEW i \in PDES PROVE m.pde[d][i] # Pde(m, f, va[1])
      <4>1. TreeAt(m, f, e) /\ va[1] \in PDES
        BY <1>0, <1>14, Address, Zenon DEF Tree
      <4>2. Pde(m, e, i) # Pde(m, f, va[1])
        BY <2>3, <4>1, Zenon DEF TreeAt
      <4> QED
        BY <1>2, <4>2, Zenon DEF Pde
    <3>3. T[Pde(m, f, va[1])] = m.pte[Pde(m, f, va[1])]
      BY <1>8, <3>1, <3>2, Zenon
    <3>4. m1.pte[Pde(m, f, va[1])] = m.pte[Pde(m, f, va[1])]
      BY <1>10, <3>3, Zenon
    <3> QED
      BY <2>0, <2>1, <2>3, <3>4, Zenon
  <2> QED
    BY <2>2, <2>3, Zenon
<1>15. /\ Tree(m1)
       /\ \A p \in Pages : Count(m, p) = Count(m1, p) + Held(m, d, p) /\ Held(m, d, p) \in Nat
  BY <1>0, <1>2, <1>12, <1>13, <1>14, DropEnv, ZenonT(30)
<1>16. ASSUME NEW p \in Pages
       PROVE  m1.ref[p] = Count(m1, p) /\ (Count(m1, p) = 0 <=> p \in m1.free)
  <2>1. m.ref[p] = Count(m, p) /\ (Count(m, p) = 0 <=> p \in m.free \cup {})
    BY CountsGood, Zenon
  <2>2. PICK c, h \in Nat : c = Count(m1, p) /\ h = Held(m, d, p) /\ c + 1 < RefMod
    BY <1>15, CountBound, Zenon
  <2>3. m.ref[p] = c + h
    BY <1>15, <2>1, <2>2, Zenon
  <2>4. m1.ref[p] = (m.ref[p] - h) % RefMod
    BY <1>10, <2>2, Zenon
  <2>5. RefMod \in Nat
    BY PmapAssumption, Zenon DEF PmapAssumption
  <2>6. m1.ref[p] = c
    <3>1. (c + h) - h = c
      OBVIOUS
    <3>2. c \in 0 .. RefMod - 1
      BY <2>2, <2>5
    <3>3. c % RefMod = c
      BY <2>5, <3>2
    <3> QED
      BY <2>3, <2>4, <3>1, <3>3, Zenon
  <2>7. p \in m1.free <=> p \in m.free \/ (h > 0 /\ m1.ref[p] = 0)
    BY <1>10, <2>2, Zenon
  <2>8. p \in m.free <=> c + h = 0
    BY <2>1, <2>3, Zenon
  <2> HIDE DEF F, ref2
  <2>9. c = 0 <=> p \in m1.free
    BY <2>2, <2>6, <2>7, <2>8
  <2> QED
    BY <2>2, <2>6, <2>9, Zenon
<1>17. m1.free \cap {} = {} /\ m1.free \cup {} = m1.free
  BY Zenon
<1>18. Good(m1, {})
  BY <1>11, <1>15, <1>16, <1>17, GoodCounts, Zenon
<1>19. Dropped(m, m1, e)
  BY <1>12, <1>14, Zenon DEF Dropped, Has
<1> QED
  BY <1>18, <1>19, Zenon DEF m1

-----------------------------------------------------------------------------
(* The steps of the CPUs *)

\* A CPU runs an environment that exists and is not blocked, and no other CPU runs it.
Sched == /\ \A c \in CPUS : curenv[c] # NULL => Has(mem, curenv[c])
         /\ \A c, d \in CPUS : curenv[c] # NULL /\ curenv[c] = curenv[d] => c = d
         /\ \A c \in CPUS : curenv[c] # NULL => env_ipc_dstva[curenv[c]] = NULL

\* The inductive invariant.
IInv == TypeOK /\ Good(mem, {}) /\ Sched

EnvTypes == /\ env_parent_id \in [Envs -> Envs \cup {NULL}]
            /\ env_status \in [Envs -> {"OK", "DYING"}]
            /\ env_ipc_dstva \in [Envs -> VAs \cup {NULL, UTOP}]
            /\ panicstr \in {NULL, "sys_page_map", "sys_page_map: no memory",
                            "sys_ipc_try_send", "sys_ipc_try_send: no memory"}

\* A new mapping x is of a page that nobody had, or grants no more than somebody had.
Granted(x) ==
    x # NULL => \/ Unused(mem, x.pp)
                \/ \E f \in Envs, vb \in VAs : /\ Has(mem, f) /\ Points(mem, f, vb, x.pp)
                                               /\ x.w => MapOf(mem, f, vb).w

\* CPU c changes the mapping of va in e, as it may.
Edit(c, e, va) ==
    /\ Trapped(c) /\ Has(mem, e)
    /\ \E x : Granted(x) /\ Changed(mem, mem', e, va, x)
    /\ e = curenv[c] \/ env_parent_id[e] = curenv[c] \/ env_ipc_dstva[e] = va
    /\ e = curenv[c] \/ ~Running(e) \/ "remote_edit" \in Lapses

\* What a kernel entry of c does to the memory.
MemStep(c) ==
    \/ Same(mem, mem')
    \/ \E e \in Envs, va \in VAs : Edit(c, e, va)
    \/ \E e \in Envs : ~Has(mem, e) /\ Added(mem, mem', e)
    \/ \E e \in Envs : /\ Has(mem, e) /\ Dropped(mem, mem', e)
                       /\ \A d \in CPUS \ {c} : curenv[d] # e

\* The environment of CPU d is still there, and not blocked.
Stays(d) == curenv[d] # NULL => Has(mem', curenv[d]) /\ env_ipc_dstva'[curenv[d]] = NULL

\* What a kernel entry of c does.
KernelStep(c) ==
    /\ Good(mem', {}) /\ MemStep(c) /\ EnvTypes'
    /\ (env_run(c, curenv[c]) /\ Stays(c)) \/ sched_yield(c)
    /\ \A d \in CPUS \ {c} : Stays(d)

\* Environments stay where they were.
LEMMA SameStays ==
    ASSUME Sched, mem'.dir = mem.dir, env_ipc_dstva' = env_ipc_dstva, NEW d \in CPUS
    PROVE  Stays(d)
BY Zenon DEF Sched, Stays, Has

LEMMA TimerStep ==
    ASSUME IInv, NEW c \in CPUS, irq_timer(c) PROVE KernelStep(c)
<1>1. /\ mem' = mem /\ env_parent_id' = env_parent_id /\ env_status' = env_status
      /\ env_ipc_dstva' = env_ipc_dstva /\ panicstr' = panicstr /\ sched_yield(c)
  BY Zenon DEF irq_timer
<1>2. EnvTypes'
  BY <1>1, Zenon DEF IInv, TypeOK, EnvTypes
<1>3. Good(mem', {}) /\ MemStep(c)
  BY <1>1, Zenon DEF IInv, MemStep, Same
<1>4. \A d \in CPUS : Stays(d)
  BY <1>1, SameStays, Zenon DEF IInv
<1> QED
  BY <1>1, <1>2, <1>3, <1>4, Zenon DEF KernelStep

LEMMA RecvStep ==
    ASSUME IInv, NEW c \in CPUS, NEW va \in VAs \cup {UTOP}, sys_ipc_recv(c, va)
    PROVE  KernelStep(c)
<1>1. /\ mem' = mem /\ env_parent_id' = env_parent_id /\ env_status' = env_status
      /\ env_ipc_dstva' = [env_ipc_dstva EXCEPT ![curenv[c]] = va] /\ panicstr' = panicstr
      /\ sched_yield(c) /\ curenv[c] # NULL
  BY Zenon DEF sys_ipc_recv, Trapped
<1>2. EnvTypes'
  <2>1. env_ipc_dstva \in [Envs -> VAs \cup {NULL, UTOP}] /\ va \in VAs \cup {NULL, UTOP}
    BY Zenon DEF IInv, TypeOK
  <2>2. env_ipc_dstva' \in [Envs -> VAs \cup {NULL, UTOP}]
    BY <1>1, <2>1, Zenon
  <2> QED
    BY <1>1, <2>2, Zenon DEF IInv, TypeOK, EnvTypes
<1>3. Good(mem', {}) /\ MemStep(c)
  BY <1>1, Zenon DEF IInv, MemStep, Same
<1>4. ASSUME NEW d \in CPUS \ {c} PROVE Stays(d)
  <2>1. env_ipc_dstva \in [Envs -> VAs \cup {NULL, UTOP}] /\ curenv \in [CPUS -> Envs \cup {NULL}]
    BY Zenon DEF IInv, TypeOK
  <2>2. curenv[d] # NULL => curenv[d] # curenv[c] /\ curenv[d] \in Envs
    BY <1>1, <2>1, Zenon DEF IInv, Sched
  <2>3. curenv[d] # NULL => env_ipc_dstva'[curenv[d]] = env_ipc_dstva[curenv[d]]
    BY <1>1, <2>1, <2>2, Zenon
  <2> QED
    BY <1>1, <2>3, Zenon DEF IInv, Sched, Stays
<1> QED
  BY <1>1, <1>2, <1>3, <1>4, Zenon DEF KernelStep

LEMMA ExoforkStep ==
    ASSUME IInv, NEW c \in CPUS, sys_exofork(c) PROVE KernelStep(c)
<1>0. /\ Good(mem, {}) /\ curenv \in [CPUS -> Envs \cup {NULL}]
      /\ env_parent_id \in [Envs -> Envs \cup {NULL}]
      /\ env_ipc_dstva \in [Envs -> VAs \cup {NULL, UTOP}]
  BY Zenon DEF IInv, TypeOK
<1>1. PICK e \in Envs : /\ mem.dir[e] = NULL /\ mem' \in env_setup_vm(mem, e)
                        /\ env_parent_id' = [env_parent_id EXCEPT ![e] = curenv[c]]
                        /\ env_ipc_dstva' = [env_ipc_dstva EXCEPT ![e] = NULL]
                        /\ env_run(c, curenv[c])
  BY Zenon DEF sys_exofork
<1>2. ~Has(mem, e)
  BY <1>1, Zenon DEF Has
<1>3. Good(mem', {}) /\ Added(mem, mem', e)
  BY <1>0, <1>1, <1>2, SetupGood, Zenon
<1>4. MemStep(c)
  BY <1>2, <1>3, Zenon DEF MemStep
<1>5. EnvTypes'
  <2>1. env_parent_id' \in [Envs -> Envs \cup {NULL}]
    BY <1>0, <1>1, Zenon
  <2>2. env_ipc_dstva' \in [Envs -> VAs \cup {NULL, UTOP}]
    BY <1>0, <1>1, Zenon
  <2>3. UNCHANGED <<env_status, panicstr>>
    BY Zenon DEF sys_exofork
  <2>4. env_status' = env_status /\ panicstr' = panicstr
    BY <2>3, Zenon
  <2> QED
    BY <2>1, <2>2, <2>4, Zenon DEF IInv, TypeOK, EnvTypes
<1>6. ASSUME NEW d \in CPUS, curenv[d] # NULL
      PROVE  Has(mem', curenv[d]) /\ env_ipc_dstva'[curenv[d]] = NULL
  <2>1. /\ Has(mem, curenv[d]) /\ env_ipc_dstva[curenv[d]] = NULL
        /\ curenv[d] \in Envs /\ curenv[d] # e
    BY <1>0, <1>2, <1>6, Zenon DEF IInv, Sched
  <2>2. mem'.dir[curenv[d]] = mem.dir[curenv[d]]
    BY <1>3, <2>1, Zenon DEF Added
  <2>3. env_ipc_dstva'[curenv[d]] = env_ipc_dstva[curenv[d]]
    BY <1>0, <1>1, <2>1, Zenon
  <2> QED
    BY <2>1, <2>2, <2>3, Zenon DEF Has
<1> QED
  BY <1>1, <1>3, <1>4, <1>5, <1>6, Zenon DEF KernelStep, Stays

\* env_free() of an environment that no CPU but c runs.
LEMMA EnvFree ==
    ASSUME IInv, NEW c \in CPUS, NEW e \in Envs, Has(mem, e), env_free(e), panicstr' = panicstr,
           \A d \in CPUS \ {c} : curenv[d] # e
    PROVE  /\ Good(mem', {}) /\ MemStep(c) /\ EnvTypes'
           /\ \A d \in CPUS : curenv[d] # e => Stays(d)
<1>0. /\ Good(mem, {}) /\ curenv \in [CPUS -> Envs \cup {NULL}]
      /\ env_parent_id \in [Envs -> Envs \cup {NULL}]
      /\ env_status \in [Envs -> {"OK", "DYING"}]
      /\ env_ipc_dstva \in [Envs -> VAs \cup {NULL, UTOP}]
  BY Zenon DEF IInv, TypeOK
<1>1. /\ mem' = free_vm(mem, e)
      /\ env_parent_id' = [f \in Envs |-> IF f = e \/ env_parent_id[f] = e
                                          THEN NULL ELSE env_parent_id[f]]
      /\ env_status' = [env_status EXCEPT ![e] = "OK"]
      /\ env_ipc_dstva' = [env_ipc_dstva EXCEPT ![e] = NULL]
  BY Zenon DEF env_free
<1>2. Good(mem', {}) /\ Dropped(mem, mem', e)
  BY <1>0, <1>1, FreeGood, Zenon
<1>3. MemStep(c)
  BY <1>2, Zenon DEF MemStep
<1>4. EnvTypes'
  <2>1. env_parent_id' \in [Envs -> Envs \cup {NULL}]
    BY <1>0, <1>1, Zenon
  <2>2. env_status' \in [Envs -> {"OK", "DYING"}]
    BY <1>0, <1>1, Zenon
  <2>3. env_ipc_dstva' \in [Envs -> VAs \cup {NULL, UTOP}]
    BY <1>0, <1>1, Zenon
  <2> QED
    BY <2>1, <2>2, <2>3, Zenon DEF IInv, TypeOK, EnvTypes
<1>5. ASSUME NEW d \in CPUS, curenv[d] # e, curenv[d] # NULL
      PROVE  Has(mem', curenv[d]) /\ env_ipc_dstva'[curenv[d]] = NULL
  <2>1. Has(mem, curenv[d]) /\ env_ipc_dstva[curenv[d]] = NULL /\ curenv[d] \in Envs
    BY <1>0, <1>5, Zenon DEF IInv, Sched
  <2>2. mem'.dir[curenv[d]] = mem.dir[curenv[d]]
    BY <1>2, <1>5, <2>1, Zenon DEF Dropped
  <2>3. env_ipc_dstva'[curenv[d]] = env_ipc_dstva[curenv[d]]
    BY <1>0, <1>1, <1>5, <2>1, Zenon
  <2> QED
    BY <2>1, <2>2, <2>3, Zenon DEF Has
<1> QED
  BY <1>2, <1>3, <1>4, <1>5, Zenon DEF Stays

LEMMA DestroyStep ==
    ASSUME IInv, NEW c \in CPUS, NEW e \in Envs, sys_env_destroy(c, e)
    PROVE  KernelStep(c)
<1>1. panicstr' = panicstr /\ Has(mem, e) /\ curenv[c] # NULL
  BY Zenon DEF sys_env_destroy, envid2env, Has, Trapped
<1>2. CASE e = curenv[c] /\ env_free(e) /\ sched_yield(c)
  <2>1. \A d \in CPUS \ {c} : curenv[d] # e
    BY <1>1, <1>2, Zenon DEF IInv, Sched
  <2>2. /\ Good(mem', {}) /\ MemStep(c) /\ EnvTypes'
        /\ \A d \in CPUS : curenv[d] # e => Stays(d)
    BY <1>1, <1>2, <2>1, EnvFree, Zenon
  <2> QED
    BY <1>2, <2>1, <2>2, Zenon DEF KernelStep
<1>3. CASE e # curenv[c] /\ ~Running(e) /\ env_free(e) /\ env_run(c, curenv[c])
  <2>1. \A d \in CPUS : curenv[d] # e
    BY <1>3, Zenon DEF Running
  <2>2. /\ Good(mem', {}) /\ MemStep(c) /\ EnvTypes'
        /\ \A d \in CPUS : curenv[d] # e => Stays(d)
    BY <1>1, <1>3, <2>1, EnvFree, Zenon
  <2> QED
    BY <1>3, <2>1, <2>2, Zenon DEF KernelStep
<1>4. CASE /\ env_status' = [env_status EXCEPT ![e] = "DYING"]
           /\ env_run(c, curenv[c])
           /\ UNCHANGED <<mem, env_parent_id, env_ipc_dstva>>
  <2>1. mem' = mem /\ env_parent_id' = env_parent_id /\ env_ipc_dstva' = env_ipc_dstva
    BY <1>4, Zenon
  <2>2. EnvTypes'
    <3>1. env_status \in [Envs -> {"OK", "DYING"}]
      BY Zenon DEF IInv, TypeOK
    <3>2. env_status' \in [Envs -> {"OK", "DYING"}]
      BY <1>4, <3>1, Zenon
    <3> QED
      BY <1>1, <2>1, <3>2, Zenon DEF IInv, TypeOK, EnvTypes
  <2>3. Good(mem', {}) /\ MemStep(c)
    BY <2>1, Zenon DEF IInv, MemStep, Same
  <2>4. \A d \in CPUS : Stays(d)
    BY <2>1, SameStays, Zenon DEF IInv
  <2> QED
    BY <1>4, <2>2, <2>3, <2>4, Zenon DEF KernelStep
<1> QED
  BY <1>2, <1>3, <1>4, Zenon DEF sys_env_destroy

LEMMA ZombieStep ==
    ASSUME IInv, NEW c \in CPUS, trap_zombie(c) PROVE KernelStep(c)
<1>1. PICK e : e = curenv[c]
  BY Zenon
<1>2. panicstr' = panicstr /\ e # NULL /\ env_free(e) /\ sched_yield(c)
  BY <1>1, Zenon DEF trap_zombie
<1>3. e \in Envs /\ Has(mem, e) /\ \A d \in CPUS \ {c} : curenv[d] # e
  BY <1>1, <1>2, Zenon DEF IInv, Sched, TypeOK
<1>4. /\ Good(mem', {}) /\ MemStep(c) /\ EnvTypes'
      /\ \A d \in CPUS : curenv[d] # e => Stays(d)
  BY <1>2, <1>3, EnvFree, Zenon
<1> QED
  BY <1>2, <1>3, <1>4, Zenon DEF KernelStep

\* A system call that returns after it has changed at most the memory and panicstr.
LEMMA CallReturns ==
    ASSUME IInv, NEW c \in CPUS, Returns(c), Good(mem', {}), MemStep(c), mem'.dir = mem.dir,
           panicstr' \in {NULL, "sys_page_map", "sys_page_map: no memory",
                          "sys_ipc_try_send", "sys_ipc_try_send: no memory"}
    PROVE  KernelStep(c)
<1>1. /\ env_parent_id' = env_parent_id /\ env_status' = env_status
      /\ env_ipc_dstva' = env_ipc_dstva /\ env_run(c, curenv[c])
  BY Zenon DEF Returns
<1>2. EnvTypes'
  BY <1>1, Zenon DEF IInv, TypeOK, EnvTypes
<1>3. \A d \in CPUS : Stays(d)
  BY <1>1, SameStays, Zenon DEF IInv
<1> QED
  BY <1>1, <1>2, <1>3, Zenon DEF KernelStep

LEMMA UnmapStep ==
    ASSUME IInv, NEW c \in CPUS, NEW e \in Envs, NEW va \in VAs, sys_page_unmap(c, e, va)
    PROVE  KernelStep(c)
<1>1. /\ Trapped(c) /\ Has(mem, e) /\ (e = curenv[c] \/ env_parent_id[e] = curenv[c])
      /\ (e = curenv[c] \/ ~Running(e) \/ "remote_edit" \in Lapses)
      /\ mem' = page_remove(mem, mem.dir[e], va) /\ Returns(c) /\ panicstr' = panicstr
  BY Zenon DEF sys_page_unmap, envid2env, MayEdit, Has
<1>2. Good(mem', {}) /\ Changed(mem, mem', e, va, NULL)
  BY <1>1, RemoveGood, Zenon DEF IInv
<1>3. Granted(NULL)
  BY Zenon DEF Granted
<1>4. Edit(c, e, va)
  BY <1>1, <1>2, <1>3, Zenon DEF Edit
<1>5. MemStep(c) /\ mem'.dir = mem.dir
  BY <1>2, <1>4, Zenon DEF MemStep, Changed
<1> QED
  BY <1>1, <1>2, <1>5, CallReturns, Zenon DEF IInv, TypeOK

LEMMA AllocStep ==
    ASSUME IInv, NEW c \in CPUS, NEW e \in Envs, NEW va \in VAs, NEW w \in BOOLEAN,
           sys_page_alloc(c, e, va, w)
    PROVE  KernelStep(c)
<1>1. /\ Trapped(c) /\ Has(mem, e) /\ (e = curenv[c] \/ env_parent_id[e] = curenv[c])
      /\ (e = curenv[c] \/ ~Running(e) \/ "remote_edit" \in Lapses)
      /\ Returns(c) /\ panicstr' = panicstr
  BY Zenon DEF sys_page_alloc, envid2env, MayEdit, Has
<1>2. PICK a \in page_alloc(mem) : \/ mem' \in page_insert(a[2], mem.dir[e], a[1], va, w)
                                   \/ mem' = page_free(a[2], a[1])
  BY Zenon DEF sys_page_alloc
<1>3. PICK p \in Pages, n \in Mem :
         p = a[1] /\ n = a[2] /\ Good(n, {p}) /\ Same(mem, n) /\ p \in mem.free
  <2>1. /\ a[1] \in Pages /\ Good(a[2], {a[1]}) /\ Same(mem, a[2])
    BY AllocGood, Zenon DEF IInv
  <2>2. a[1] \in mem.free /\ a[2] \in Mem
    BY AllocFields, Zenon DEF IInv, TypeOK
  <2> QED
    BY <2>1, <2>2, Zenon
<1>4. n.dir = mem.dir
  BY <1>3, Zenon DEF Same
<1>5. CASE mem' = page_free(n, p)
  <2>1. Good(mem', {}) /\ Same(n, mem')
    BY <1>3, <1>5, FreePageGood, Zenon
  <2>2. Same(mem, mem')
    BY <1>3, <2>1, ZenonT(30) DEF Same, Has
  <2>3. MemStep(c) /\ mem'.dir = mem.dir
    BY <2>2, Zenon DEF MemStep, Same
  <2> QED
    BY <1>1, <2>1, <2>3, CallReturns, Zenon DEF IInv, TypeOK
<1>6. CASE mem' \in page_insert(n, n.dir[e], p, va, w)
  <2>1. Insertable(n, {p}, p) /\ Has(n, e)
    BY <1>1, <1>4, Zenon DEF Insertable, Has
  <2>2. PICK x : x = [pp |-> p, w |-> w]
    BY Zenon
  <2>3. Good(mem', {}) /\ Changed(n, mem', e, va, x)
    BY <1>3, <1>6, <2>1, <2>2, PageInsertGood, Zenon
  <2>4. Changed(mem, mem', e, va, x)
    BY <1>3, <1>4, <2>3, Zenon DEF Changed, Same, Has
  <2>5. Unused(mem, p)
    BY <1>3, Zenon DEF IInv, Good
  <2>6. Granted(x)
    BY <2>2, <2>5, Zenon DEF Granted
  <2>7. Edit(c, e, va)
    BY <1>1, <2>4, <2>6, Zenon DEF Edit
  <2>8. MemStep(c) /\ mem'.dir = mem.dir
    BY <2>4, <2>7, Zenon DEF MemStep, Changed
  <2> QED
    BY <1>1, <2>3, <2>8, CallReturns, Zenon DEF IInv, TypeOK
<1> QED
  BY <1>2, <1>3, <1>4, <1>5, <1>6, Zenon

\* A page that src has is mapped in dst.
LEMMA PagePassed ==
    ASSUME IInv, NEW src \in Envs, Has(mem, src), NEW srcva \in VAs, MapOf(mem, src, srcva) # NULL,
           NEW w \in BOOLEAN, w => MapOf(mem, src, srcva).w,
           NEW dst \in Envs, Has(mem, dst), NEW dstva \in VAs,
           mem' \in page_insert(mem, mem.dir[dst], MapOf(mem, src, srcva).pp, dstva, w)
    PROVE  Good(mem', {}) /\ \E x : Granted(x) /\ Changed(mem, mem', dst, dstva, x)
<1>0. Good(mem, {}) /\ mem \in Mem
  BY Zenon DEF IInv, TypeOK
<1>1. PICK p \in Pages : p = MapOf(mem, src, srcva).pp
  BY <1>0, MapType, Zenon
<1>2. Points(mem, src, srcva, p)
  BY <1>1, Zenon DEF Points
<1>3. Insertable(mem, {}, p)
  BY <1>2, Zenon DEF Insertable
<1>4. PICK x : x = [pp |-> p, w |-> w]
  BY Zenon
<1>5. Good(mem', {}) /\ Changed(mem, mem', dst, dstva, x)
  BY <1>0, <1>1, <1>3, <1>4, PageInsertGood, Zenon
<1>6. Granted(x)
  <2>1. x.pp = p /\ x.w = w
    BY <1>4, Zenon
  <2> QED
    BY <1>2, <2>1, Zenon DEF Granted
<1> QED
  BY <1>5, <1>6, Zenon

LEMMA MapStep ==
    ASSUME IInv, NEW c \in CPUS, NEW src \in Envs, NEW srcva \in VAs, NEW dst \in Envs,
           NEW dstva \in VAs, NEW w \in BOOLEAN, sys_page_map(c, src, srcva, dst, dstva, w)
    PROVE  KernelStep(c)
<1>1. /\ Trapped(c) /\ Has(mem, src) /\ Has(mem, dst)
      /\ (dst = curenv[c] \/ env_parent_id[dst] = curenv[c])
      /\ (dst = curenv[c] \/ ~Running(dst) \/ "remote_edit" \in Lapses) /\ Returns(c)
  BY Zenon DEF sys_page_map, envid2env, MayEdit, Has
<1>2. CASE mem' = mem /\ panicstr' \in {"sys_page_map", "sys_page_map: no memory"}
  <2>1. Good(mem', {}) /\ MemStep(c) /\ mem'.dir = mem.dir
    BY <1>2, Zenon DEF IInv, MemStep, Same
  <2> QED
    BY <1>1, <1>2, <2>1, CallReturns, Zenon
<1>3. CASE /\ MapOf(mem, src, srcva) # NULL /\ (w => MapOf(mem, src, srcva).w)
           /\ mem' \in page_insert(mem, mem.dir[dst], MapOf(mem, src, srcva).pp, dstva, w)
           /\ panicstr' = panicstr
  <2>1. Good(mem', {}) /\ \E x : Granted(x) /\ Changed(mem, mem', dst, dstva, x)
    BY <1>1, <1>3, PagePassed, Zenon
  <2>2. Edit(c, dst, dstva)
    BY <1>1, <2>1, Zenon DEF Edit
  <2>3. MemStep(c) /\ mem'.dir = mem.dir
    BY <2>1, <2>2, Zenon DEF MemStep, Changed
  <2> QED
    BY <1>1, <1>3, <2>1, <2>3, CallReturns, Zenon DEF IInv, TypeOK
<1>4. \/ mem' = mem /\ panicstr' \in {"sys_page_map", "sys_page_map: no memory"}
      \/ /\ MapOf(mem, src, srcva) # NULL /\ (w => MapOf(mem, src, srcva).w)
         /\ mem' \in page_insert(mem, mem.dir[dst], MapOf(mem, src, srcva).pp, dstva, w)
         /\ panicstr' = panicstr
  BY Zenon DEF sys_page_map, MapOf
<1> QED
  BY <1>2, <1>3, <1>4, Zenon

LEMMA SendStep ==
    ASSUME IInv, NEW c \in CPUS, NEW e \in Envs, NEW srcva \in VAs \cup {UTOP}, NEW w \in BOOLEAN,
           sys_ipc_try_send(c, e, srcva, w)
    PROVE  KernelStep(c)
<1> DEFINE d == curenv[c]
           from == MapOf(mem, d, srcva)
           sent == env_ipc_dstva' = [env_ipc_dstva EXCEPT ![e] = NULL]
<1>0. /\ curenv \in [CPUS -> Envs \cup {NULL}]
      /\ env_ipc_dstva \in [Envs -> VAs \cup {NULL, UTOP}]
  BY Zenon DEF IInv, TypeOK
<1>1. /\ Trapped(c) /\ Has(mem, e) /\ env_ipc_dstva[e] # NULL /\ env_run(c, curenv[c])
      /\ env_parent_id' = env_parent_id /\ env_status' = env_status
  BY Zenon DEF sys_ipc_try_send, Has
<1>2. /\ sent \/ env_ipc_dstva' = env_ipc_dstva
      /\ panicstr' = panicstr \/ panicstr' \in {"sys_ipc_try_send", "sys_ipc_try_send: no memory"}
      /\ \/ mem' = mem
         \/ /\ srcva # UTOP /\ env_ipc_dstva[e] # UTOP /\ from # NULL /\ (w => from.w)
            /\ mem' \in page_insert(mem, mem.dir[e], from.pp, env_ipc_dstva[e], w)
  <2>1. sent \/ env_ipc_dstva' = env_ipc_dstva
    BY Zenon DEF sys_ipc_try_send
  <2>2. panicstr' = panicstr \/ panicstr' \in {"sys_ipc_try_send", "sys_ipc_try_send: no memory"}
    BY Zenon DEF sys_ipc_try_send
  <2>3. \/ mem' = mem
        \/ /\ srcva # UTOP /\ env_ipc_dstva[e] # UTOP /\ from # NULL /\ (w => from.w)
           /\ mem' \in page_insert(mem, mem.dir[e], from.pp, env_ipc_dstva[e], w)
    BY Zenon DEF sys_ipc_try_send, MapOf
  <2> QED
    BY <2>1, <2>2, <2>3, Zenon
<1>3. ~Running(e)
  <2>1. e # NULL
    BY PmapAssumption, Zenon DEF PmapAssumption
  <2>2. \A b \in CPUS : curenv[b] # NULL => env_ipc_dstva[curenv[b]] = NULL
    BY Zenon DEF IInv, Sched
  <2> QED
    BY <1>1, <2>1, <2>2, Zenon DEF Running
<1>4. EnvTypes'
  <2>1. env_ipc_dstva' \in [Envs -> VAs \cup {NULL, UTOP}]
    BY <1>0, <1>2, Zenon
  <2>2. panicstr' \in {NULL, "sys_page_map", "sys_page_map: no memory",
                       "sys_ipc_try_send", "sys_ipc_try_send: no memory"}
    BY <1>2, Zenon DEF IInv, TypeOK
  <2> QED
    BY <1>1, <2>1, <2>2, Zenon DEF IInv, TypeOK, EnvTypes
<1>5. Good(mem', {}) /\ MemStep(c) /\ mem'.dir = mem.dir
  <2>1. CASE mem' = mem
    BY <2>1, Zenon DEF IInv, MemStep, Same
  <2>2. CASE /\ srcva # UTOP /\ env_ipc_dstva[e] # UTOP /\ from # NULL /\ (w => from.w)
             /\ mem' \in page_insert(mem, mem.dir[e], from.pp, env_ipc_dstva[e], w)
    <3>1. PICK dstva \in VAs : dstva = env_ipc_dstva[e]
      BY <1>0, <1>1, <2>2, Zenon
    <3>2. d \in Envs /\ Has(mem, d) /\ srcva \in VAs
      BY <1>0, <1>1, <2>2, Zenon DEF Trapped, IInv, Sched
    <3>3. Good(mem', {}) /\ \E x : Granted(x) /\ Changed(mem, mem', e, dstva, x)
      BY <1>1, <2>2, <3>1, <3>2, PagePassed, Zenon
    <3>4. Edit(c, e, dstva)
      BY <1>1, <1>3, <3>1, <3>3, Zenon DEF Edit
    <3> QED
      BY <3>3, <3>4, Zenon DEF MemStep, Changed
  <2> QED
    BY <1>2, <2>1, <2>2, Zenon
<1>6. ASSUME NEW b \in CPUS PROVE Stays(b)
  <2>1. curenv[b] # NULL => Has(mem, curenv[b]) /\ env_ipc_dstva[curenv[b]] = NULL /\ curenv[b] \in Envs
    BY <1>0, Zenon DEF IInv, Sched
  <2>2. curenv[b] # NULL => env_ipc_dstva'[curenv[b]] = NULL
    BY <1>0, <1>2, <2>1, Zenon
  <2> QED
    BY <1>5, <2>1, <2>2, Zenon DEF Stays, Has
<1> QED
  BY <1>1, <1>4, <1>5, <1>6, Zenon DEF KernelStep

\* Every step of the system.
LEMMA NextStep ==
    ASSUME IInv, Next
    PROVE  \/ UNCHANGED vars
           \/ \E c \in CPUS, va \in VAs : user_access(c, va)
           \/ \E c \in CPUS : KernelStep(c)
<1>1. CASE monitor
  BY <1>1, Zenon DEF monitor
<1>2. ASSUME NEW c \in CPUS, irq_timer(c) \/ trap_zombie(c) \/ sys_exofork(c) PROVE KernelStep(c)
  BY <1>2, TimerStep, ZombieStep, ExoforkStep, Zenon
<1>3. ASSUME NEW c \in CPUS, NEW e \in Envs, sys_env_destroy(c, e) PROVE KernelStep(c)
  BY <1>3, DestroyStep, Zenon
<1>4. ASSUME NEW c \in CPUS, NEW e \in Envs, NEW va \in VAs, sys_page_unmap(c, e, va)
      PROVE  KernelStep(c)
  BY <1>4, UnmapStep, Zenon
<1>5. ASSUME NEW c \in CPUS, NEW e \in Envs, NEW va \in VAs, NEW w \in BOOLEAN,
             sys_page_alloc(c, e, va, w)
      PROVE  KernelStep(c)
  BY <1>5, AllocStep, Zenon
<1>6. ASSUME NEW c \in CPUS, NEW va \in VAs \cup {UTOP}, sys_ipc_recv(c, va) PROVE KernelStep(c)
  BY <1>6, RecvStep, Zenon
<1>7. ASSUME NEW c \in CPUS, NEW e \in Envs, NEW va \in VAs \cup {UTOP}, NEW w \in BOOLEAN,
             sys_ipc_try_send(c, e, va, w)
      PROVE  KernelStep(c)
  BY <1>7, SendStep, Zenon
<1>8. ASSUME NEW c \in CPUS, NEW src \in Envs, NEW dst \in Envs, NEW srcva \in VAs,
             NEW dstva \in VAs, NEW w \in BOOLEAN, sys_page_map(c, src, srcva, dst, dstva, w)
      PROVE  KernelStep(c)
  BY <1>8, MapStep, Zenon
<1> QED
  BY <1>1, <1>2, <1>3, <1>4, <1>5, <1>6, <1>7, <1>8, Zenon DEF Next

\* A kernel entry ends with a legal schedule.
LEMMA KernelKeeps ==
    ASSUME IInv, NEW c \in CPUS, KernelStep(c)
    PROVE  IInv'
<1>0. /\ curenv \in [CPUS -> Envs \cup {NULL}]
      /\ tlb \in [CPUS -> [VAs -> Mapping \cup {NULL}]]
  BY Zenon DEF IInv, TypeOK
<1>1. PICK x \in Envs \cup {NULL} :
         /\ env_run(c, x)
         /\ x # NULL => /\ Has(mem', x) /\ env_ipc_dstva'[x] = NULL
                        /\ \A d \in CPUS \ {c} : curenv[d] # x
  <2>1. CASE env_run(c, curenv[c]) /\ Stays(c)
    BY <1>0, <2>1, Zenon DEF Stays, IInv, Sched
  <2>2. CASE sched_yield(c)
    BY <2>2, Zenon DEF sched_yield, Has
  <2> QED
    BY <2>1, <2>2, Zenon DEF KernelStep
<1>2. curenv' = [curenv EXCEPT ![c] = x] /\ tlb' = [tlb EXCEPT ![c] = NoTlb]
  BY <1>1, Zenon DEF env_run
<1>3. /\ curenv' \in [CPUS -> Envs \cup {NULL}] /\ curenv'[c] = x
      /\ \A d \in CPUS \ {c} : curenv'[d] = curenv[d]
  BY <1>0, <1>2, Zenon
<1>4. tlb' \in [CPUS -> [VAs -> Mapping \cup {NULL}]]
  <2>1. NoTlb \in [VAs -> Mapping \cup {NULL}]
    BY Zenon DEF NoTlb
  <2> QED
    BY <1>0, <1>2, <2>1, Zenon
<1>5. Good(mem', {}) /\ mem' \in Mem /\ EnvTypes'
  BY Zenon DEF KernelStep, Good
<1>6. TypeOK'
  BY <1>3, <1>4, <1>5, Zenon DEF TypeOK, EnvTypes
<1>7. ASSUME NEW d \in CPUS, curenv'[d] # NULL
      PROVE  Has(mem', curenv'[d]) /\ env_ipc_dstva'[curenv'[d]] = NULL
  <2>1. CASE d = c
    BY <1>1, <1>3, <1>7, <2>1, Zenon
  <2>2. CASE d # c
    BY <1>3, <1>7, <2>2, Zenon DEF KernelStep, Stays
  <2> QED
    BY <2>1, <2>2, Zenon
<1>8. ASSUME NEW b \in CPUS, NEW d \in CPUS, curenv'[b] # NULL, curenv'[b] = curenv'[d]
      PROVE  b = d
  <2>1. CASE b = c
    BY <1>1, <1>3, <1>8, <2>1, Zenon
  <2>2. CASE d = c
    BY <1>1, <1>3, <1>8, <2>2, Zenon
  <2>3. CASE b # c /\ d # c
    BY <1>3, <1>8, <2>3, Zenon DEF IInv, Sched
  <2> QED
    BY <2>1, <2>2, <2>3, Zenon
<1>9. Sched'
  BY <1>7, <1>8, Zenon DEF Sched
<1> QED
  BY <1>5, <1>6, <1>9, Zenon DEF IInv

LEMMA InvStep ==
    ASSUME IInv, [Next]_vars PROVE IInv'
<1>1. CASE UNCHANGED vars
  <2>1. /\ mem' = mem /\ env_parent_id' = env_parent_id /\ env_status' = env_status
        /\ env_ipc_dstva' = env_ipc_dstva /\ curenv' = curenv /\ tlb' = tlb /\ panicstr' = panicstr
    BY <1>1, Zenon DEF vars
  <2> QED
    BY <2>1, Zenon DEF IInv, TypeOK, Sched
<1>2. ASSUME NEW c \in CPUS, NEW va \in VAs, user_access(c, va) PROVE IInv'
  <2>1. /\ mem' = mem /\ env_parent_id' = env_parent_id /\ env_status' = env_status
        /\ env_ipc_dstva' = env_ipc_dstva /\ curenv' = curenv /\ panicstr' = panicstr
        /\ curenv[c] # NULL /\ tlb' = [tlb EXCEPT ![c][va] = MapOf(mem, curenv[c], va)]
    BY <1>2, Zenon DEF user_access, MapOf
  <2>2. MapOf(mem, curenv[c], va) \in Mapping \cup {NULL}
    BY <2>1, MapType, Zenon DEF IInv, Sched, TypeOK
  <2>3. tlb' \in [CPUS -> [VAs -> Mapping \cup {NULL}]]
    <3>1. tlb \in [CPUS -> [VAs -> Mapping \cup {NULL}]]
      BY Zenon DEF IInv, TypeOK
    <3> QED
      BY <2>1, <2>2, <3>1, Zenon
  <2>4. TypeOK'
    BY <2>1, <2>3, Zenon DEF IInv, TypeOK
  <2> QED
    BY <2>1, <2>4, Zenon DEF IInv, Sched
<1>3. ASSUME NEW c \in CPUS, KernelStep(c) PROVE IInv'
  BY <1>3, KernelKeeps, Zenon
<1> QED
  BY <1>1, <1>2, <1>3, NextStep, Zenon

\* i386_init() starts with good memory: every page free, then one address space.
LEMMA InvInit ==
    ASSUME Init PROVE IInv
<1> DEFINE m0 == [ref  |-> [p \in Pages |-> 0],
                  free |-> Pages,
                  dir  |-> [e \in Envs |-> NULL],
                  pde  |-> [p \in Pages |-> [i \in PDES |-> NULL]],
                  pte  |-> [p \in Pages |-> [j \in PTES |-> NULL]]]
<1>0. Env0 \in Envs /\ RefMod \in Nat
  BY PmapAssumption, Zenon DEF PmapAssumption
<1>1. m0 \in Mem
  <2>1. 0 \in 0 .. RefMod - 1
    <3>1. Count(m0, NULL) \in Nat /\ Count(m0, NULL) + 1 < RefMod
      BY CountBound, Zenon
    <3> HIDE DEF m0
    <3> QED
      BY <1>0, <3>1
  <2>2. m0.ref \in [Pages -> 0 .. RefMod - 1]
    BY <2>1, Zenon
  <2> QED
    BY <2>1, Zenon DEF Mem
<1>2. /\ m0.free = Pages /\ (\A e \in Envs : m0.dir[e] = NULL) /\ \A p \in Pages : m0.ref[p] = 0
  BY Zenon
<1> HIDE DEF m0
<1>3. \A e \in Envs : ~Has(m0, e)
  BY <1>2, Zenon DEF Has
<1>4. Tree(m0) /\ \A p : Unused(m0, p)
  BY <1>3, Zenon DEF Tree, Unused, NoTable
<1>5. \A p \in Pages : Count(m0, p) = 0
  BY <1>1, <1>4, CountZero, Zenon
<1>6. Good(m0, {})
  <2>1. \A p \in Pages : m0.ref[p] = Count(m0, p)
    BY <1>2, <1>5, Zenon
  <2>2. \A p \in Pages : Unused(m0, p) <=> p \in m0.free \cup {}
    BY <1>2, <1>4, Zenon
  <2> QED
    BY <1>1, <1>4, <2>1, <2>2, Zenon DEF Good
<1>7. PICK m1 \in env_setup_vm(m0, Env0), va \in VAs :
         \E a \in page_alloc(m1) : mem \in page_insert(a[2], a[2].dir[Env0], a[1], va, TRUE)
  BY Zenon DEF Init, m0
<1>8. Good(m1, {}) /\ Added(m0, m1, Env0)
  BY <1>0, <1>3, <1>6, SetupGood, Zenon
<1>9. PICK a \in page_alloc(m1) : mem \in page_insert(a[2], a[2].dir[Env0], a[1], va, TRUE)
  BY <1>7, Zenon
<1>10. a[1] \in Pages /\ Good(a[2], {a[1]}) /\ Same(m1, a[2])
  BY <1>8, AllocGood, Zenon
<1>11. PICK p, n : p = a[1] /\ n = a[2]
  BY Zenon
<1>12. p \in Pages /\ Good(n, {p}) /\ n.dir = m1.dir /\ mem \in page_insert(n, n.dir[Env0], p, va, TRUE)
  BY <1>9, <1>10, <1>11, Zenon DEF Same
<1>13. Has(n, Env0) /\ Insertable(n, {p}, p) /\ TRUE \in BOOLEAN
  BY <1>8, <1>12, Zenon DEF Added, Has, Insertable
<1>14. Good(mem, {}) /\ Changed(n, mem, Env0, va, [pp |-> p, w |-> TRUE])
  BY <1>0, <1>12, <1>13, PageInsertGood, Zenon
<1>15. Has(mem, Env0) /\ mem \in Mem
  BY <1>13, <1>14, Zenon DEF Changed, Has, Good
<1>16. PICK c \in CPUS : curenv = [d \in CPUS |-> IF d = c THEN Env0 ELSE NULL]
  BY Zenon DEF Init
<1>17. \A d \in CPUS : curenv[d] # NULL => d = c /\ curenv[d] = Env0
  BY <1>16, Zenon
<1>18. /\ env_parent_id = [e \in Envs |-> NULL] /\ env_status = [e \in Envs |-> "OK"]
       /\ env_ipc_dstva = [e \in Envs |-> NULL] /\ tlb = [d \in CPUS |-> NoTlb] /\ panicstr = NULL
  BY Zenon DEF Init
<1>19. TypeOK
  <2>1. curenv \in [CPUS -> Envs \cup {NULL}]
    BY <1>0, <1>16, Zenon
  <2>2. tlb \in [CPUS -> [VAs -> Mapping \cup {NULL}]]
    BY <1>18, Zenon DEF NoTlb
  <2>3. env_parent_id \in [Envs -> Envs \cup {NULL}] /\ env_status \in [Envs -> {"OK", "DYING"}]
    BY <1>18, Zenon
  <2>4. env_ipc_dstva \in [Envs -> VAs \cup {NULL, UTOP}]
    BY <1>18, Zenon
  <2> QED
    BY <1>15, <1>18, <2>1, <2>2, <2>3, <2>4, Zenon DEF TypeOK
<1>20. Sched
  BY <1>0, <1>15, <1>17, <1>18, Zenon DEF Sched
<1> QED
  BY <1>14, <1>19, <1>20, Zenon DEF IInv

-----------------------------------------------------------------------------
(* The properties *)

\* The inductive invariant holds in every state, whatever contract is broken.
THEOREM PmapInv == Spec => []IInv
BY InvInit, InvStep, PTL DEF Spec

\* RefCount, which the properties use, counts the same pointers.
LEMMA SameCount ==
    ASSUME NEW p, p # NULL
    PROVE  RefCount(p) = Count(mem, p)
<1>1. {e \in Live : mem.dir[e] = p} = Dirs(mem, p)
  BY Zenon DEF Live, Dirs
<1>2. {x \in Live \X PDES : mem.pde[mem.dir[x[1]]][x[2]] = p} = Tabs(mem, p)
  BY Zenon DEF Live, Tabs, Has, Pde
<1>3. {x \in Live \X VAs : Map(x[1], x[2]) # NULL /\ Map(x[1], x[2]).pp = p} = Uses(mem, p)
  BY Zenon DEF Live, Uses, Points, Has, Map, MapOf
<1> QED
  BY <1>1, <1>2, <1>3, Zenon DEF RefCount, Count

\* CountsExact (pp_ref and page_free_list of kern/pmap.c) holds for any number of CPUs,
\* environments, pages and addresses, also when user programs break the contract.
THEOREM CountsExactHolds == Spec => []CountsExact
<1>1. IInv => CountsExact
  <2>1. ASSUME IInv PROVE CountsExact
    <3>1. \A p \in Pages : /\ RefCount(p) = Count(mem, p) /\ mem.ref[p] = Count(mem, p)
                           /\ (Count(mem, p) = 0 <=> p \in mem.free)
      <4>1. \A p \in Pages : p # NULL
        BY PmapAssumption, Zenon DEF PmapAssumption
      <4>2. Good(mem, {})
        BY <2>1, Zenon DEF IInv
      <4> QED
        BY <4>1, <4>2, SameCount, CountsGood
    <3>2. RefsExact
      BY <3>1, Zenon DEF RefsExact
    <3>3. mem.free \in SUBSET Pages
      BY <2>1, MemFields, Zenon DEF IInv, TypeOK
    <3>4. FreeIffUnreferenced
      BY <3>1, <3>3, Zenon DEF FreeIffUnreferenced
    <3> QED
      BY <2>1, <3>2, <3>4, Zenon DEF CountsExact, IInv
  <2> QED
    BY <2>1, Zenon
<1> QED
  BY <1>1, PmapInv, PTL

\* TablesPrivate (page directories and page tables of kern/pmap.c) holds for any
\* number of CPUs, environments, pages and addresses.
THEOREM TablesPrivateHolds == Spec => []TablesPrivate
<1>1. IInv => TablesPrivate
  <2>1. SUFFICES ASSUME IInv, NEW e \in Live,
                        NEW t \in {mem.dir[e]} \cup {mem.pde[mem.dir[e]][i] : i \in PDES}, t # NULL
                 PROVE  RefCount(t) = 1
    BY Zenon DEF TablesPrivate
  <2>2. Tree(mem) /\ e \in Envs /\ Has(mem, e)
    BY <2>1, Zenon DEF IInv, Good, Live, Has
  <2>3. Uses(mem, t) = {}
    <3>1. ~NoTable(mem, t)
      BY <2>1, <2>2, Zenon DEF NoTable, Pde
    <3>2. \A f \in Envs, va \in VAs : Has(mem, f) => ~Points(mem, f, va, t)
      BY <2>2, <3>1, Zenon DEF Tree, Points
    <3> QED
      BY <3>2, Zenon DEF Uses
  <2>4. CASE t = mem.dir[e]
    <3>1. \A f \in Envs : Has(mem, f) => TreeAt(mem, f, e)
      BY <2>2, Zenon DEF Tree
    <3>2. Dirs(mem, t) = {e}
      BY <2>1, <2>2, <2>4, <3>1, Zenon DEF Dirs, TreeAt, Has
    <3>3. Tabs(mem, t) = {}
      BY <2>4, <3>1, Zenon DEF Tabs, TreeAt
    <3>4. Count(mem, t) = 1 + 0 + 0
      BY <2>3, <3>2, <3>3, FS_EmptySet, FS_Singleton, Zenon DEF Count
    <3> QED
      BY <2>1, <3>4, SameCount
  <2>5. CASE \E i \in PDES : t = mem.pde[mem.dir[e]][i]
    <3>1. PICK i \in PDES : t = Pde(mem, e, i)
      BY <2>5, Zenon DEF Pde
    <3>2. \A f \in Envs : Has(mem, f) => TreeAt(mem, e, f)
      BY <2>2, Zenon DEF Tree
    <3>3. Dirs(mem, t) = {}
      BY <2>1, <3>1, <3>2, Zenon DEF Dirs, TreeAt, Has
    <3>4. Tabs(mem, t) = {<<e, i>>}
      <4>1. \A f \in Envs, j \in PDES : Has(mem, f) /\ Pde(mem, f, j) = t <=> f = e /\ j = i
        BY <2>1, <2>2, <3>1, <3>2, Zenon DEF TreeAt
      <4> QED
        BY <2>2, <4>1 DEF Tabs
    <3>5. Count(mem, t) = 0 + 1 + 0
      BY <2>3, <3>3, <3>4, FS_EmptySet, FS_Singleton, Zenon DEF Count
    <3> QED
      BY <2>1, <3>5, SameCount
  <2> QED
    BY <2>1, <2>4, <2>5, Zenon
<1> QED
  BY <1>1, PmapInv, PTL

\* What a step does to the mappings of e.
LEMMA MapStepOf ==
    ASSUME IInv, NEW c \in CPUS, MemStep(c), NEW e \in Envs, NEW va \in VAs,
           Has(mem', e), MapOf(mem', e, va) # NULL
    PROVE  \/ Has(mem, e) /\ MapOf(mem', e, va) = MapOf(mem, e, va)
           \/ Edit(c, e, va) /\ Granted(MapOf(mem', e, va))
<1>1. CASE Same(mem, mem')
  BY <1>1, Zenon DEF Same, Has
<1>2. ASSUME NEW f \in Envs, NEW vb \in VAs, Edit(c, f, vb)
      PROVE  \/ Has(mem, e) /\ MapOf(mem', e, va) = MapOf(mem, e, va)
             \/ Edit(c, e, va) /\ Granted(MapOf(mem', e, va))
  <2>1. PICK x : Granted(x) /\ Changed(mem, mem', f, vb, x)
    BY <1>2, Zenon DEF Edit
  <2>2. Has(mem, e)
    BY <2>1, Zenon DEF Changed, Has
  <2>3. CASE e = f /\ va = vb
    BY <1>2, <2>1, <2>3, Zenon DEF Changed
  <2>4. CASE ~(e = f /\ va = vb)
    BY <2>1, <2>2, <2>4, Zenon DEF Changed
  <2> QED
    BY <2>3, <2>4, Zenon
<1>3. ASSUME NEW f \in Envs, ~Has(mem, f), Added(mem, mem', f)
      PROVE  Has(mem, e) /\ MapOf(mem', e, va) = MapOf(mem, e, va)
  BY <1>3, Zenon DEF Added, Has
<1>4. ASSUME NEW f \in Envs, Dropped(mem, mem', f)
      PROVE  Has(mem, e) /\ MapOf(mem', e, va) = MapOf(mem, e, va)
  BY <1>4, Zenon DEF Dropped, Has
<1> QED
  BY <1>1, <1>2, <1>3, <1>4, Zenon DEF MemStep

\* ReadOnlyStays (the permission checks of sys_page_map and sys_ipc_try_send) holds for
\* any number of CPUs, environments, pages and addresses.
THEOREM ReadOnlyStaysHolds == Spec => ReadOnlyStays
<1>1. IInv /\ [Next]_vars
         => [\A p \in Pages : Mapped(p) /\ ~Writable(p) => ~Writable(p)']_vars
  <2>1. ASSUME IInv, NEW c \in CPUS, MemStep(c), NEW p \in Pages, Mapped(p), Writable(p)'
        PROVE  Writable(p)
    <3>1. PICK e \in Envs, va \in VAs : /\ Has(mem', e) /\ MapOf(mem', e, va) # NULL
                                        /\ MapOf(mem', e, va).pp = p /\ MapOf(mem', e, va).w
      BY <2>1, Zenon DEF Writable, Live, Map, MapOf, Has
    <3>2. ASSUME NEW f \in Envs, NEW vb \in VAs, Has(mem, f), MapOf(mem, f, vb) # NULL,
                 MapOf(mem, f, vb).pp = p, MapOf(mem, f, vb).w
          PROVE  Writable(p)
      BY <3>2, Zenon DEF Writable, Live, Map, MapOf, Has
    <3>3. CASE Has(mem, e) /\ MapOf(mem', e, va) = MapOf(mem, e, va)
      BY <3>1, <3>2, <3>3, Zenon
    <3>4. CASE Granted(MapOf(mem', e, va))
      <4>1. ~Unused(mem, p)
        BY <2>1, Zenon DEF Mapped, Unused, Points, Live, Has, Map, MapOf
      <4>2. PICK f \in Envs, vb \in VAs : Has(mem, f) /\ Points(mem, f, vb, p) /\ MapOf(mem, f, vb).w
        BY <3>1, <3>4, <4>1, Zenon DEF Granted
      <4> QED
        BY <3>2, <4>2, Zenon DEF Points
    <3> QED
      BY <2>1, <3>1, <3>3, <3>4, MapStepOf, Zenon
  <2>2. ASSUME NEW c \in CPUS, NEW va \in VAs, user_access(c, va) PROVE mem' = mem
    BY <2>2, Zenon DEF user_access
  <2>3. ASSUME mem' = mem, NEW p \in Pages, Writable(p)' PROVE Writable(p)
    BY <2>3, Zenon DEF Writable, Live, Map
  <2>4. ASSUME NEW c \in CPUS, KernelStep(c) PROVE MemStep(c)
    BY <2>4, Zenon DEF KernelStep
  <2> QED
    BY <2>1, <2>2, <2>3, <2>4, NextStep, Zenon
<1> QED
  BY <1>1, PmapInv, PTL DEF Spec, ReadOnlyStays

\* EditsAuthorised (the checks of envid2env and of sys_ipc_try_send) holds for any
\* number of CPUs, environments, pages and addresses.
THEOREM EditsAuthorisedHolds == Spec => EditsAuthorised
<1>1. IInv /\ [Next]_vars
         => [\A e \in Envs : \A va \in VAs :
                mem.dir[e] # NULL /\ mem'.dir[e] # NULL /\ Map(e, va) # Map(e, va)' =>
                   \/ env_ipc_dstva[e] = va
                   \/ \E c \in CPUS : /\ curenv[c] # NULL /\ env_status[curenv[c]] # "DYING"
                                       /\ curenv[c] \in {e, env_parent_id[e]}]_vars
  <2>1. ASSUME NEW c \in CPUS, MemStep(c), NEW e \in Envs, NEW va \in VAs, Has(mem, e), Has(mem', e),
               MapOf(mem, e, va) # MapOf(mem', e, va)
        PROVE  Edit(c, e, va)
    <3>1. ~Same(mem, mem')
      BY <2>1, Zenon DEF Same
    <3>2. ASSUME NEW f \in Envs, NEW vb \in VAs, Edit(c, f, vb) PROVE Edit(c, e, va)
      <4>1. PICK x : Changed(mem, mem', f, vb, x)
        BY <3>2, Zenon DEF Edit
      <4>2. e = f /\ va = vb
        BY <2>1, <4>1, Zenon DEF Changed
      <4> QED
        BY <3>2, <4>2, Zenon
    <3>3. ASSUME NEW f \in Envs, ~Has(mem, f), Added(mem, mem', f) PROVE FALSE
      BY <2>1, <3>3, Zenon DEF Added
    <3>4. ASSUME NEW f \in Envs, Dropped(mem, mem', f) PROVE FALSE
      BY <2>1, <3>4, Zenon DEF Dropped
    <3> QED
      BY <2>1, <3>1, <3>2, <3>3, <3>4, Zenon DEF MemStep
  <2>2. ASSUME NEW c \in CPUS, NEW e \in Envs, NEW va \in VAs, Edit(c, e, va)
        PROVE  \/ env_ipc_dstva[e] = va
               \/ /\ curenv[c] # NULL /\ env_status[curenv[c]] # "DYING"
                  /\ curenv[c] \in {e, env_parent_id[e]}
    BY <2>2, Zenon DEF Edit, Trapped
  <2>3. ASSUME NEW c \in CPUS, NEW va \in VAs, user_access(c, va) PROVE mem' = mem
    BY <2>3, Zenon DEF user_access
  <2>4. ASSUME mem' = mem, NEW e \in Envs, NEW va \in VAs PROVE Map(e, va) = Map(e, va)'
    BY <2>4, Zenon DEF Map
  <2>5. ASSUME NEW c \in CPUS, KernelStep(c) PROVE MemStep(c)
    BY <2>5, Zenon DEF KernelStep
  <2>6. ASSUME NEW e \in Envs, NEW va \in VAs
        PROVE  Map(e, va) = MapOf(mem, e, va) /\ Map(e, va)' = MapOf(mem', e, va)
    BY Zenon DEF Map, MapOf
  <2>7. ASSUME NEW c \in CPUS, MemStep(c), NEW e \in Envs, NEW va \in VAs,
               mem.dir[e] # NULL, mem'.dir[e] # NULL, Map(e, va) # Map(e, va)'
        PROVE  \/ env_ipc_dstva[e] = va
               \/ /\ curenv[c] # NULL /\ env_status[curenv[c]] # "DYING"
                  /\ curenv[c] \in {e, env_parent_id[e]}
    <3>1. Has(mem, e) /\ Has(mem', e) /\ MapOf(mem, e, va) # MapOf(mem', e, va)
      BY <2>6, <2>7, Zenon DEF Has
    <3>2. Edit(c, e, va)
      BY <2>1, <2>7, <3>1, Zenon
    <3> QED
      BY <2>2, <3>2, Zenon
  <2>8. ASSUME IInv, Next PROVE UNCHANGED vars \/ mem' = mem \/ \E c \in CPUS : MemStep(c)
    BY <2>3, <2>5, <2>8, NextStep, Zenon
  <2> QED
    BY <2>4, <2>7, <2>8, Zenon
<1> QED
  BY <1>1, PmapInv, PTL DEF Spec, EditsAuthorised

\* TlbCoherent (tlb_invalidate() of kern/pmap.c, and the zombies of env_destroy()) holds
\* for any number of CPUs, environments, pages and addresses, provided that no program
\* changes the memory of a child that runs.
THEOREM TlbCoherentHolds ==
    ASSUME "remote_edit" \notin Lapses
    PROVE  Spec => []TlbCoherent
<1>1. Init => TlbCoherent
  <2>1. Init => tlb = [c \in CPUS |-> NoTlb]
    BY Zenon DEF Init
  <2>2. tlb = [c \in CPUS |-> NoTlb] => \A c \in CPUS, va \in VAs : tlb[c][va] = NULL
    BY Zenon DEF NoTlb
  <2> QED
    BY <2>1, <2>2, Zenon DEF TlbCoherent
<1>2. ASSUME IInv, TlbCoherent, NEW c \in CPUS, KernelStep(c) PROVE TlbCoherent'
  <2>1. ASSUME NEW d \in CPUS, NEW va \in VAs, tlb'[d][va] # NULL
        PROVE  Has(mem', curenv'[d]) /\ curenv'[d] \in Envs /\ tlb'[d][va] = MapOf(mem', curenv'[d], va)
    <3>0. /\ curenv \in [CPUS -> Envs \cup {NULL}]
          /\ tlb \in [CPUS -> [VAs -> Mapping \cup {NULL}]]
      BY <1>2, Zenon DEF IInv, TypeOK
    <3>1. PICK x : env_run(c, x)
      BY <1>2, Zenon DEF KernelStep, sched_yield
    <3>2. curenv' = [curenv EXCEPT ![c] = x] /\ tlb' = [tlb EXCEPT ![c] = NoTlb]
      BY <3>1, Zenon DEF env_run
    <3>3. d # c
      <4>1. SUFFICES ASSUME d = c PROVE FALSE
        BY Zenon
      <4>2. tlb'[c] = NoTlb
        BY <3>0, <3>2, Zenon
      <4> QED
        BY <2>1, <4>1, <4>2, Zenon DEF NoTlb
    <3>4. tlb'[d] = tlb[d] /\ curenv'[d] = curenv[d]
      BY <3>0, <3>2, <3>3, Zenon
    <3>5. PICK e : e = curenv[d]
      BY Zenon
    <3>6. e \in Envs /\ Has(mem, e) /\ tlb[d][va] = MapOf(mem, e, va) /\ e # NULL
      <4>1. curenv[d] \in Live /\ tlb[d][va] = Map(curenv[d], va)
        BY <1>2, <2>1, <3>4, Zenon DEF TlbCoherent
      <4>2. \A f \in Envs : f # NULL
        BY PmapAssumption, Zenon DEF PmapAssumption
      <4> QED
        BY <3>5, <4>1, <4>2, Zenon DEF Live, Has, Map, MapOf
    <3>7. Has(mem', e)
      BY <1>2, <3>3, <3>5, <3>6, Zenon DEF KernelStep, Stays
    <3>8. MapOf(mem', e, va) = MapOf(mem, e, va)
      <4>1. CASE Same(mem, mem')
        BY <3>6, <4>1, Zenon DEF Same
      <4>2. ASSUME NEW f \in Envs, NEW vb \in VAs, Edit(c, f, vb)
            PROVE  MapOf(mem', e, va) = MapOf(mem, e, va)
        <5>1. f # e
          BY <1>2, <3>3, <3>5, <3>6, <4>2, Zenon DEF Edit, Running, IInv, Sched
        <5>2. PICK y : Changed(mem, mem', f, vb, y)
          BY <4>2, Zenon DEF Edit
        <5> QED
          BY <3>6, <5>1, <5>2, Zenon DEF Changed
      <4>3. ASSUME NEW f \in Envs, Added(mem, mem', f) PROVE MapOf(mem', e, va) = MapOf(mem, e, va)
        BY <3>6, <4>3, Zenon DEF Added
      <4>4. ASSUME NEW f \in Envs, Dropped(mem, mem', f) PROVE MapOf(mem', e, va) = MapOf(mem, e, va)
        BY <3>6, <3>7, <4>4, Zenon DEF Dropped
      <4> QED
        BY <1>2, <4>1, <4>2, <4>3, <4>4, Zenon DEF KernelStep, MemStep
    <3> QED
      BY <3>4, <3>5, <3>6, <3>7, <3>8, Zenon
  <2> QED
    BY <2>1, Zenon DEF TlbCoherent, Live, Map, MapOf, Has
<1>3. ASSUME IInv, TlbCoherent, NEW c \in CPUS, NEW va \in VAs, user_access(c, va) PROVE TlbCoherent'
  <2>1. /\ mem' = mem /\ curenv' = curenv /\ curenv[c] # NULL
        /\ tlb' = [tlb EXCEPT ![c][va] = Map(curenv[c], va)]
    BY <1>3, Zenon DEF user_access, Map
  <2>2. curenv[c] \in Live
    BY <1>3, <2>1, Zenon DEF IInv, TypeOK, Sched, Live, Has
  <2>3. tlb \in [CPUS -> [VAs -> Mapping \cup {NULL}]]
    BY <1>3, Zenon DEF IInv, TypeOK
  <2>4. \A d \in CPUS, vb \in VAs :
           tlb'[d][vb] = IF d = c /\ vb = va THEN Map(curenv[c], va) ELSE tlb[d][vb]
    BY <2>1, <2>3, Zenon
  <2>5. Live' = Live /\ \A e \in Envs, vb \in VAs : Map(e, vb)' = Map(e, vb)
    BY <2>1, Zenon DEF Live, Map
  <2>6. \A e \in Live : e \in Envs
    BY Zenon DEF Live
  <2>7. ASSUME NEW d \in CPUS, NEW vb \in VAs, tlb'[d][vb] # NULL
        PROVE  curenv[d] \in Live /\ tlb'[d][vb] = Map(curenv[d], vb)
    <3>1. CASE d = c /\ vb = va
      BY <2>2, <2>4, <3>1, Zenon
    <3>2. CASE ~(d = c /\ vb = va)
      BY <1>3, <2>4, <2>7, <3>2, ZenonT(30) DEF TlbCoherent
    <3> QED
      BY <3>1, <3>2, Zenon
  <2> QED
    BY <2>1, <2>5, <2>6, <2>7, Zenon DEF TlbCoherent
<1>4. ASSUME TlbCoherent, UNCHANGED vars PROVE TlbCoherent'
  <2>1. mem' = mem /\ curenv' = curenv /\ tlb' = tlb
    BY <1>4, Zenon DEF vars
  <2> QED
    BY <1>4, <2>1, Zenon DEF TlbCoherent, Live, Map
<1>5. IInv /\ TlbCoherent /\ [Next]_vars => TlbCoherent'
  BY <1>2, <1>3, <1>4, NextStep, Zenon
<1> QED
  BY <1>1, <1>5, PmapInv, PTL DEF Spec
=============================================================================
