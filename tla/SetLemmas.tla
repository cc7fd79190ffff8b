------------------------------ MODULE SetLemmas ------------------------------
(***************************************************************************)
(* Facts about sets of numbers and positions in a ring that the proofs of   *)
(* several modules use.                                                     *)
(***************************************************************************)
EXTENDS Integers, FiniteSets, FiniteSetsExt, WellFoundedInduction, TLAPS

\* The least of some descriptors, slots, buffers or pages exists: what fd_alloc(),
\* openfile_alloc(), get_buffer() and fork() find when they look from 0 up.
LEMMA MinLeast ==
    ASSUME NEW S \in SUBSET Nat, S # {}
    PROVE  Min(S) \in S /\ \A y \in S : Min(S) =< y
<1> DEFINE R == {x \in Nat \X Nat : x[1] < x[2]}
<1>1. IsWellFoundedOn(R, Nat)
  BY NatLessThanWellFounded, Zenon DEF OpToRel
<1>2. S \subseteq Nat
  OBVIOUS
<1> HIDE DEF R
<1>3. PICK x \in S : \A y \in S : <<y, x>> \notin R
  BY <1>1, <1>2, WFMin, Zenon
<1>4. \A y \in S : ~(y < x)
  <2> SUFFICES ASSUME NEW y \in S, y < x PROVE FALSE
    OBVIOUS
  <2>1. <<y, x>> \in Nat \X Nat
    BY <1>2
  <2>2. <<y, x>> \in R
    BY <2>1 DEF R
  <2> QED
    BY <1>3, <2>2
<1>5. \A y \in S : x =< y
  BY <1>2, <1>4
<1> QED
  BY <1>5 DEF Min

\* It is one of them.
LEMMA MinIn ==
    ASSUME NEW S \in SUBSET Nat, S # {}
    PROVE  Min(S) \in S
BY MinLeast

\* The index after i in an array of N entries that is used as a ring.
LEMMA NextInRing ==
    ASSUME NEW N \in Nat \ {0}, NEW i \in 0 .. N - 1
    PROVE  /\ (i + 1) % N = IF i + 1 = N THEN 0 ELSE i + 1
           /\ (i + 1) % N \in 0 .. N - 1
OBVIOUS

\* Two positions less than N apart do not share an entry of the ring.
LEMMA ModApart ==
    ASSUME NEW N \in Nat \ {0}, NEW a \in Nat, NEW b \in Nat, a < b, b < a + N
    PROVE  a % N # b % N
<1>1. /\ a = N * (a \div N) + (a % N) /\ b = N * (b \div N) + (b % N)
      /\ a \div N \in Int /\ b \div N \in Int
  OBVIOUS
<1>2. SUFFICES ASSUME a % N = b % N PROVE FALSE
  OBVIOUS
<1> DEFINE k == (b \div N) - (a \div N)
<1>3. k \in Int /\ b - a = N * k
  BY <1>1, <1>2
<1> HIDE DEF k
<1>4. k >= 1 => N * k >= N
  BY <1>3
<1>5. k <= 0 => N * k <= 0
  BY <1>3
<1> QED
  BY <1>3, <1>4, <1>5
=============================================================================
