------------------------------ MODULE NetProofs ------------------------------
(***************************************************************************)
(* Proofs about module Net, for rings, buffers, pages and clients of any    *)
(* number.  The invariant has a part for packets that come in, one for      *)
(* packets that go out, one for the request buffers and one for the         *)
(* requests.                                                                *)
(***************************************************************************)
EXTENDS Net, SetLemmas, FiniteSetTheorems, TLAPS

(* Packets that come in. *)

\* How far descriptor i is after the one that e1000_receive() looks at next.
RxAfter(i) == IF i > rdt THEN i - rdt - 1 ELSE i - rdt - 1 + NRXQ

\* The packets that have left the ring: lwIP has them, or input() carries one, or the
\* server is about to hand one over.
Serving == ns_at = "serve" /\ req.whom = Input
Taken == Len(handed) + (IF in_at \in {"fill", "send"} THEN 1 ELSE 0) + (IF Serving THEN 1 ELSE 0)

\* The descriptors from that one to the head hold the next packets, in order, and
\* no other descriptor is done.
RxRing == /\ stored = Taken + RxAfter(rdh)
          /\ \A i \in Rx : rx_dd[i] <=> RxAfter(i) < RxAfter(rdh)
          /\ \A i \in Rx : RxAfter(i) < RxAfter(rdh) => rx_paks[i] = Taken + 1 + RxAfter(i)

\* What input() carries is the last packet taken; the page being served has the next
\* packet for lwIP, and input() does not write to it.
RxCarried == /\ in_at = "fill" => in_pkt = Taken
             /\ in_at = "send" => in_page \in Pages /\ page[in_page] = Taken
             /\ Serving => req.page \in Pages /\ page[req.page] = Len(handed) + 1
             /\ \A i \in 1 .. Len(handed) : handed[i] = i

RxControl == /\ kern = "sleep" => in_at = "recv"
             /\ waiting => in_at = "asleep"

RxInv == RxRing /\ RxCarried /\ RxControl

(* Packets that go out. *)

\* How far descriptor i is after the card's head.
TxAfter(i) == IF i >= tdh THEN i - tdh ELSE i - tdh + NTXQ

\* The descriptors from the head to the tail hold the next packets, in order, and
\* all others are done; output() or low_level_output() may have one more each.
TxRing == /\ \A i \in Tx : tx_dd[i] <=> ~(TxAfter(i) < TxAfter(tdt))
          /\ \A i \in Tx : TxAfter(i) < TxAfter(tdt) => tx_paks[i] = Len(wire) + 1 + TxAfter(i)

TxCarried == /\ made = Len(wire) + TxAfter(tdt) + (IF out_pkt # 0 THEN 1 ELSE 0)
                                               + (IF ns_at = "output" THEN 1 ELSE 0)
             /\ out_pkt # 0 => out_pkt = Len(wire) + TxAfter(tdt) + 1
             /\ \A i \in 1 .. Len(wire) : wire[i] = i

TxInv == TxRing /\ TxCarried

(* The request buffers. *)

\* A request has a buffer.
HasBuffer == req.va = NULL <=> ns_at \in {"get", "panic"}

\* A buffer is in use if it has the request or a thread waits with it, and no two are
\* the same.
BufInv == /\ ns_at # "panic"
          /\ \A i \in Bufs : buse[i] <=> i = req.va \/ \E c \in Clients : blocked[c] = i
          /\ \A c, d \in Clients : blocked[c] # NULL /\ blocked[c] = blocked[d] => c = d
          /\ \A c \in Clients : blocked[c] # NULL => blocked[c] # req.va

-----------------------------------------------------------------------------
(* Types. *)

\* The next page for input() is neither the one it sent last nor the one being served.
LEMMA NewPage ==
    ASSUME NEW p, NEW q
    PROVE  /\ Min(Pages \ {p, q}) \in Pages
           /\ Min(Pages \ {p, q}) # p /\ Min(Pages \ {p, q}) # q
<1>1. IsFiniteSet({p, q}) /\ Cardinality({p, q}) <= 2
  <2>1. IsFiniteSet({p}) /\ Cardinality({p}) = 1
    BY Zenon, FS_Singleton
  <2>2. {p, q} = {p} \cup {q}
    BY Zenon
  <2>3. /\ IsFiniteSet({p} \cup {q})
        /\ Cardinality({p} \cup {q}) = IF q \in {p} THEN Cardinality({p}) ELSE Cardinality({p}) + 1
    BY <2>1, FS_AddElement, Zenon
  <2> QED
    BY <2>1, <2>2, <2>3
<1>2. IsFiniteSet(Pages) /\ Cardinality(Pages) > 2 /\ Cardinality(Pages) \in Nat
  BY NetAssumption, FS_CardinalityType, Zenon DEF NetAssumption
<1>3. Pages \ {p, q} # {}
  <2> SUFFICES ASSUME Pages \subseteq {p, q} PROVE FALSE
    BY Zenon
  <2>1. Cardinality(Pages) <= Cardinality({p, q})
    BY <1>1, FS_Subset, Zenon
  <2>2. Cardinality({p, q}) \in Nat
    BY <1>1, FS_CardinalityType, Zenon
  <2> QED
    BY <1>1, <1>2, <2>1, <2>2
<1>4. Pages \ {p, q} \in SUBSET Nat
  BY NetAssumption, Zenon DEF NetAssumption
<1> QED
  BY <1>3, <1>4, MinIn, Zenon
\* The sizes of the rings, the bounds, and the successor of an index.
LEMMA Rings ==
    /\ NTXQ \in Nat \ {0, 1} /\ NRXQ \in Nat \ {0, 1}
    /\ MaxRx \in Nat /\ MaxTx \in Nat /\ MaxReq \in Nat
    /\ \A i \in Tx : (i + 1) % NTXQ = (IF i + 1 = NTXQ THEN 0 ELSE i + 1) /\ (i + 1) % NTXQ \in Tx
    /\ \A i \in Rx : (i + 1) % NRXQ = (IF i + 1 = NRXQ THEN 0 ELSE i + 1) /\ (i + 1) % NRXQ \in Rx
BY NetAssumption, NextInRing, Zenon DEF NetAssumption, Tx, Rx

\* get_buffer() finds a buffer that is not in use, if there is one.
LEMMA FreeBuffer ==
    ASSUME {i \in Bufs : ~buse[i]} # {}
    PROVE  Min({i \in Bufs : ~buse[i]}) \in {i \in Bufs : ~buse[i]}
<1>1. {i \in Bufs : ~buse[i]} \in SUBSET Nat
  BY NetAssumption DEF NetAssumption, Bufs
<1> QED
  BY <1>1, MinIn, Zenon

\* The four parts of the type invariant.
TxType == /\ tx_dd \in [Tx -> BOOLEAN] /\ tx_paks \in [Tx -> 0 .. MaxTx] /\ tdt \in Tx /\ tdh \in Tx
          /\ out_pkt \in 0 .. MaxTx /\ made \in 0 .. MaxTx /\ wire \in Seq(0 .. MaxTx)
RxType == /\ rx_dd \in [Rx -> BOOLEAN] /\ rx_paks \in [Rx -> 0 .. MaxRx] /\ rdt \in Rx /\ rdh \in Rx
          /\ stored \in 0 .. MaxRx /\ handed \in Seq(0 .. MaxRx)
InType == /\ irq \in BOOLEAN /\ kern \in {"free", "sleep", "ack"} /\ waiting \in BOOLEAN
          /\ in_at \in {"recv", "asleep", "fill", "send"} /\ in_pkt \in 0 .. MaxRx
          /\ in_page \in Pages \cup {NULL} /\ page \in [Pages -> 0 .. MaxRx]
NsType == /\ ns_at \in {"get", "recv", "serve", "output", "reply", "panic"}
          /\ req \in [va : Bufs \cup {NULL}, whom : Users \cup {Input, NULL}, page : Pages \cup {NULL}]
          /\ buse \in [Bufs -> BOOLEAN] /\ blocked \in [Clients -> Bufs \cup {NULL}]
          /\ user \in [Users -> {"idle", "send", "sent", "wait"}] /\ asked \in 0 .. MaxReq

\* e1000_init() and umain() leave everything well formed.
LEMMA TypeInit == Init => TypeOK
<1> SUFFICES ASSUME Init PROVE TxType /\ RxType /\ InType /\ NsType
  BY Zenon DEF TypeOK, TxType, RxType, InType, NsType
<1> USE DEF Init
<1>1. 0 \in Tx /\ 0 \in Rx /\ NRXQ - 1 \in Rx
  BY Rings DEF Tx, Rx
<1>2. 0 \in 0 .. MaxTx /\ 0 \in 0 .. MaxRx /\ 0 \in 0 .. MaxReq
  BY Rings
<1>3. TxType
  BY <1>1, <1>2 DEF TxType
<1>4. RxType
  BY <1>1, <1>2 DEF RxType
<1>5. InType
  BY <1>2, Zenon DEF InType
<1>6. NsType
  BY <1>2, Zenon DEF NsType, NoReq
<1> QED
  BY <1>3, <1>4, <1>5, <1>6, Zenon

\* Every step keeps everything well formed.
LEMMA TypeNext == TypeOK /\ RxInv /\ [Next]_vars => TypeOK'
<1> SUFFICES ASSUME TxType, RxType, InType, NsType, RxInv, [Next]_vars
             PROVE  TxType' /\ RxType' /\ InType' /\ NsType'
  BY Zenon DEF TypeOK, TxType, RxType, InType, NsType
<1> USE DEF txVars, rxVars, inVars, nsVars, userVars
<1>1. CASE card_receive
  <2>1. RxType'
    <3>1. stored + 1 \in 0 .. MaxRx
      <4>1. stored < MaxRx /\ stored \in 0 .. MaxRx
        BY <1>1, Zenon DEF card_receive, RxType
      <4> QED
        BY <4>1, Rings
    <3> QED
      BY <1>1, <3>1, Rings, Zenon DEF card_receive, RxType
  <2>2. TxType' /\ InType' /\ NsType'
    BY <1>1 DEF card_receive, TxType, InType, NsType
  <2> QED
    BY <2>1, <2>2, Zenon
<1>2. CASE card_transmit
  <2>1. TxType'
    BY <1>2, Rings DEF card_transmit, TxType
  <2>2. RxType' /\ InType' /\ NsType'
    BY <1>2 DEF card_transmit, RxType, InType, NsType
  <2> QED
    BY <2>1, <2>2, Zenon
<1>3. CASE sys_e1000_receive
  <2>1. RxType'
    BY <1>3, Rings, Zenon DEF sys_e1000_receive, RxType
  <2>2. InType'
    BY <1>3, Rings DEF sys_e1000_receive, InType, RxType
  <2>3. TxType' /\ NsType'
    BY <1>3, Zenon DEF sys_e1000_receive, TxType, NsType
  <2> QED
    BY <2>1, <2>2, <2>3, Zenon
<1>4. CASE sys_e1000_receive_sleep
  <2>1. InType'
    BY <1>4, Zenon DEF sys_e1000_receive_sleep, InType
  <2>2. TxType' /\ RxType' /\ NsType'
    BY <1>4, Zenon DEF sys_e1000_receive_sleep, TxType, RxType, NsType
  <2> QED
    BY <2>1, <2>2, Zenon
<1>5. CASE e1000_trap_handler
  <2>1. InType'
    BY <1>5, Zenon DEF e1000_trap_handler, InType, wake
  <2>2. TxType' /\ RxType' /\ NsType'
    BY <1>5, Zenon DEF e1000_trap_handler, wake, TxType, RxType, NsType
  <2> QED
    BY <2>1, <2>2, Zenon
<1>6. CASE clear_e1000_interrupt
  <2>1. InType'
    BY <1>6, Zenon DEF clear_e1000_interrupt, InType
  <2>2. TxType' /\ RxType' /\ NsType'
    BY <1>6, Zenon DEF clear_e1000_interrupt, TxType, RxType, NsType
  <2> QED
    BY <2>1, <2>2, Zenon
<1>7. CASE sched_yield_idle
  <2>1. InType'
    BY <1>7, Zenon DEF sched_yield_idle, InType, wake
  <2>2. TxType' /\ RxType' /\ NsType'
    BY <1>7, Zenon DEF sched_yield_idle, wake, TxType, RxType, NsType
  <2> QED
    BY <2>1, <2>2, Zenon
<1>8. CASE input
  <2>1. InType'
    BY <1>8, NewPage, Zenon DEF input, InType
  <2>2. TxType' /\ RxType' /\ NsType'
    BY <1>8, Zenon DEF input, TxType, RxType, NsType
  <2> QED
    BY <2>1, <2>2, Zenon
<1>9. CASE input_ipc_send
  <2>1. InType'
    BY <1>9, Zenon DEF input_ipc_send, InType
  <2>2. NsType'
    BY <1>9, Zenon DEF input_ipc_send, NsType, InType
  <2>3. TxType' /\ RxType'
    BY <1>9, Zenon DEF input_ipc_send, TxType, RxType
  <2> QED
    BY <2>1, <2>2, <2>3, Zenon
<1>10. CASE get_buffer
  <2>1. NsType'
    <3>1. CASE {i \in Bufs : ~buse[i]} = {}
      BY <1>10, <3>1, Zenon DEF get_buffer, NsType
    <3>2. CASE {i \in Bufs : ~buse[i]} # {}
      <4> DEFINE b == Min({i \in Bufs : ~buse[i]})
      <4>1. b \in Bufs
        BY <3>2, FreeBuffer, Zenon
      <4>2. /\ buse' = [buse EXCEPT ![b] = TRUE] /\ ns_at' = "recv"
            /\ req' = [NoReq EXCEPT !.va = b] /\ UNCHANGED <<blocked, user, asked>>
        BY <1>10, <3>2, Zenon DEF get_buffer
      <4> HIDE DEF b
      <4> QED
        BY <4>1, <4>2, Zenon DEF NsType, NoReq
    <3> QED
      BY <3>1, <3>2, Zenon
  <2>2. TxType' /\ RxType' /\ InType'
    BY <1>10, Zenon DEF get_buffer, TxType, RxType, InType
  <2> QED
    BY <2>1, <2>2, Zenon
<1>11. CASE serve_input
  <2>1. RxType'
    BY <1>11 DEF serve_input, RxType, RxInv, RxCarried, Serving, InType
  <2>2. NsType'
    <3>1. buse' \in [Bufs -> BOOLEAN]
      BY <1>11, Zenon DEF serve_input, NsType, put_buffer
    <3>2. UNCHANGED <<user, asked>> /\ ns_at' \in {"get", "reply"}
      BY <1>11, Zenon DEF serve_input
    <3>3. blocked' \in [Clients -> Bufs \cup {NULL}]
      BY <1>11, Zenon DEF serve_input, NsType
    <3>4. req' \in [va : Bufs \cup {NULL}, whom : Users \cup {Input, NULL}, page : Pages \cup {NULL}]
      BY <1>11 DEF serve_input, NsType, NoReq, Users
    <3> QED
      BY <3>1, <3>2, <3>3, <3>4, Zenon DEF NsType
  <2>3. TxType' /\ InType'
    BY <1>11, Zenon DEF serve_input, TxType, InType
  <2> QED
    BY <2>1, <2>2, <2>3, Zenon
<1>12. CASE serve_request
  <2>1. TxType'
    BY <1>12, Rings DEF serve_request, TxType
  <2>2. NsType'
    BY <1>12 DEF serve_request, NsType, NoReq
  <2>3. RxType' /\ InType'
    BY <1>12, Zenon DEF serve_request, RxType, InType
  <2> QED
    BY <2>1, <2>2, <2>3, Zenon
<1>13. CASE low_level_output
  <2>1. TxType'
    BY <1>13, Zenon DEF low_level_output, TxType
  <2>2. NsType'
    BY <1>13, Zenon DEF low_level_output, NsType
  <2>3. RxType' /\ InType'
    BY <1>13, Zenon DEF low_level_output, RxType, InType
  <2> QED
    BY <2>1, <2>2, <2>3, Zenon
<1>14. CASE reply
  <2>1. NsType'
    BY <1>14, Zenon DEF reply, NsType, NoReq, put_buffer
  <2>2. TxType' /\ RxType' /\ InType'
    BY <1>14, Zenon DEF reply, TxType, RxType, InType
  <2> QED
    BY <2>1, <2>2, Zenon
<1>15. CASE sys_e1000_transmit
  <2>1. TxType'
    <3>1. (tdt + 1) % NTXQ \in Tx /\ 0 \in 0 .. MaxTx
      BY Rings DEF TxType
    <3>2. CASE tx_dd[tdt]
      BY <1>15, <3>1, <3>2, Zenon DEF sys_e1000_transmit, TxType, transmit
    <3>3. CASE ~tx_dd[tdt]
      BY <1>15, <3>1, <3>3, Zenon DEF sys_e1000_transmit, TxType, transmit
    <3> QED
      BY <3>2, <3>3, Zenon
  <2>2. RxType' /\ InType' /\ NsType'
    BY <1>15 DEF sys_e1000_transmit, transmit, RxType, InType, NsType
  <2> QED
    BY <2>1, <2>2, Zenon
<1>16. ASSUME NEW u \in Users, ipc_send(u) \/ nsipc(u) \/ ipc_recv(u)
      PROVE  TxType' /\ RxType' /\ InType' /\ NsType'
  <2>1. NsType'
    BY <1>16, Rings DEF ipc_send, send, nsipc, ipc_recv, NsType
  <2>2. TxType' /\ RxType' /\ InType'
    BY <1>16 DEF ipc_send, send, nsipc, ipc_recv, TxType, RxType, InType
  <2> QED
    BY <2>1, <2>2, Zenon
<1>17. CASE UNCHANGED vars
  <2>1. TxType' /\ RxType'
    BY <1>17, Zenon DEF vars, TxType, RxType
  <2>2. InType' /\ NsType'
    BY <1>17 DEF vars, InType, NsType
  <2> QED
    BY <2>1, <2>2, Zenon
<1> QED
  BY <1>1, <1>2, <1>3, <1>4, <1>5, <1>6, <1>7, <1>8, <1>9, <1>10, <1>11, <1>12, <1>13, <1>14, <1>15, <1>16, <1>17, Zenon
  DEF Next, driver, server

-----------------------------------------------------------------------------
(* Packets that go out. *)

\* With empty rings there is nothing on the way.
LEMMA TxInit == Init => TxInv
BY Rings DEF Init, TxInv, TxRing, TxCarried, TxAfter, Tx

\* The card sends the packet at its head: the next one.
LEMMA CardTransmits ==
    ASSUME TxType, TxInv, card_transmit
    PROVE  /\ TxInv'
           /\ wire' = Append(wire, Len(wire) + 1) /\ Len(wire) < made /\ UNCHANGED made
<1> USE DEF TxType, TxInv, TxRing, TxCarried, txVars, nsVars
<1>1. /\ tdh # tdt /\ wire' = Append(wire, tx_paks[tdh])
      /\ tx_dd' = [tx_dd EXCEPT ![tdh] = TRUE]
      /\ tdh' = IF tdh + 1 = NTXQ THEN 0 ELSE tdh + 1
      /\ UNCHANGED <<tx_paks, tdt, out_pkt, ns_at, made>>
  BY Rings, Zenon DEF card_transmit
<1>2. TxAfter(tdh) = 0 /\ TxAfter(tdt) \in Nat \ {0}
  BY <1>1, Rings DEF TxAfter, Tx
<1>3. tx_paks[tdh] = Len(wire) + 1
  BY <1>2
<1>4. Len(wire') = Len(wire) + 1 /\ \A i \in 1 .. Len(wire') : wire'[i] = i
  BY <1>1, <1>3
<1>5. \A i \in Tx : IF i = tdh THEN TxAfter(i)' = NTXQ - 1 ELSE TxAfter(i)' = TxAfter(i) - 1
  BY <1>1, Rings DEF TxAfter, Tx
<1>6. TxAfter(tdt)' = TxAfter(tdt) - 1 /\ TxAfter(tdt) <= NTXQ - 1
  BY <1>1, <1>5, Rings DEF TxAfter, Tx
<1>7. \A i \in Tx : i # tdh => TxAfter(i) \in Nat \ {0}
  BY Rings DEF TxAfter, Tx
<1>8. \A i \in Tx : tx_dd'[i] <=> ~(TxAfter(i)' < TxAfter(tdt)')
  BY <1>1, <1>2, <1>5, <1>6, <1>7, Rings
<1>9. \A i \in Tx : TxAfter(i)' < TxAfter(tdt)' => tx_paks'[i] = Len(wire') + 1 + TxAfter(i)'
  <2> SUFFICES ASSUME NEW i \in Tx, TxAfter(i)' < TxAfter(tdt)'
               PROVE  tx_paks[i] = Len(wire) + 1 + 1 + (TxAfter(i) - 1) /\ TxAfter(i)' = TxAfter(i) - 1
    BY <1>1, <1>4, Zenon
  <2>1. i # tdh
    BY <1>5, <1>6, <1>2, Rings
  <2>2. TxAfter(i)' = TxAfter(i) - 1 /\ TxAfter(i) < TxAfter(tdt)
    BY <1>2, <1>5, <1>6, <1>7, <2>1
  <2>3. tx_paks[i] = Len(wire) + 1 + TxAfter(i)
    BY <2>2, Zenon
  <2>4. Len(wire) \in Nat /\ TxAfter(i) \in Nat
    BY <1>7, <2>1
  <2> HIDE DEF TxRing, TxCarried, TxType
  <2> QED
    BY <2>2, <2>3, <2>4
<1>10. TxCarried'
  <2>1. Len(wire) \in Nat
    OBVIOUS
  <2>2. /\ made' = Len(wire)' + TxAfter(tdt)' + (IF out_pkt' # 0 THEN 1 ELSE 0)
                                             + (IF ns_at' = "output" THEN 1 ELSE 0)
        /\ out_pkt' # 0 => out_pkt' = Len(wire)' + TxAfter(tdt)' + 1
    BY <1>1, <1>2, <1>4, <1>6, <2>1
  <2> QED
    BY <1>4, <2>2, Zenon
<1>11. wire' = Append(wire, Len(wire) + 1) /\ Len(wire) < made
  BY <1>1, <1>2, <1>3
<1> QED
  BY <1>1, <1>8, <1>9, <1>10, <1>11, Zenon

\* The driver puts the packet after those on the way; the ring is not full.
LEMMA DriverTransmits ==
    ASSUME TxType, TxInv, Lapses = {}, sys_e1000_transmit
    PROVE  TxInv'
<1> USE DEF TxType, TxInv, TxRing, TxCarried, txVars, nsVars
<1>1. out_pkt # 0 /\ (tdt + 1) % NTXQ # tdh
  BY Zenon DEF sys_e1000_transmit, transmit
<1>2. TxAfter(tdt) + 1 < NTXQ /\ TxAfter(tdt) \in Nat
  BY <1>1, Rings DEF TxAfter, Tx
<1>3. tx_dd[tdt]
  BY <1>2
<1>4. /\ tx_paks' = [tx_paks EXCEPT ![tdt] = out_pkt]
      /\ tx_dd' = [tx_dd EXCEPT ![tdt] = FALSE]
      /\ tdt' = IF tdt + 1 = NTXQ THEN 0 ELSE tdt + 1
      /\ out_pkt' = 0 /\ UNCHANGED <<tdh, wire, made, ns_at>>
  BY <1>3, Rings, Zenon DEF sys_e1000_transmit, transmit
<1>5. \A i \in Tx : /\ TxAfter(i)' = TxAfter(i) /\ TxAfter(i) \in Nat
                    /\ i # tdt => TxAfter(i) # TxAfter(tdt)
  <2>1. tdh' = tdh /\ tdh \in 0 .. NTXQ - 1 /\ tdt \in 0 .. NTXQ - 1 /\ NTXQ \in Nat
    BY <1>4, Rings, Zenon DEF Tx
  <2> SUFFICES ASSUME NEW i \in 0 .. NTXQ - 1
               PROVE  /\ TxAfter(i)' = TxAfter(i) /\ TxAfter(i) \in Nat
                      /\ i # tdt => TxAfter(i) # TxAfter(tdt)
    BY Zenon DEF Tx
  <2>2. TxAfter(i)' = TxAfter(i)
    BY <2>1, Zenon DEF TxAfter
  <2> QED
    BY <2>1, <2>2 DEF TxAfter
<1>6. TxAfter(tdt)' = TxAfter(tdt) + 1
  BY <1>2, <1>4, Rings DEF TxAfter, Tx
<1>7. \A i \in Tx : tx_dd'[i] <=> ~(TxAfter(i)' < TxAfter(tdt)')
  BY <1>2, <1>4, <1>5, <1>6
<1>8. \A i \in Tx : TxAfter(i)' < TxAfter(tdt)' => tx_paks'[i] = Len(wire') + 1 + TxAfter(i)'
  <2> SUFFICES ASSUME NEW i \in Tx, TxAfter(i) < TxAfter(tdt) + 1
               PROVE  tx_paks'[i] = Len(wire) + 1 + TxAfter(i)
    BY <1>4, <1>5, <1>6, Zenon
  <2>1. CASE i = tdt
    BY <1>1, <1>2, <1>4, <2>1
  <2>2. CASE i # tdt
    <3>1. TxAfter(i) < TxAfter(tdt)
      BY <1>2, <1>5, <2>2
    <3> QED
      BY <1>4, <2>2, <3>1, Zenon
  <2> QED
    BY <2>1, <2>2, Zenon
<1>9. TxCarried'
  BY <1>1, <1>2, <1>4, <1>6
<1> QED
  BY <1>7, <1>8, <1>9, Zenon

\* The other steps: a packet is made, or passed on to output(), or none of it moves.
LEMMA TxNext == TxType /\ TxInv /\ Lapses = {} /\ [Next]_vars => TxInv'
<1> SUFFICES ASSUME TxType, TxInv, Lapses = {}, [Next]_vars PROVE TxInv'
  BY Zenon
<1>1. CASE card_transmit
  BY <1>1, CardTransmits, Zenon
<1>2. CASE sys_e1000_transmit
  BY <1>2, DriverTransmits, Zenon
<1> USE DEF TxInv, txVars, rxVars, inVars, nsVars, userVars
<1>3. ASSUME UNCHANGED <<txVars, out_pkt, made>>, ns_at' = "output" <=> ns_at = "output"
      PROVE  TxInv'
  <2>1. TxRing'
    BY <1>3, Zenon DEF TxRing, TxAfter
  <2>2. TxCarried'
    BY <1>3, Zenon DEF TxCarried, TxAfter
  <2> QED
    BY <2>1, <2>2, Zenon
<1>4. CASE serve_request /\ made' # made
  <2>1. /\ ns_at = "serve" /\ ns_at' = "output" /\ made' = made + 1 /\ UNCHANGED <<txVars, out_pkt>>
    BY <1>4, Zenon DEF serve_request
  <2>2. TxAfter(tdt)' = TxAfter(tdt) /\ TxAfter(tdt) \in Nat /\ Len(wire) \in Nat
    BY <2>1, Rings DEF TxAfter, TxType, Tx
  <2>3. TxRing'
    BY <2>1, Zenon DEF TxRing, TxAfter
  <2>4. TxCarried'
    BY <2>1, <2>2 DEF TxCarried
  <2> QED
    BY <2>3, <2>4, Zenon
<1>5. CASE serve_request /\ made' = made
  <2>1. ns_at = "serve" /\ ns_at' # "output" /\ UNCHANGED <<txVars, out_pkt>>
    BY <1>5 DEF serve_request, TxType
  <2> QED
    BY <1>3, <1>5, <2>1, Zenon
<1>6. CASE low_level_output
  <2>1. /\ ns_at = "output" /\ ns_at' = "reply" /\ out_pkt = 0 /\ out_pkt' = made
        /\ UNCHANGED <<txVars, made>>
    BY <1>6, Zenon DEF low_level_output
  <2>2. TxAfter(tdt)' = TxAfter(tdt) /\ TxAfter(tdt) \in Nat /\ Len(wire) \in Nat
    BY <2>1, Rings DEF TxAfter, TxType, Tx
  <2>3. TxRing'
    BY <2>1, Zenon DEF TxRing, TxAfter
  <2>4. TxCarried'
    BY <2>1, <2>2 DEF TxCarried
  <2> QED
    BY <2>3, <2>4, Zenon
<1>7. CASE card_receive \/ driver \/ sched_yield_idle \/ sys_e1000_receive \/ input
  BY <1>3, <1>7, Zenon DEF card_receive, driver, sys_e1000_receive_sleep, e1000_trap_handler,
                    clear_e1000_interrupt, sched_yield_idle, sys_e1000_receive, input
<1>8. CASE input_ipc_send \/ get_buffer \/ serve_input \/ reply
  BY <1>3, <1>8, Zenon DEF input_ipc_send, get_buffer, serve_input, reply
<1>9. ASSUME NEW u \in Users, ipc_send(u) \/ nsipc(u) \/ ipc_recv(u) PROVE TxInv'
  BY <1>3, <1>9, Zenon DEF ipc_send, send, nsipc, ipc_recv
<1>10. CASE UNCHANGED vars
  BY <1>3, <1>10, Zenon DEF vars
<1> QED
  BY <1>1, <1>2, <1>4, <1>5, <1>6, <1>7, <1>8, <1>9, <1>10 DEF Next, server

-----------------------------------------------------------------------------
(* Packets that come in. *)

\* The positions of the descriptors, and of the head, after the tail.
LEMMA RxPositions ==
    ASSUME RxType
    PROVE  /\ \A i \in Rx : RxAfter(i) \in 0 .. NRXQ - 1
           /\ \A i, j \in Rx : RxAfter(i) = RxAfter(j) => i = j
           /\ Len(handed) \in Nat /\ Taken \in Nat /\ Taken <= Len(handed) + 2
<1>1. \A i \in Rx : RxAfter(i) \in 0 .. NRXQ - 1
  BY Rings DEF RxAfter, RxType, Rx
<1>2. \A i, j \in Rx : RxAfter(i) = RxAfter(j) => i = j
  BY Rings DEF RxAfter, RxType, Rx
<1>3. Len(handed) \in Nat
  BY DEF RxType
<1>4. Taken \in Nat /\ Taken <= Len(handed) + 2
  <2> DEFINE a == IF in_at \in {"fill", "send"} THEN 1 ELSE 0
             b == IF Serving THEN 1 ELSE 0
  <2>1. a \in {0, 1} /\ b \in {0, 1} /\ Taken = Len(handed) + a + b
    BY Zenon DEF Taken
  <2> HIDE DEF a, b
  <2>2. Len(handed) + a + b \in Nat /\ Len(handed) + a + b <= Len(handed) + 2
    BY <1>3, <2>1
  <2> QED
    BY <2>1, <2>2, Zenon
<1> QED
  BY <1>1, <1>2, <1>3, <1>4, Zenon

\* The card owns all descriptors but the last, and has stored nothing.
LEMMA RxInit == Init => RxInv
<1> SUFFICES ASSUME Init PROVE RxInv
  BY Zenon
<1> USE DEF Init
<1>1. ~Serving /\ Taken = 0
  BY DEF Serving, Taken
<1>2. RxAfter(rdh) = 0 /\ \A i \in Rx : RxAfter(i) \in Nat
  BY Rings DEF RxAfter, Rx
<1>3. RxRing
  BY <1>1, <1>2 DEF RxRing
<1>4. RxCarried /\ RxControl
  BY <1>1 DEF RxCarried, RxControl
<1> QED
  BY <1>3, <1>4, Zenon DEF RxInv

\* The card stores the next packet at its head.
LEMMA CardReceives ==
    ASSUME RxType, RxInv, card_receive
    PROVE  /\ RxInv' /\ UNCHANGED handed
           /\ stored' = stored + 1 /\ stored < MaxRx /\ stored - Len(handed) < NRXQ + 1
<1> USE DEF RxInv
<1>1. /\ rdh # rdt /\ rx_paks' = [rx_paks EXCEPT ![rdh] = stored + 1]
      /\ rx_dd' = [rx_dd EXCEPT ![rdh] = TRUE]
      /\ rdh' = IF rdh + 1 = NRXQ THEN 0 ELSE rdh + 1
      /\ stored' = stored + 1 /\ stored < MaxRx
      /\ UNCHANGED <<rdt, in_at, in_pkt, in_page, kern, waiting, page, ns_at, req, handed>>
  BY Rings, Zenon DEF card_receive, RxType, inVars, nsVars
<1>2. Taken' = Taken /\ (Serving' <=> Serving)
  BY <1>1, Zenon DEF Taken, Serving
<1>3. \A i \in Rx : RxAfter(i)' = RxAfter(i)
  BY <1>1, Zenon DEF RxAfter
<1>4. RxAfter(rdh)' = RxAfter(rdh) + 1 /\ RxAfter(rdh) + 1 < NRXQ
  BY <1>1, Rings DEF RxAfter, RxType, Rx
<1>5. stored' = Taken' + RxAfter(rdh)'
  BY <1>1, <1>2, <1>4, RxPositions DEF RxRing, RxType
<1>6. \A i \in Rx : rx_dd'[i] <=> RxAfter(i)' < RxAfter(rdh)'
  <2> SUFFICES ASSUME NEW i \in Rx PROVE rx_dd'[i] <=> RxAfter(i) < RxAfter(rdh) + 1
    BY <1>3, <1>4, Zenon
  <2>1. CASE i = rdh
    BY <1>1, <2>1, RxPositions DEF RxType
  <2>2. CASE i # rdh
    <3>1. rdh \in Rx /\ RxAfter(i) # RxAfter(rdh)
      BY <2>2, RxPositions, Zenon DEF RxType
    <3>2. rx_dd'[i] = rx_dd[i]
      BY <1>1, <2>2, Zenon DEF RxType
    <3>3. rx_dd[i] <=> RxAfter(i) < RxAfter(rdh)
      BY Zenon DEF RxRing
    <3> QED
      BY <3>1, <3>2, <3>3, RxPositions
  <2> QED
    BY <2>1, <2>2, Zenon
<1>7. \A i \in Rx : RxAfter(i)' < RxAfter(rdh)' => rx_paks'[i] = Taken' + 1 + RxAfter(i)'
  <2> SUFFICES ASSUME NEW i \in Rx, RxAfter(i) < RxAfter(rdh) + 1
               PROVE  rx_paks'[i] = Taken + 1 + RxAfter(i)
    BY <1>2, <1>3, <1>4, Zenon
  <2>1. CASE i = rdh
    <3>1. rx_paks'[i] = stored + 1
      BY <1>1, <2>1, Zenon DEF RxType
    <3> QED
      BY <2>1, <3>1, RxPositions DEF RxRing
  <2>2. CASE i # rdh
    <3>1. rdh \in Rx /\ RxAfter(i) # RxAfter(rdh)
      BY <2>2, RxPositions, Zenon DEF RxType
    <3>2. RxAfter(i) < RxAfter(rdh)
      BY <3>1, RxPositions
    <3> QED
      BY <1>1, <2>2, <3>2, Zenon DEF RxRing, RxType
  <2> QED
    BY <2>1, <2>2, Zenon
<1>8. RxRing'
  BY <1>5, <1>6, <1>7, Zenon DEF RxRing
<1>9. RxCarried' /\ RxControl'
  BY <1>1, <1>2, Zenon DEF RxCarried, RxControl
<1>10. stored - Len(handed) < NRXQ + 1
  <2>1. rdh \in Rx /\ stored = Taken + RxAfter(rdh)
    BY Zenon DEF RxRing, RxType
  <2> QED
    BY <1>4, <2>1, RxPositions, Rings
<1> QED
  BY <1>1, <1>8, <1>9, <1>10, Zenon

\* e1000_receive() takes the packet of the descriptor after the tail: the next one.
LEMMA DriverReceives ==
    ASSUME RxType, RxInv, sys_e1000_receive
    PROVE  RxInv'
<1> USE DEF RxInv
<1> DEFINE k == IF rdt + 1 = NRXQ THEN 0 ELSE rdt + 1
<1>1. /\ in_at = "recv" /\ kern = "free" /\ k \in Rx /\ (rdt + 1) % NRXQ = k
      /\ UNCHANGED <<rx_paks, rdh, stored, in_page, waiting, page, ns_at, req, handed>>
  BY Rings, Zenon DEF sys_e1000_receive, RxType, inVars, nsVars
<1>2. RxAfter(k) = 0 /\ Serving' = Serving
  BY <1>1, Rings DEF RxAfter, RxType, Rx, Serving
<1>3. CASE rx_dd[k]
  <2>1. /\ in_pkt' = rx_paks[k] /\ rx_dd' = [rx_dd EXCEPT ![k] = FALSE]
        /\ rdt' = k /\ in_at' = "fill" /\ kern' = kern
    BY <1>1, <1>3, Zenon DEF sys_e1000_receive
  <2>2. 0 < RxAfter(rdh) /\ rx_paks[k] = Taken + 1
    BY <1>1, <1>2, <1>3, RxPositions DEF RxRing
  <2>3. Taken' = Taken + 1
    BY <1>1, <1>2, <2>1, RxPositions DEF Taken
  <2>4. \A i \in Rx : IF i = k THEN RxAfter(i)' = NRXQ - 1 ELSE RxAfter(i)' = RxAfter(i) - 1
    BY <2>1, Rings DEF RxAfter, RxType, Rx
  <2>5. rdh \in Rx /\ rdh # k /\ RxAfter(rdh)' = RxAfter(rdh) - 1
    <3>1. rdh \in Rx /\ rdh # k
      BY <1>2, <2>2 DEF RxType
    <3> QED
      BY <1>1, <2>1, <3>1, Rings, SMTT(20) DEF RxAfter, RxType, Rx
  <2> HIDE DEF k
  <2>6. stored' = Taken' + RxAfter(rdh)'
    BY <1>1, <2>3, <2>5, RxPositions DEF RxRing
  <2>7. \A i \in Rx : rx_dd'[i] <=> RxAfter(i)' < RxAfter(rdh)'
    <3> SUFFICES ASSUME NEW i \in Rx PROVE rx_dd'[i] <=> RxAfter(i)' < RxAfter(rdh)'
      BY Zenon
    <3>1. CASE i = k
      BY <2>1, <2>4, <2>5, <3>1, RxPositions, Rings DEF RxType
    <3>2. CASE i # k
      <4>1. rx_dd'[i] = rx_dd[i] /\ RxAfter(i)' = RxAfter(i) - 1
        BY <2>1, <2>4, <3>2, Zenon DEF RxType
      <4>2. rx_dd[i] <=> RxAfter(i) < RxAfter(rdh)
        BY Zenon DEF RxRing
      <4> QED
        BY <2>5, <4>1, <4>2, RxPositions
    <3> QED
      BY <3>1, <3>2, Zenon
  <2>8. \A i \in Rx : RxAfter(i)' < RxAfter(rdh)' => rx_paks'[i] = Taken' + 1 + RxAfter(i)'
    <3> SUFFICES ASSUME NEW i \in Rx, RxAfter(i)' < RxAfter(rdh)'
                 PROVE  rx_paks[i] = Taken + 1 + 1 + RxAfter(i)'
      BY <1>1, <2>3, Zenon
    <3>1. i # k
      BY <2>4, <2>5, RxPositions, Rings
    <3>2. RxAfter(i)' = RxAfter(i) - 1
      BY <2>4, <3>1, Zenon
    <3>3. RxAfter(i) < RxAfter(rdh)
      BY <2>5, <3>2, RxPositions
    <3>4. rx_paks[i] = Taken + 1 + RxAfter(i)
      BY <3>3, Zenon DEF RxRing
    <3> QED
      BY <3>2, <3>4, RxPositions
  <2>9. RxCarried'
    BY <1>1, <1>2, <2>1, <2>2, <2>3, Zenon DEF RxCarried
  <2>10. RxControl'
    BY <1>1, <2>1, Zenon DEF RxControl
  <2> QED
    BY <2>6, <2>7, <2>8, <2>9, <2>10, Zenon DEF RxRing
<1>4. CASE ~rx_dd[k]
  <2>1. kern' = "sleep" /\ UNCHANGED <<rx_dd, rdt, in_at, in_pkt>>
    BY <1>1, <1>4, Zenon DEF sys_e1000_receive
  <2>2. Taken' = Taken
    BY <1>1, <1>2, <2>1, Zenon DEF Taken
  <2>3. RxRing'
    BY <1>1, <2>1, <2>2, Zenon DEF RxRing, RxAfter
  <2>4. RxCarried' /\ RxControl'
    BY <1>1, <1>2, <2>1, <2>2 DEF RxCarried, RxControl
  <2> QED
    BY <2>3, <2>4, Zenon
<1> QED
  BY <1>3, <1>4, Zenon

\* input() writes to a page that the server does not read.
LEMMA InputFills ==
    ASSUME RxType, InType, RxInv, input
    PROVE  RxInv'
<1> USE DEF RxInv
<1> DEFINE new == Min(Pages \ {in_page, req.page})
<1>1. new \in Pages /\ new # req.page
  BY Zenon, NewPage
<1>2. /\ in_at = "fill" /\ in_at' = "send" /\ in_page' = new /\ page' = [page EXCEPT ![new] = in_pkt]
      /\ UNCHANGED <<rx_dd, rx_paks, rdt, rdh, stored, in_pkt, kern, waiting, ns_at, req, handed>>
  BY Zenon DEF input, rxVars, nsVars
<1> HIDE DEF new
<1>3. Taken' = Taken /\ Serving' = Serving
  BY <1>2, Zenon DEF Taken, Serving
<1>4. RxRing'
  BY <1>2, <1>3, Zenon DEF RxRing, RxAfter
<1>5. RxCarried'
  BY <1>1, <1>2, <1>3, Zenon DEF RxCarried, InType
<1>6. RxControl'
  BY <1>2, Zenon DEF RxControl
<1> QED
  BY <1>4, <1>5, <1>6, Zenon

\* The server gets the page with the next packet.
LEMMA InputSends ==
    ASSUME RxType, NsType, RxInv, input_ipc_send
    PROVE  RxInv'
<1> USE DEF RxInv
<1>1. /\ in_at = "send" /\ in_at' = "recv" /\ ns_at = "recv" /\ ns_at' = "serve"
      /\ req' = [req EXCEPT !.whom = Input, !.page = in_page]
      /\ UNCHANGED <<rx_dd, rx_paks, rdt, rdh, stored, in_pkt, in_page, page, kern, waiting, handed>>
  BY Zenon DEF input_ipc_send, rxVars
<1>2. req'.whom = Input /\ req'.page = in_page
  BY <1>1, Zenon DEF NsType
<1>3. ~Serving /\ Serving'
  BY <1>1, <1>2, Zenon DEF Serving
<1>4. Taken' = Taken /\ Taken = Len(handed) + 1
  BY <1>1, <1>3, RxPositions DEF Taken
<1>5. RxRing'
  BY <1>1, <1>4, Zenon DEF RxRing, RxAfter
<1>6. RxCarried'
  BY <1>1, <1>2, <1>3, <1>4, Zenon DEF RxCarried
<1>7. RxControl'
  BY <1>1, Zenon DEF RxControl
<1> QED
  BY <1>5, <1>6, <1>7, Zenon

\* lwIP is given the next packet.
LEMMA ServerHandsOver ==
    ASSUME RxType, RxInv, serve_input
    PROVE  /\ RxInv'
           /\ handed' = Append(handed, Len(handed) + 1) /\ Len(handed) < stored /\ UNCHANGED stored
<1> USE DEF RxInv
<1>1. /\ Serving /\ ns_at' # "serve" /\ handed' = Append(handed, page[req.page])
      /\ UNCHANGED <<rx_dd, rx_paks, rdt, rdh, stored, in_at, in_pkt, in_page, page, kern, waiting>>
  BY Zenon DEF serve_input, rxVars, inVars, Serving
<1>2. ~Serving'
  BY <1>1, Zenon DEF Serving
<1>3. page[req.page] = Len(handed) + 1
  BY <1>1, Zenon DEF RxCarried
<1>4. Len(handed') = Len(handed) + 1 /\ \A i \in 1 .. Len(handed') : handed'[i] = i
  BY <1>1, <1>3, SMTT(20) DEF RxCarried, RxType
<1>5. Taken' = Taken /\ Taken >= Len(handed) + 1
  BY <1>1, <1>2, <1>4, RxPositions DEF Taken
<1>6. RxRing'
  BY <1>1, <1>5, Zenon DEF RxRing, RxAfter
<1>7. RxCarried'
  BY <1>1, <1>2, <1>4, <1>5, Zenon DEF RxCarried
<1>8. RxControl'
  BY <1>1, Zenon DEF RxControl
<1>9. Len(handed) < stored
  <2>1. rdh \in Rx /\ stored = Taken + RxAfter(rdh)
    BY Zenon DEF RxRing, RxType
  <2> QED
    BY <1>5, <2>1, RxPositions
<1> QED
  BY <1>1, <1>3, <1>6, <1>7, <1>8, <1>9

\* The other steps leave the packets where they are.
LEMMA RxNext == RxType /\ InType /\ NsType /\ RxInv /\ [Next]_vars => RxInv'
<1> SUFFICES ASSUME RxType, InType, NsType, RxInv, [Next]_vars PROVE RxInv'
  BY Zenon
<1>1. CASE card_receive
  BY <1>1, CardReceives, Zenon
<1>2. CASE sys_e1000_receive
  BY <1>2, DriverReceives, Zenon
<1>3. CASE input
  BY <1>3, InputFills, Zenon
<1>4. CASE input_ipc_send
  BY <1>4, InputSends, Zenon
<1>5. CASE serve_input
  BY <1>5, ServerHandsOver, Zenon
<1> USE DEF RxInv, txVars, rxVars, inVars, nsVars, userVars
<1>6. ASSUME UNCHANGED <<rxVars, in_pkt, in_page, page, handed>>, Serving' <=> Serving,
             in_at' = in_at \/ {in_at, in_at'} \subseteq {"recv", "asleep"}, RxControl',
             Serving => req'.page = req.page
      PROVE  RxInv'
  <2>1. Taken' = Taken
    BY <1>6, Zenon DEF Taken
  <2>2. RxRing'
    BY <1>6, <2>1, Zenon DEF RxRing, RxAfter
  <2>3. RxCarried'
    BY <1>6, <2>1, Zenon DEF RxCarried
  <2> QED
    BY <1>6, <2>2, <2>3, Zenon
<1>7. CASE driver \/ sched_yield_idle
  <2>1. /\ in_at' = in_at \/ {in_at, in_at'} \subseteq {"recv", "asleep"}
        /\ RxControl'
    <3>1. CASE sys_e1000_receive_sleep
      BY <3>1, Zenon DEF sys_e1000_receive_sleep, RxControl
    <3>2. CASE e1000_trap_handler
      BY <3>2, Zenon DEF e1000_trap_handler, wake, RxControl
    <3>3. CASE clear_e1000_interrupt
      BY <3>3, Zenon DEF clear_e1000_interrupt, RxControl
    <3>4. CASE sched_yield_idle
      BY <3>4, Zenon DEF sched_yield_idle, wake, RxControl
    <3> QED
      BY <1>7, <3>1, <3>2, <3>3, <3>4, Zenon DEF driver
  <2>2. UNCHANGED <<rxVars, in_pkt, in_page, page, handed, ns_at, req>>
    BY <1>7, Zenon DEF driver, sys_e1000_receive_sleep, e1000_trap_handler, clear_e1000_interrupt,
                sched_yield_idle
  <2>3. (Serving' <=> Serving) /\ (Serving => req'.page = req.page)
    BY <2>2, Zenon DEF Serving
  <2> QED
    BY <1>6, <2>1, <2>2, <2>3, Zenon
<1>8. CASE card_transmit \/ sys_e1000_transmit \/ UNCHANGED vars
  <2>1. UNCHANGED <<rxVars, in_pkt, in_page, page, handed, in_at, kern, waiting, ns_at, req>>
    BY <1>8, Zenon DEF card_transmit, sys_e1000_transmit, transmit, vars
  <2>2. RxControl' /\ (Serving' <=> Serving) /\ (Serving => req'.page = req.page)
    BY <2>1, Zenon DEF RxControl, Serving
  <2> QED
    BY <1>6, <2>1, <2>2, Zenon
<1>9. CASE get_buffer \/ serve_request \/ low_level_output \/ reply
  <2>1. UNCHANGED <<rxVars, in_pkt, in_page, page, handed, in_at, kern, waiting>>
    BY <1>9, Zenon DEF get_buffer, serve_request, low_level_output, reply
  <2>2. ~Serving /\ ~Serving'
    <3>1. ns_at' # "serve"
      BY <1>9, Zenon DEF get_buffer, serve_request, low_level_output, reply
    <3>2. ~Serving
      BY <1>9, NetAssumption, Zenon DEF get_buffer, serve_request, low_level_output, reply, Serving,
                                 NetAssumption
    <3> QED
      BY <3>1, <3>2, Zenon DEF Serving
  <2> QED
    BY <1>6, <2>1, <2>2, Zenon DEF RxControl
<1>10. ASSUME NEW u \in Users, ipc_send(u) \/ nsipc(u) \/ ipc_recv(u) PROVE RxInv'
  <2>1. UNCHANGED <<rxVars, in_pkt, in_page, page, handed, in_at, kern, waiting>>
    BY <1>10, Zenon DEF ipc_send, send, nsipc, ipc_recv
  <2>2. CASE ipc_send(u)
    <3>1. ns_at = "recv" /\ req'.whom = u /\ u # Input
      BY <2>2, <1>10, NetAssumption DEF ipc_send, send, NsType, NetAssumption
    <3> QED
      BY <1>6, <2>1, <3>1, Zenon DEF Serving, RxControl
  <2>3. CASE nsipc(u) \/ ipc_recv(u)
    <3>1. UNCHANGED <<ns_at, req>>
      BY <2>3, Zenon DEF nsipc, ipc_recv
    <3> QED
      BY <1>6, <2>1, <3>1 DEF Serving, RxControl
  <2> QED
    BY <1>10, <2>2, <2>3, Zenon
<1> QED
  BY <1>1, <1>2, <1>3, <1>4, <1>5, <1>7, <1>8, <1>9, <1>10, Zenon DEF Next, server

-----------------------------------------------------------------------------
(* Theorems about packets. *)

\* Everything that is on its way is accounted for, in every state.
LEMMA RxInvariance == Spec => [](TypeOK /\ RxInv)
<1>1. Init => TypeOK /\ RxInv
  BY TypeInit, RxInit, Zenon
<1>2. TypeOK /\ RxInv /\ [Next]_vars => TypeOK' /\ RxInv'
  <2>1. TypeOK => RxType /\ InType /\ NsType
    BY Zenon DEF TypeOK, RxType, InType, NsType
  <2> QED
    BY <2>1, TypeNext, RxNext, Zenon
<1> QED
  BY <1>1, <1>2, PTL DEF Spec

\* The same for packets that go out, when the card keeps up with output().
LEMMA TxInvariance == ASSUME Lapses = {} PROVE Spec => [](TypeOK /\ TxInv)
<1>1. Init => TypeOK /\ TxInv
  BY TypeInit, TxInit, Zenon
<1>2. TypeOK /\ RxInv /\ TxInv /\ [Next]_vars => TypeOK' /\ TxInv'
  <2>1. TypeOK => TxType
    BY Zenon DEF TypeOK, TxType
  <2> QED
    BY <2>1, TypeNext, TxNext, Zenon
<1>3. Spec => []RxInv
  BY RxInvariance, PTL
<1> QED
  BY <1>1, <1>2, <1>3, PTL DEF Spec

\* Every register, ring, page and request of the driver and the server is well formed.
THEOREM NetTypes == Spec => []TypeOK
BY RxInvariance, PTL

\* A sequence of the first n numbers with the next one.
LEMMA Count ==
    ASSUME NEW n \in Nat
    PROVE  /\ [i \in 1 .. n + 1 |-> i] = Append([i \in 1 .. n |-> i], n + 1)
           /\ Len([i \in 1 .. n |-> i]) = n
           /\ [i \in 1 .. n |-> i] \in Seq(Nat)
<1>1. [i \in 1 .. n |-> i] \in Seq(Nat) /\ Len([i \in 1 .. n |-> i]) = n
  OBVIOUS
<1>2. Append([i \in 1 .. n |-> i], n + 1) = [i \in 1 .. n + 1 |-> i]
  OBVIOUS
<1> QED
  BY <1>1, <1>2, Zenon

\* The packets that the card stores reach lwIP complete, in order, once each, whatever
\* the size of the ring: the driver, input() and the server implement a queue.
THEOREM ReceivesInOrder == Spec => RxIsFifo
<1>1. Init => RxQueue!Init
  BY DEF Init, RxQueue!Init
<1>2. TypeOK /\ RxInv /\ [Next]_vars => [RxQueue!Next]_RxQueue!vars
  <2> SUFFICES ASSUME TypeOK, RxInv, [Next]_vars PROVE [RxQueue!Next]_RxQueue!vars
    BY Zenon
  <2>1. RxType /\ stored \in Nat
    BY SMTT(20) DEF TypeOK, RxType
  <2>2. CASE card_receive
    <3>1. /\ UNCHANGED handed /\ stored' = stored + 1 /\ stored < MaxRx
          /\ stored - Len(handed) < NRXQ + 1
      BY <2>1, <2>2, CardReceives, Zenon
    <3>2. stored + 1 \in 1 .. MaxRx
      BY SMTT(20), <2>1, <3>1, Rings
    <3>3. RxQueue!Put
      BY <2>1, <3>1, <3>2, Count, Zenon DEF RxQueue!Put
    <3> QED
      BY <3>3, Zenon DEF RxQueue!Next
  <2>3. CASE serve_input
    <3>1. handed' = Append(handed, Len(handed) + 1) /\ Len(handed) < stored /\ UNCHANGED stored
      BY <2>1, <2>3, ServerHandsOver, Zenon
    <3>2. Len(handed) + 1 \in 1 .. stored
      BY <2>1, <3>1, RxPositions
    <3>3. RxQueue!Take
      BY <2>1, <3>1, <3>2, Count, Zenon DEF RxQueue!Take
    <3> QED
      BY <3>3, Zenon DEF RxQueue!Next
  <2>4. ASSUME UNCHANGED <<stored, handed>> PROVE UNCHANGED RxQueue!vars
    BY <2>4, Zenon DEF RxQueue!vars
  <2> USE DEF txVars, rxVars, inVars, nsVars, userVars
  <2>5. CASE driver \/ sched_yield_idle \/ sys_e1000_receive \/ input \/ input_ipc_send
    BY <2>4, <2>5, Zenon DEF driver, sys_e1000_receive_sleep, e1000_trap_handler, clear_e1000_interrupt,
                      sched_yield_idle, sys_e1000_receive, input, input_ipc_send
  <2>6. CASE card_transmit \/ sys_e1000_transmit \/ UNCHANGED vars
    BY <2>4, <2>6, Zenon DEF card_transmit, sys_e1000_transmit, transmit, vars
  <2>7. CASE get_buffer \/ serve_request \/ low_level_output \/ reply
    BY <2>4, <2>7, Zenon DEF get_buffer, serve_request, low_level_output, reply
  <2>8. ASSUME NEW u \in Users, ipc_send(u) \/ nsipc(u) \/ ipc_recv(u) PROVE UNCHANGED RxQueue!vars
    BY <2>4, <2>8, Zenon DEF ipc_send, send, nsipc, ipc_recv
  <2> QED
    BY <2>2, <2>3, <2>5, <2>6, <2>7, <2>8, Zenon DEF Next, server
<1> QED
  BY <1>1, <1>2, RxInvariance, PTL DEF Spec, RxIsFifo, RxQueue!Spec

\* The packets that lwIP makes reach the wire complete, in order, once each, as long as
\* the transmit ring is never filled to the last descriptor.
THEOREM TransmitsInOrder == ASSUME Lapses = {} PROVE Spec => TxIsFifo
<1>1. Init => TxQueue!Init
  BY DEF Init, TxQueue!Init
<1>2. TypeOK /\ TxInv /\ [Next]_vars => [TxQueue!Next]_TxQueue!vars
  <2> SUFFICES ASSUME TypeOK, TxInv, [Next]_vars PROVE [TxQueue!Next]_TxQueue!vars
    BY Zenon
  <2>1. TxType /\ made \in Nat /\ Len(wire) \in Nat
    BY SMTT(20) DEF TypeOK, TxType
  <2>2. CASE serve_request /\ made' # made
    <3>1. /\ UNCHANGED wire /\ made' = made + 1 /\ made < MaxTx /\ ns_at # "output"
      BY <2>2, Zenon DEF serve_request, txVars
    <3>2. made + 1 \in 1 .. MaxTx
      BY <2>1, <3>1, Rings
    <3>3. TxAfter(tdt) \in 0 .. NTXQ - 1
      BY <2>1, Rings DEF TxAfter, TxType, Tx
    <3>4. made - Len(wire) < NTXQ + 1
      BY <2>1, <3>1, <3>3, Rings DEF TxInv, TxCarried
    <3>5. TxQueue!Put
      BY <2>1, <3>1, <3>2, <3>4, Count DEF TxQueue!Put
    <3> QED
      BY <3>5, Zenon DEF TxQueue!Next
  <2>3. CASE card_transmit
    <3>1. wire' = Append(wire, Len(wire) + 1) /\ Len(wire) < made /\ UNCHANGED made
      BY <2>1, <2>3, CardTransmits, Zenon
    <3>2. Len(wire) + 1 \in 1 .. made
      BY <2>1, <3>1
    <3>3. TxQueue!Take
      BY <2>1, <3>1, <3>2, Count DEF TxQueue!Take
    <3> QED
      BY <3>3, Zenon DEF TxQueue!Next
  <2>4. ASSUME UNCHANGED <<made, wire>> PROVE UNCHANGED TxQueue!vars
    BY <2>4, Zenon DEF TxQueue!vars
  <2> USE DEF txVars, rxVars, inVars, nsVars, userVars
  <2>5. CASE driver \/ sched_yield_idle \/ sys_e1000_receive \/ input \/ input_ipc_send
    BY <2>4, <2>5, Zenon DEF driver, sys_e1000_receive_sleep, e1000_trap_handler, clear_e1000_interrupt,
                      sched_yield_idle, sys_e1000_receive, input, input_ipc_send
  <2>6. CASE card_receive \/ sys_e1000_transmit \/ UNCHANGED vars
    BY <2>4, <2>6, Zenon DEF card_receive, sys_e1000_transmit, transmit, vars
  <2>7. CASE get_buffer \/ serve_input \/ low_level_output \/ reply \/ (serve_request /\ made' = made)
    BY <2>4, <2>7, Zenon DEF get_buffer, serve_input, serve_request, low_level_output, reply
  <2>8. ASSUME NEW u \in Users, ipc_send(u) \/ nsipc(u) \/ ipc_recv(u) PROVE UNCHANGED TxQueue!vars
    BY <2>4, <2>8, Zenon DEF ipc_send, send, nsipc, ipc_recv
  <2> QED
    BY <2>2, <2>3, <2>5, <2>6, <2>7, <2>8, Zenon DEF Next, server
<1> QED
  BY <1>1, <1>2, TxInvariance, PTL DEF Spec, TxIsFifo, TxQueue!Spec

-----------------------------------------------------------------------------
(* Requests and their buffers. *)

\* get_buffer() comes before a request and put_buffer() after it.
LEMMA BufferNext == TypeOK /\ HasBuffer /\ [Next]_vars => HasBuffer'
<1> SUFFICES ASSUME NsType, HasBuffer, [Next]_vars PROVE HasBuffer'
  BY Zenon DEF TypeOK, NsType
<1> USE DEF txVars, rxVars, inVars, nsVars, userVars
<1>1. CASE card_receive \/ card_transmit \/ driver \/ sched_yield_idle \/ sys_e1000_receive
           \/ input \/ sys_e1000_transmit \/ UNCHANGED vars
  BY <1>1, Zenon DEF HasBuffer, card_receive, card_transmit, driver, sys_e1000_receive_sleep,
              e1000_trap_handler, clear_e1000_interrupt, sched_yield_idle, sys_e1000_receive,
              input, sys_e1000_transmit, transmit, vars
<1>2. CASE input_ipc_send \/ low_level_output \/ reply
  <2>1. CASE input_ipc_send
    BY <2>1, Zenon DEF input_ipc_send, HasBuffer, NsType
  <2>2. CASE low_level_output
    BY <2>2, Zenon DEF low_level_output, HasBuffer
  <2>3. CASE reply
    BY <2>3, Zenon DEF reply, HasBuffer, NoReq
  <2> QED
    BY <1>2, <2>1, <2>2, <2>3
<1>3. CASE get_buffer
  <2>1. CASE {i \in Bufs : ~buse[i]} = {}
    BY <1>3, <2>1, Zenon DEF get_buffer, HasBuffer
  <2>2. CASE {i \in Bufs : ~buse[i]} # {}
    <3>1. Min({i \in Bufs : ~buse[i]}) \in Bufs
      BY <2>2, FreeBuffer, Zenon
    <3>2. ns_at' = "recv" /\ req'.va = Min({i \in Bufs : ~buse[i]})
      BY <1>3, <2>2, Zenon DEF get_buffer, NoReq
    <3> QED
      BY <3>1, <3>2, NetAssumption, Zenon DEF HasBuffer, NetAssumption, Bufs
  <2> QED
    BY <2>1, <2>2, Zenon
<1>4. CASE serve_input
  <2>1. CASE ns_at' = "get" /\ req' = NoReq
    BY <2>1, Zenon DEF HasBuffer, NoReq
  <2>2. ASSUME NEW c \in Clients, blocked[c] # NULL, ns_at' = "reply",
               req' = [va |-> blocked[c], whom |-> c, page |-> NULL]
        PROVE  HasBuffer'
    BY <2>2, Zenon DEF HasBuffer
  <2> QED
    BY <1>4, <2>1, <2>2, Zenon DEF serve_input
<1>6. CASE serve_request
  BY <1>6, SMTT(20) DEF serve_request, HasBuffer, NoReq
<1>5. ASSUME NEW u \in Users, ipc_send(u) \/ nsipc(u) \/ ipc_recv(u) PROVE HasBuffer'
  BY <1>5, Zenon DEF ipc_send, send, nsipc, ipc_recv, HasBuffer, NsType
<1> QED
  BY <1>1, <1>2, <1>3, <1>4, <1>5, <1>6 DEF Next, server

\* Nobody has asked for anything.
LEMMA HeldInit == Init => HasBuffer /\ RequestHeld
BY NetAssumption, SMTT(20) DEF NetAssumption, Init, HasBuffer, RequestHeld, NoReq, Users

\* A request is taken, served, set aside or answered, one step at a time.
LEMMA HeldNext == TypeOK /\ HasBuffer /\ RequestHeld /\ [Next]_vars => RequestHeld'
<1> SUFFICES ASSUME NsType, HasBuffer, RequestHeld, [Next]_vars PROVE RequestHeld'
  BY Zenon DEF TypeOK, NsType
<1> USE DEF txVars, rxVars, inVars, nsVars, userVars
<1>1. ASSUME UNCHANGED <<ns_at, req, blocked, user>> PROVE RequestHeld'
  BY <1>1, Zenon DEF RequestHeld
<1>2. CASE card_receive \/ card_transmit \/ driver \/ sched_yield_idle \/ sys_e1000_receive
           \/ input \/ sys_e1000_transmit \/ UNCHANGED vars
  BY <1>1, <1>2, Zenon DEF card_receive, card_transmit, driver, sys_e1000_receive_sleep, e1000_trap_handler,
                    clear_e1000_interrupt, sched_yield_idle, sys_e1000_receive, input,
                    sys_e1000_transmit, transmit, vars
<1>3. CASE input_ipc_send
  <2>1. req'.whom = Input /\ Input \notin Users
    BY <1>3, NetAssumption, Zenon DEF input_ipc_send, NsType, NetAssumption
  <2> QED
    BY <1>3, <2>1, Zenon DEF input_ipc_send, RequestHeld
<1>4. CASE get_buffer
  <2>1. ns_at = "get" /\ ns_at' \in {"recv", "panic"} /\ UNCHANGED <<blocked, user>>
    BY <1>4, Zenon DEF get_buffer
  <2> QED
    BY <2>1, Zenon DEF RequestHeld
<1>5. CASE serve_input
  <2>1. req.whom = Input /\ Input \notin Users /\ Clients \subseteq Users
    BY <1>5, NetAssumption, Zenon DEF serve_input, NetAssumption, Users
  <2>2. UNCHANGED user /\ ns_at = "serve"
    BY <1>5, Zenon DEF serve_input
  <2>3. CASE ns_at' = "get" /\ UNCHANGED blocked
    BY <2>1, <2>2, <2>3, Zenon DEF RequestHeld
  <2>4. ASSUME NEW c \in Clients, blocked[c] # NULL, ns_at' = "reply", req'.whom = c,
               blocked' = [blocked EXCEPT ![c] = NULL]
        PROVE  RequestHeld'
    BY <2>1, <2>2, <2>4, Zenon DEF RequestHeld, NsType
  <2> QED
    BY <1>5, <2>3, <2>4 DEF serve_input
<1>6. CASE serve_request
  <2>1. ns_at = "serve" /\ req.whom \in Users /\ UNCHANGED user
    BY <1>6, Zenon DEF serve_request
  <2>2. CASE ns_at' \in {"reply", "output"} /\ UNCHANGED <<req, blocked>>
    BY <2>1, <2>2, Zenon DEF RequestHeld
  <2>3. CASE /\ req.whom \in Clients /\ ns_at' = "get"
             /\ blocked' = [blocked EXCEPT ![req.whom] = req.va]
    BY <2>1, <2>3 DEF HasBuffer, RequestHeld, NsType
  <2> QED
    BY <1>6, <2>2, <2>3, Zenon DEF serve_request
<1>7. CASE low_level_output
  BY <1>7, Zenon DEF low_level_output, RequestHeld
<1>8. CASE reply
  BY <1>8, Zenon DEF reply, RequestHeld, NsType
<1>9. ASSUME NEW u \in Users, ipc_send(u) PROVE RequestHeld'
  <2>1. /\ user[u] = "send" /\ ns_at = "recv" /\ ns_at' = "serve" /\ req'.whom = u
        /\ user' = [user EXCEPT ![u] = "sent"] /\ UNCHANGED blocked
    BY <1>9, Zenon DEF ipc_send, send, NsType
  <2> QED
    BY <2>1, Zenon DEF RequestHeld, NsType
<1>10. ASSUME NEW u \in Users, nsipc(u) \/ ipc_recv(u) PROVE RequestHeld'
  <2>1. UNCHANGED <<ns_at, req, blocked>>
    BY <1>10, Zenon DEF nsipc, ipc_recv
  <2>2. \A v \in Users : user'[v] \in {"sent", "wait"} <=> user[v] \in {"sent", "wait"}
    <3>1. CASE nsipc(u)
      BY <3>1, Zenon DEF nsipc, NsType
    <3>2. CASE ipc_recv(u)
      BY <3>2, Zenon DEF ipc_recv, NsType
    <3> QED
      BY <1>10, <3>1, <3>2, Zenon
  <2> QED
    BY <2>1, <2>2, Zenon DEF RequestHeld
<1> QED
  BY <1>2, <1>3, <1>4, <1>5, <1>6, <1>7, <1>8, <1>9, <1>10 DEF Next, server

\* A client that has sent a request has just that request at the server, and a reply
\* never goes to a client that does not wait for one.
THEOREM EveryRequestHeld == Spec => []RequestHeld
<1>1. TypeOK /\ HasBuffer /\ RequestHeld /\ [Next]_vars => HasBuffer' /\ RequestHeld'
  BY BufferNext, HeldNext, Zenon
<1> QED
  BY <1>1, HeldInit, RxInvariance, PTL DEF Spec

\* With more buffers than clients, get_buffer() finds one: serve() has none itself then,
\* and each client holds at most one.
LEMMA BufferLeft ==
    ASSUME QUEUE_SIZE > Cardinality(Clients), HasBuffer, BufInv, ns_at = "get"
    PROVE  {i \in Bufs : ~buse[i]} # {}
<1> SUFFICES ASSUME \A i \in Bufs : buse[i] PROVE FALSE
  BY Zenon
<1> DEFINE f == [i \in Bufs |-> CHOOSE c \in Clients : blocked[c] = i]
<1>1. \A i \in Bufs : i # req.va
  BY NetAssumption, Zenon DEF HasBuffer, NetAssumption, Bufs
<1>2. \A i \in Bufs : \E c \in Clients : blocked[c] = i
  BY <1>1, Zenon DEF BufInv
<1>3. f \in [Bufs -> Clients] /\ \A i \in Bufs : blocked[f[i]] = i
  BY <1>2, Zenon
<1>4. IsFiniteSet(Bufs) /\ Cardinality(Bufs) = QUEUE_SIZE
  <2>1. QUEUE_SIZE \in Nat \ {0}
    BY NetAssumption, Zenon DEF NetAssumption
  <2>2. 0 .. QUEUE_SIZE - 1 = Bufs /\ 0 \in Int /\ QUEUE_SIZE - 1 \in Int /\ 0 <= QUEUE_SIZE - 1
    BY <2>1 DEF Bufs
  <2>3. IsFiniteSet(0 .. QUEUE_SIZE - 1) /\ Cardinality(0 .. QUEUE_SIZE - 1) = QUEUE_SIZE - 1 - 0 + 1
    BY <2>1, FS_Interval
  <2> QED
    BY <2>1, <2>2, <2>3
<1>5. IsFiniteSet(Clients) /\ Cardinality(Clients) < Cardinality(Bufs)
  BY <1>4, NetAssumption, FS_CardinalityType, Zenon DEF NetAssumption
<1> HIDE DEF f
<1>6. PICK x, y \in Bufs : x # y /\ f[x] = f[y]
  BY SMTT(20), <1>3, <1>4, <1>5, FS_PigeonHole
<1> QED
  BY <1>3, <1>6, Zenon

\* put_buffer() returns the buffer of the request just handled.
LEMMA BufPut ==
    ASSUME NsType, BufInv, NULL \notin Bufs, req.va # NULL, req'.va = NULL,
           buse' = [buse EXCEPT ![req.va] = FALSE], ns_at' = "get", UNCHANGED blocked
    PROVE  BufInv'
<1>1. \A i \in Bufs : buse'[i] <=> i # req.va /\ buse[i]
  BY Zenon DEF NsType
<1>2. \A c \in Clients : blocked[c] # NULL => blocked[c] # req.va
  BY Zenon DEF BufInv
<1>3. \A i \in Bufs : buse'[i] <=> \E c \in Clients : blocked[c] = i
  BY <1>1, <1>2, Zenon DEF BufInv
<1>4. \A i \in Bufs : i # req'.va
  BY Zenon
<1> QED
  BY <1>3, <1>4, Zenon DEF BufInv

\* get_buffer() takes a buffer that nobody has.
LEMMA BufGet ==
    ASSUME NsType, BufInv, NULL \notin Bufs, req.va = NULL, NEW b \in Bufs, ~buse[b],
           req'.va = b, buse' = [buse EXCEPT ![b] = TRUE], ns_at' = "recv", UNCHANGED blocked
    PROVE  BufInv'
<1>1. \A i \in Bufs : buse'[i] <=> i = b \/ buse[i]
  BY Zenon DEF NsType
<1>2. \A i \in Bufs : buse[i] <=> \E c \in Clients : blocked[c] = i
  BY Zenon DEF BufInv
<1>3. \A c \in Clients : blocked[c] # b
  BY <1>2, Zenon
<1> QED
  BY <1>1, <1>2, <1>3, Zenon DEF BufInv

\* The server sets a request aside: its buffer passes to the thread that waits.
LEMMA BufWait ==
    ASSUME NsType, BufInv, NULL \notin Bufs, NEW w \in Clients, blocked[w] = NULL,
           req'.va = NULL, blocked' = [blocked EXCEPT ![w] = req.va], ns_at' = "get",
           UNCHANGED buse
    PROVE  BufInv'
<1>1. \A c \in Clients : blocked'[c] = IF c = w THEN req.va ELSE blocked[c]
  BY Zenon DEF NsType
<1>2. \A i \in Bufs : (\E c \in Clients : blocked'[c] = i)
                        <=> i = req.va \/ \E c \in Clients : blocked[c] = i
  BY <1>1, Zenon
<1>3. \A i \in Bufs : buse'[i] <=> i = req'.va \/ \E c \in Clients : blocked'[c] = i
  BY <1>1, <1>2 DEF BufInv
<1>4. \A c, d \in Clients : blocked'[c] # NULL /\ blocked'[c] = blocked'[d] => c = d
  BY <1>1 DEF BufInv
<1> QED
  BY <1>3, <1>4, Zenon DEF BufInv

\* A buffer passes from the server to a waiting thread and back, or to nobody.
LEMMA BufNext ==
    ASSUME QUEUE_SIZE > Cardinality(Clients)
    PROVE  TypeOK /\ HasBuffer /\ RequestHeld /\ BufInv /\ [Next]_vars => BufInv'
<1> SUFFICES ASSUME NsType, HasBuffer, RequestHeld, BufInv, [Next]_vars PROVE BufInv'
  BY Zenon DEF TypeOK, NsType
<1> USE DEF txVars, rxVars, inVars, nsVars, userVars
<1>1. ASSUME ns_at' # "panic", req'.va = req.va, UNCHANGED <<buse, blocked>> PROVE BufInv'
  BY <1>1, Zenon DEF BufInv
<1>2. CASE card_receive \/ card_transmit \/ driver \/ sched_yield_idle \/ sys_e1000_receive
           \/ input \/ sys_e1000_transmit \/ UNCHANGED vars
  <2>1. UNCHANGED <<ns_at, req, buse, blocked>>
    BY <1>2, Zenon DEF card_receive, card_transmit, driver, sys_e1000_receive_sleep, e1000_trap_handler,
                clear_e1000_interrupt, sched_yield_idle, sys_e1000_receive, input,
                sys_e1000_transmit, transmit, vars
  <2> QED
    BY <1>1, <2>1, Zenon DEF BufInv
<1>3. CASE input_ipc_send \/ low_level_output
  BY <1>1, <1>3, Zenon DEF input_ipc_send, low_level_output, NsType
<1>4. CASE get_buffer
  <2> DEFINE b == Min({i \in Bufs : ~buse[i]})
  <2>1. {i \in Bufs : ~buse[i]} # {}
    BY <1>4, BufferLeft, Zenon DEF get_buffer
  <2>2. b \in Bufs /\ ~buse[b]
    BY <2>1, FreeBuffer, Zenon
  <2>3. /\ buse' = [buse EXCEPT ![b] = TRUE] /\ req'.va = b /\ ns_at' = "recv" /\ UNCHANGED blocked
    BY <1>4, <2>1, Zenon DEF get_buffer, NoReq
  <2>4. req.va = NULL
    BY <1>4, Zenon DEF get_buffer, HasBuffer
  <2>5. NULL \notin Bufs
    BY NetAssumption, Zenon DEF NetAssumption, Bufs
  <2> HIDE DEF b
  <2> QED
    BY <2>2, <2>3, <2>4, <2>5, BufGet, Zenon
<1>5. CASE serve_input
  <2>1. req.va # NULL /\ buse' = [buse EXCEPT ![req.va] = FALSE] /\ NULL \notin Bufs
    BY <1>5, NetAssumption, Zenon DEF serve_input, put_buffer, HasBuffer, NetAssumption, Bufs
  <2>2. CASE ns_at' = "get" /\ req' = NoReq /\ UNCHANGED blocked
    <3>1. req'.va = NULL
      BY <2>2, Zenon DEF NoReq
    <3> QED
      BY <2>1, <2>2, <3>1, BufPut, Zenon
  <2>3. ASSUME NEW c \in Clients, blocked[c] # NULL, ns_at' = "reply", req'.va = blocked[c],
               blocked' = [blocked EXCEPT ![c] = NULL]
        PROVE  BufInv'
    <3>1. \A i \in Bufs : buse'[i] <=> i = req'.va \/ \E d \in Clients : blocked'[d] = i
      BY <2>1, <2>3, SMTT(20) DEF BufInv, NsType
    <3>2. /\ \A d, e \in Clients : blocked'[d] # NULL /\ blocked'[d] = blocked'[e] => d = e
          /\ \A d \in Clients : blocked'[d] # NULL => blocked'[d] # req'.va
      BY <2>1, <2>3, SMTT(20) DEF BufInv, NsType
    <3> QED
      BY <2>3, <3>1, <3>2, Zenon DEF BufInv
  <2> QED
    BY <1>5, <2>2, <2>3, SMTT(20) DEF serve_input
<1>6. CASE serve_request
  <2>1. CASE ns_at' \in {"reply", "output"} /\ UNCHANGED <<req, blocked, buse>>
    BY <1>1, <2>1, Zenon
  <2>2. CASE /\ req.whom \in Clients /\ ns_at' = "get" /\ req' = NoReq
             /\ blocked' = [blocked EXCEPT ![req.whom] = req.va] /\ UNCHANGED buse
             /\ blocked[req.whom] = NULL
    <3>1. req'.va = NULL /\ NULL \notin Bufs
      BY <2>2, NetAssumption, Zenon DEF NoReq, NetAssumption, Bufs
    <3> QED
      BY <2>2, <3>1, BufWait, Zenon
  <2>3. req.whom \in Clients => blocked[req.whom] = NULL
    BY <1>6, Zenon DEF serve_request, RequestHeld
  <2> QED
    BY <1>6, <2>1, <2>2, <2>3 DEF serve_request
<1>7. CASE reply
  <2>1. req.va # NULL /\ buse' = [buse EXCEPT ![req.va] = FALSE] /\ req'.va = NULL /\ NULL \notin Bufs
    BY <1>7, NetAssumption, Zenon DEF reply, put_buffer, HasBuffer, NoReq, NetAssumption, Bufs
  <2>2. ns_at' = "get" /\ UNCHANGED blocked
    BY <1>7, Zenon DEF reply
  <2> QED
    BY <2>1, <2>2, BufPut, Zenon
<1>8. ASSUME NEW u \in Users, ipc_send(u) \/ nsipc(u) \/ ipc_recv(u) PROVE BufInv'
  <2>1. ns_at' # "panic" /\ req'.va = req.va /\ UNCHANGED <<buse, blocked>>
    BY <1>8, Zenon DEF ipc_send, send, nsipc, ipc_recv, NsType, BufInv
  <2> QED
    BY <1>1, <2>1, Zenon
<1> QED
  BY <1>2, <1>3, <1>4, <1>5, <1>6, <1>7, <1>8 DEF Next, server

\* What the invariant says of single buffers, counted.
LEMMA BuffersCounted == TypeOK /\ HasBuffer /\ BufInv => BuffersAccounted
<1> SUFFICES ASSUME NsType, HasBuffer, BufInv PROVE BuffersAccounted
  BY Zenon DEF TypeOK, NsType
<1> DEFINE held == {c \in Clients : blocked[c] # NULL}
           bufs == {blocked[c] : c \in held}
           f == [c \in held |-> blocked[c]]
<1>1. IsFiniteSet(held)
  BY NetAssumption, FS_Subset, Zenon DEF NetAssumption
<1>2. f \in Surjection(held, bufs) /\ f \in Injection(held, bufs)
  BY Zenon DEF Surjection, Injection, IsInjective, BufInv
<1>3. IsFiniteSet(bufs) /\ Cardinality(bufs) = Cardinality(held)
  <2> HIDE DEF f, bufs, held
  <2> QED
    BY <1>1, <1>2, FS_Surjection, Zenon
<1>4. NULL \notin Bufs
  BY NetAssumption, Zenon DEF NetAssumption, Bufs
<1>5. req.va \notin bufs
  BY Zenon DEF BufInv
<1>6. {i \in Bufs : buse[i]} = bufs \cup ({req.va} \ {NULL})
  BY <1>4 DEF BufInv, NsType
<1>7. Cardinality(bufs \cup ({req.va} \ {NULL})) = Cardinality(held) + (IF req.va = NULL THEN 0 ELSE 1)
  <2> HIDE DEF bufs, held
  <2>1. CASE req.va = NULL
    <3>1. bufs \cup ({req.va} \ {NULL}) = bufs
      BY <2>1, Zenon
    <3>2. Cardinality(held) \in Nat
      BY <1>1, FS_CardinalityType, Zenon
    <3>3. Cardinality(bufs) = Cardinality(held) + 0
      BY <1>3, <3>2
    <3> QED
      BY <2>1, <3>1, <3>3, Zenon
  <2>2. CASE req.va # NULL
    <3>1. bufs \cup ({req.va} \ {NULL}) = bufs \cup {req.va}
      BY <2>2, Zenon
    <3>2. Cardinality(bufs \cup {req.va}) = Cardinality(bufs) + 1
      BY <1>3, <1>5, FS_AddElement, Zenon
    <3> QED
      BY <1>3, <2>2, <3>1, <3>2, Zenon
  <2> QED
    BY <2>1, <2>2, Zenon
<1> HIDE DEF f
<1> QED
  BY <1>6, <1>7, Zenon DEF BuffersAccounted, BufInv

\* With more request buffers than clients, get_buffer() never panics, and no buffer is
\* lost or shared.
THEOREM BuffersSuffice ==
    ASSUME QUEUE_SIZE > Cardinality(Clients)
    PROVE  Spec => []BuffersAccounted
<1>1. Init => BufInv
  <2> SUFFICES ASSUME Init PROVE BufInv
    BY Zenon
  <2>1. NULL \notin Bufs
    BY NetAssumption, Zenon DEF NetAssumption, Bufs
  <2>2. /\ ns_at = "get" /\ req.va = NULL /\ buse = [i \in Bufs |-> FALSE]
        /\ blocked = [c \in Clients |-> NULL]
    BY Zenon DEF Init, NoReq
  <2> QED
    BY <2>1, <2>2, Zenon DEF BufInv
<1>2. TypeOK /\ HasBuffer /\ RequestHeld /\ BufInv /\ [Next]_vars
         => HasBuffer' /\ RequestHeld' /\ BufInv'
  BY BufferNext, HeldNext, BufNext, Zenon
<1>3. TypeOK /\ HasBuffer /\ BufInv => BuffersAccounted
  BY BuffersCounted, Zenon
<1> QED
  BY <1>1, <1>2, <1>3, HeldInit, RxInvariance, PTL DEF Spec
=============================================================================
