--------------------------------- MODULE Net ---------------------------------
(***************************************************************************)
(* Packets between the network card and lwIP: the rings of the E1000 driver *)
(* (kern/e1000.c, kern/syscall.c), the environments that carry packets to   *)
(* and from the network server and wake it up (net/input.c, net/output.c,   *)
(* net/timer.c), and the server's threads and request buffers (net/serv.c). *)
(*                                                                          *)
(* The card works in parallel to everything.  A system call or an interrupt *)
(* handler holds the kernel lock; where the card can get in between two of  *)
(* its steps, kern says how far it is.  The threads of the server switch    *)
(* only where one yields, and an IPC stops all of them, so the server is at *)
(* one place at a time; the other threads hold requests that wait for a     *)
(* packet.  Packets are numbered as the card stores them, or as lwIP makes  *)
(* them; what lwIP does with one is left open.                              *)
(***************************************************************************)
EXTENDS Naturals, Sequences, FiniteSets, FiniteSetsExt

CONSTANTS NTXQ, NRXQ,
          QUEUE_SIZE,  \* request buffers of the network server
          Clients,     \* environments with sockets
          Input, Timer, \* the input and the timer environments
          Pages,       \* pages that packets from the card travel in
          MaxRx, MaxTx, MaxReq, \* bounds: packets stored, packets made, requests and ticks
          NULL,
          Lapses       \* {} or {"slow"}: the card sends slower than packets are made

Users == Clients \cup {Timer}

ASSUME NetAssumption ==
    /\ NTXQ \in Nat \ {0, 1} /\ NRXQ \in Nat \ {0, 1}
    /\ QUEUE_SIZE \in Nat \ {0}
    /\ MaxRx \in Nat /\ MaxTx \in Nat /\ MaxReq \in Nat
    /\ IsFiniteSet(Clients) /\ Input \notin Users /\ Timer \notin Clients
    /\ Pages \subseteq Nat /\ IsFiniteSet(Pages) /\ Cardinality(Pages) > 2
    /\ NULL \notin Users \cup {Input} /\ NULL \notin Pages /\ NULL \notin 0 .. QUEUE_SIZE - 1
    /\ Lapses \subseteq {"slow"}

VARIABLES
    tx_dd, tx_paks, tdt, tdh,  \* descriptors done, packet buffers, tail and head registers
    rx_dd, rx_paks, rdt, rdh,
    irq,      \* whether the card asserts its interrupt
    kern,     \* "free", "sleep" (inside sys_e1000_receive) or "ack" (inside the handler)
    waiting,  \* env_e1000_waiting_rx of the input environment
    in_at,    \* the input environment: "recv", "asleep", "fill" or "send"
    in_pkt,   \* pkt in input()
    in_page,  \* the page at its nsipcbuf
    page,     \* page[p]: the packet that page p holds
    out_pkt,  \* the packet output() is about to transmit, 0 while it receives
    ns_at,    \* the server: "get", "recv", "serve", "output", "reply" or "panic"
    req,      \* its request: [va: buffer, whom: sender, page: page at va]
    buse,     \* buse[i]: buffer i is in use
    blocked,  \* buffers of the threads that wait for a packet: blocked[c], or NULL
    user,     \* user[u]: "idle", "send", "sent" or "wait" (in ipc_recv)
    stored,   \* how many packets the card has stored
    handed,   \* the packets that lwIP was given
    made,     \* how many packets lwIP has made
    wire,     \* the packets that the card has sent
    asked     \* how many requests were made

txVars == <<tx_dd, tx_paks, tdt, tdh, wire>>
rxVars == <<rx_dd, rx_paks, rdt, rdh, stored>>
inVars == <<in_at, in_pkt, in_page, waiting, kern>>
nsVars == <<ns_at, req, buse, blocked, handed, made>>
userVars == <<user, asked>>
vars == <<txVars, rxVars, irq, inVars, page, out_pkt, nsVars, userVars>>

Tx == 0 .. NTXQ - 1
Rx == 0 .. NRXQ - 1
Bufs == 0 .. QUEUE_SIZE - 1
NoReq == [va |-> NULL, whom |-> NULL, page |-> NULL]

\* Every register, descriptor, buffer and control state has a value of its
\* type (struct e1000_tx_desc and e1000_rx_desc, buse[] of net/serv.c).
TypeOK ==
    /\ tx_dd \in [Tx -> BOOLEAN] /\ tx_paks \in [Tx -> 0 .. MaxTx] /\ tdt \in Tx /\ tdh \in Tx
    /\ rx_dd \in [Rx -> BOOLEAN] /\ rx_paks \in [Rx -> 0 .. MaxRx] /\ rdt \in Rx /\ rdh \in Rx
    /\ irq \in BOOLEAN /\ kern \in {"free", "sleep", "ack"} /\ waiting \in BOOLEAN
    /\ in_at \in {"recv", "asleep", "fill", "send"} /\ in_pkt \in 0 .. MaxRx
    /\ in_page \in Pages \cup {NULL} /\ page \in [Pages -> 0 .. MaxRx]
    /\ out_pkt \in 0 .. MaxTx
    /\ ns_at \in {"get", "recv", "serve", "output", "reply", "panic"}
    /\ req \in [va : Bufs \cup {NULL}, whom : Users \cup {Input, NULL}, page : Pages \cup {NULL}]
    /\ buse \in [Bufs -> BOOLEAN] /\ blocked \in [Clients -> Bufs \cup {NULL}]
    /\ user \in [Users -> {"idle", "send", "sent", "wait"}]
    /\ stored \in 0 .. MaxRx /\ made \in 0 .. MaxTx /\ asked \in 0 .. MaxReq
    /\ handed \in Seq(0 .. MaxRx) /\ wire \in Seq(0 .. MaxTx)

\* e1000_init(): all transmit descriptors are done, the card owns all receive
\* descriptors but the last.  umain() has started the three environments.
Init == /\ tx_dd = [i \in Tx |-> TRUE] /\ tx_paks = [i \in Tx |-> 0]
        /\ tdt = 0 /\ tdh = 0 /\ wire = <<>>
        /\ rx_dd = [i \in Rx |-> FALSE] /\ rx_paks = [i \in Rx |-> 0]
        /\ rdt = NRXQ - 1 /\ rdh = 0 /\ stored = 0
        /\ irq = FALSE /\ kern = "free" /\ waiting = FALSE
        /\ in_at = "recv" /\ in_pkt = 0 /\ in_page = NULL
        /\ page = [p \in Pages |-> 0]
        /\ out_pkt = 0
        /\ ns_at = "get" /\ req = NoReq /\ buse = [i \in Bufs |-> FALSE]
        /\ blocked = [c \in Clients |-> NULL] /\ handed = <<>> /\ made = 0
        /\ user = [u \in Users |-> "idle"] /\ asked = 0

-----------------------------------------------------------------------------
(* The card. *)

\* It stores a packet in the descriptor at its head and interrupts, unless
\* the head has reached the tail; then the packet is lost and nothing changes.
card_receive ==
    /\ stored < MaxRx
    /\ rdh # rdt
    /\ rx_paks' = [rx_paks EXCEPT ![rdh] = stored + 1]
    /\ rx_dd' = [rx_dd EXCEPT ![rdh] = TRUE]
    /\ rdh' = (rdh + 1) % NRXQ
    /\ stored' = stored + 1
    /\ irq' = TRUE
    /\ UNCHANGED <<txVars, rdt, inVars, page, out_pkt, nsVars, userVars>>

\* It sends the packet at its head; with the head at the tail it sees no work.
card_transmit ==
    /\ tdh # tdt
    /\ wire' = Append(wire, tx_paks[tdh])
    /\ tx_dd' = [tx_dd EXCEPT ![tdh] = TRUE]
    /\ tdh' = (tdh + 1) % NTXQ
    /\ UNCHANGED <<tx_paks, tdt, rxVars, irq, inVars, page, out_pkt, nsVars, userVars>>

-----------------------------------------------------------------------------
(* The receive side of the driver, and input(). *)

\* sys_e1000_receive() and e1000_receive(): the descriptor after the tail.
sys_e1000_receive ==
    LET index == (rdt + 1) % NRXQ
    IN  /\ in_at = "recv" /\ kern = "free"
        /\ IF rx_dd[index]
           THEN /\ in_pkt' = rx_paks[index]
                /\ rx_dd' = [rx_dd EXCEPT ![index] = FALSE]
                /\ rdt' = index
                /\ in_at' = "fill"
                /\ UNCHANGED kern
           ELSE /\ kern' = "sleep"
                /\ UNCHANGED <<rx_dd, rdt, in_at, in_pkt>>
        /\ UNCHANGED <<txVars, rx_paks, rdh, stored, irq, in_page, waiting, page, out_pkt, nsVars, userVars>>

\* A plausible bug: the environment is not marked as waiting.
sys_e1000_receive_sleep_Unmarked ==
    /\ kern = "sleep"
    /\ kern' = "free"
    /\ in_at' = "asleep"
    /\ UNCHANGED waiting
    /\ UNCHANGED <<txVars, rxVars, irq, in_pkt, in_page, page, out_pkt, nsVars, userVars>>

\* Its end when the ring was empty: the environment sleeps, and will find
\* -E_E1000_RXBUF_EMPTY, on which input() calls again.
sys_e1000_receive_sleep ==
    /\ kern = "sleep"
    /\ kern' = "free"
    /\ in_at' = "asleep"
    /\ waiting' = TRUE
    /\ UNCHANGED <<txVars, rxVars, irq, in_pkt, in_page, page, out_pkt, nsVars, userVars>>

wake == /\ waiting' = FALSE
        /\ in_at' = IF waiting THEN "recv" ELSE in_at

\* e1000_trap_handler() up to clear_e1000_interrupt().
e1000_trap_handler ==
    /\ irq /\ kern = "free"
    /\ wake
    /\ kern' = "ack"
    /\ UNCHANGED <<txVars, rxVars, irq, in_pkt, in_page, page, out_pkt, nsVars, userVars>>

clear_e1000_interrupt ==
    /\ kern = "ack"
    /\ irq' = FALSE
    /\ kern' = "free"
    /\ UNCHANGED <<txVars, rxVars, waiting, in_at, in_pkt, in_page, page, out_pkt, nsVars, userVars>>

\* An idle CPU's sched_yield() runs an environment that waits for a packet.
sched_yield_idle ==
    /\ kern = "free" /\ waiting
    /\ wake
    /\ UNCHANGED <<txVars, rxVars, irq, kern, in_pkt, in_page, page, out_pkt, nsVars, userVars>>

\* A plausible bug: no new page, the packet goes into the one sent last.
input_SamePage ==
    LET new == IF in_page = NULL THEN Min(Pages) ELSE in_page
    IN  /\ in_at = "fill"
        /\ in_page' = new
        /\ page' = [page EXCEPT ![new] = in_pkt]
        /\ in_at' = "send"
        /\ UNCHANGED <<txVars, rxVars, irq, kern, waiting, in_pkt, out_pkt, nsVars, userVars>>

\* input(): a new page at nsipcbuf, and the packet into it.
input ==
    LET new == Min(Pages \ {in_page, req.page})
    IN  /\ in_at = "fill"
        /\ in_page' = new
        /\ page' = [page EXCEPT ![new] = in_pkt]
        /\ in_at' = "send"
        /\ UNCHANGED <<txVars, rxVars, irq, kern, waiting, in_pkt, out_pkt, nsVars, userVars>>

-----------------------------------------------------------------------------
(* The network server. *)

\* serve(), before ipc_recv(): get_buffer().
get_buffer ==
    LET unused == {i \in Bufs : ~buse[i]}
    IN  /\ ns_at = "get"
        /\ IF unused = {}
           THEN ns_at' = "panic" /\ UNCHANGED <<req, buse>>
           ELSE /\ buse' = [buse EXCEPT ![Min(unused)] = TRUE]
                /\ req' = [NoReq EXCEPT !.va = Min(unused)]
                /\ ns_at' = "recv"
        /\ UNCHANGED <<txVars, rxVars, irq, inVars, page, out_pkt, blocked, handed, made, userVars>>

\* ipc_send() of input() to the server, which is in ipc_recv().
input_ipc_send ==
    /\ in_at = "send" /\ ns_at = "recv"
    /\ req' = [req EXCEPT !.whom = Input, !.page = in_page]
    /\ ns_at' = "serve"
    /\ in_at' = "recv"
    /\ UNCHANGED <<txVars, rxVars, irq, kern, waiting, in_pkt, in_page, page, out_pkt,
                   buse, blocked, handed, made, userVars>>

\* The same of nsipc() in a client and of timer(), which is then at next.
send(u, next) ==
    /\ user[u] = "send" /\ ns_at = "recv"
    /\ req' = [req EXCEPT !.whom = u]
    /\ ns_at' = "serve"
    /\ user' = [user EXCEPT ![u] = next]
    /\ UNCHANGED <<txVars, rxVars, irq, inVars, page, out_pkt, buse, blocked, handed, made, asked>>

\* A plausible bug: nsipc() returns without waiting for the answer.
ipc_send_NoRecv(u) == send(u, "idle")

ipc_send(u) == send(u, "sent")

\* put_buffer() and sys_page_unmap() at the end of serve_thread().
put_buffer == buse' = [buse EXCEPT ![req.va] = FALSE]

\* The thread of NSREQ_INPUT: jif_input() gives lwIP the packet in the page;
\* the thread ends.  That may end the wait of another thread, which runs
\* before serve() receives again (thread_wakeups_pending()).
serve_input ==
    /\ ns_at = "serve" /\ req.whom = Input
    /\ handed' = Append(handed, page[req.page])
    /\ put_buffer
    /\ \/ ns_at' = "get" /\ req' = NoReq /\ UNCHANGED blocked
       \/ \E c \in Clients :
            /\ blocked[c] # NULL
            /\ ns_at' = "reply"
            /\ req' = [va |-> blocked[c], whom |-> c, page |-> NULL]
            /\ blocked' = [blocked EXCEPT ![c] = NULL]
    /\ UNCHANGED <<txVars, rxVars, irq, inVars, page, out_pkt, made, userVars>>

\* The thread of a client's request, and process_timer(), which lets the
\* timer threads of lwIP run: done, or with a packet to send first, or (a
\* client's accept, connect or recv) waiting for a packet.
serve_request ==
    /\ ns_at = "serve" /\ req.whom \in Users
    /\ \/ ns_at' = "reply" /\ UNCHANGED <<req, blocked, made>>
       \/ /\ made < MaxTx
          /\ made' = made + 1
          /\ ns_at' = "output"
          /\ UNCHANGED <<req, blocked>>
       \/ /\ req.whom \in Clients
          /\ blocked' = [blocked EXCEPT ![req.whom] = req.va]
          /\ ns_at' = "get" /\ req' = NoReq
          /\ UNCHANGED made
    /\ UNCHANGED <<txVars, rxVars, irq, inVars, page, out_pkt, buse, handed, userVars>>

\* low_level_output(): the packet goes to output(), once that receives.
low_level_output ==
    /\ ns_at = "output" /\ out_pkt = 0
    /\ out_pkt' = made
    /\ ns_at' = "reply"
    /\ UNCHANGED <<txVars, rxVars, irq, inVars, page, req, buse, blocked, handed, made, userVars>>

\* A plausible bug: the buffer of an answered request is not returned.
reply_NoPut ==
    /\ ns_at = "reply"
    /\ user[req.whom] = "wait"
    /\ user' = [user EXCEPT ![req.whom] = "idle"]
    /\ UNCHANGED buse
    /\ ns_at' = "get" /\ req' = NoReq
    /\ UNCHANGED <<txVars, rxVars, irq, inVars, page, out_pkt, blocked, handed, made, asked>>

\* The ipc_send() of serve_thread() and of process_timer(), to a sender that
\* is in ipc_recv(); put_buffer().
reply ==
    /\ ns_at = "reply"
    /\ user[req.whom] = "wait"
    /\ user' = [user EXCEPT ![req.whom] = "idle"]
    /\ put_buffer
    /\ ns_at' = "get" /\ req' = NoReq
    /\ UNCHANGED <<txVars, rxVars, irq, inVars, page, out_pkt, blocked, handed, made, asked>>

-----------------------------------------------------------------------------
(* output(), the clients and timer(). *)

\* sys_e1000_transmit() and e1000_transmit(), with the packet put into buffer
\* i and the tail advanced to t.  With the ring full the call gives up the CPU
\* and never gets to try again: the environment resumes with a result that is
\* no error, and the packet is lost.  It touches nothing of the receive side,
\* so that it is allowed while kern is not "free".
transmit(i, t) ==
    /\ out_pkt # 0
    /\ (tdt + 1) % NTXQ = tdh => "slow" \in Lapses
    /\ IF tx_dd[tdt]
       THEN /\ tx_paks' = [tx_paks EXCEPT ![i] = out_pkt]
            /\ tx_dd' = [tx_dd EXCEPT ![tdt] = FALSE]
            /\ tdt' = t
       ELSE UNCHANGED <<tx_paks, tx_dd, tdt>>
    /\ out_pkt' = 0
    /\ UNCHANGED <<tdh, wire, rxVars, irq, inVars, page, nsVars, userVars>>

\* Plausible bugs: the tail is advanced before the packet is put at it; it is not
\* advanced.
sys_e1000_transmit_NextBuffer == transmit((tdt + 1) % NTXQ, (tdt + 1) % NTXQ)
sys_e1000_transmit_NoTail == transmit(tdt, tdt)

sys_e1000_transmit == transmit(tdt, (tdt + 1) % NTXQ)

\* A client calls nsipc(); the time of timer() is over.
nsipc(u) ==
    /\ user[u] = "idle" /\ asked < MaxReq
    /\ user' = [user EXCEPT ![u] = "send"]
    /\ asked' = asked + 1
    /\ UNCHANGED <<txVars, rxVars, irq, inVars, page, out_pkt, nsVars>>

ipc_recv(u) ==
    /\ user[u] = "sent"
    /\ user' = [user EXCEPT ![u] = "wait"]
    /\ UNCHANGED <<txVars, rxVars, irq, inVars, page, out_pkt, nsVars, asked>>
-----------------------------------------------------------------------------
driver == sys_e1000_receive_sleep \/ e1000_trap_handler \/ clear_e1000_interrupt

server == \/ get_buffer \/ serve_input \/ serve_request
          \/ low_level_output \/ reply

Next == \/ card_receive \/ card_transmit
        \/ driver \/ sched_yield_idle
        \/ sys_e1000_receive \/ input \/ input_ipc_send
        \/ server
        \/ sys_e1000_transmit
        \/ \E u \in Users : ipc_send(u) \/ nsipc(u) \/ ipc_recv(u)

Spec == Init /\ [][Next]_vars

\* The card sends what it is given, the kernel finishes what it began and
\* takes interrupts, and every environment that can run gets to run.  No
\* packet need arrive, nobody need make a request, no CPU need be idle.
FairSpec == /\ Spec
            /\ WF_vars(card_transmit) /\ WF_vars(driver) /\ WF_vars(server)
            /\ WF_vars(sys_e1000_receive) /\ WF_vars(input) /\ WF_vars(input_ipc_send)
            /\ WF_vars(sys_e1000_transmit)
            /\ \A u \in Users : WF_vars(ipc_send(u)) /\ WF_vars(ipc_recv(u))

-----------------------------------------------------------------------------
(* Properties. *)

\* get_buffer() never panics, and no buffer is lost or shared: a buffer is in
\* use exactly when the server receives or serves a request in it, or one
\* thread waits with it, and the threads' buffers are different.  It needs more
\* buffers than clients that can be made to wait.
BuffersAccounted ==
    LET held == {c \in Clients : blocked[c] # NULL}
        using == {blocked[c] : c \in held} \cup ({req.va} \ {NULL})
    IN  /\ ns_at # "panic"
        /\ {i \in Bufs : buse[i]} = using
        /\ Cardinality(using) = Cardinality(held) + (IF req.va = NULL THEN 0 ELSE 1)

\* A client or timer() that has sent a request and is not answered yet has
\* just one request at the server: the one being served, or one that waits.
\* Its ipc_recv() is not for nothing, and no reply goes to an idle client.
RequestHeld ==
    \A u \in Users :
        LET served == ns_at \in {"serve", "output", "reply"} /\ req.whom = u
            waits == u \in Clients /\ blocked[u] # NULL
        IN  /\ user[u] \in {"sent", "wait"} <=> served \/ waits
            /\ ~(served /\ waits)

\* What the card stores reaches lwIP complete, in order, once each, though
\* it crosses the ring, input()'s buffer and a page shared with the server.
RxQueue == INSTANCE Fifo WITH Byte <- 1 .. MaxRx, Capacity <- NRXQ + 1,
                              sent <- [i \in 1 .. stored |-> i], got <- handed,
                              writers <- TRUE, eof <- FALSE
RxIsFifo == RxQueue!Spec

\* What lwIP makes reaches the wire complete, in order, once each.
TxQueue == INSTANCE Fifo WITH Byte <- 1 .. MaxTx, Capacity <- NTXQ + 1,
                              sent <- [i \in 1 .. made |-> i], got <- wire,
                              writers <- TRUE, eof <- FALSE
TxIsFifo == TxQueue!Spec

\* Once the card stops storing packets, lwIP is given all of them: no wake-up
\* is lost between e1000_receive() finding the ring empty and the
\* environment being marked, nor between the handler's look at the
\* environments and its acknowledgement of the interrupt.
RxArrives == stored > Len(handed) ~> stored = Len(handed)

\* Once lwIP makes no more packets, all are sent, and the server, which stands
\* still while output() is busy, goes on.
TxArrives == made > Len(wire) ~> made = Len(wire)
=============================================================================
