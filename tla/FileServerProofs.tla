-------------------------- MODULE FileServerProofs --------------------------
(***************************************************************************)
(* Proofs about module FileServer, for any number of clients, open files    *)
(* and descriptors; only OpensSucceed needs that no id overflows.           *)
(***************************************************************************)
EXTENDS FileServer, SetLemmas, FiniteSetTheorems, TLAPS

(* The inductive invariant. *)

\* A client inside a call has a request, of the kind that its place says.
RequestThere ==
    /\ req \in [Clients -> Request \cup {NULL}]
    /\ \A c \in Clients : at[c] \in {"send", "recv", "wait", "unmap"} => req[c] \in Request
    /\ \A c \in Clients : at[c] = "unmap" => req[c].type = "flush"

\* A request names the id that the Fd page still has, and the client still maps it.
RequestFresh ==
    \A c \in Clients : at[c] \in {"send", "recv", "wait"} /\ req[c].type \in {"use", "flush"} =>
        /\ fdtab[c][req[c].fd] # None
        /\ req[c].id = fd_id[fdtab[c][req[c].fd]]

\* The server works for a client that waits for it.
ServesWaiting == /\ srv = "recv" \/ whom \in Clients
                 /\ NoMutualSend

\* A page that goes with the answer is the one of the file that was asked for.
Denotes(id, i) == \E q \in Int : id = q * MAXOPEN + i
PageRight(i, name) == /\ o_fd[i] /\ o_file[i] = name /\ fd_id[i] = o_fileid[i]
                      /\ o_fileid[i] % MAXOPEN = i
AnswerRight == srv = "reply" =>
    /\ ret.pg # None => req[whom].type = "open" /\ PageRight(ret.pg, req[whom].name)
    /\ ret.r # "E_INVAL"

IdsRight == \A i \in Slots : Denotes(o_fileid[i], i)

IInv == /\ TypeOK /\ RequestThere /\ RequestFresh /\ ServesWaiting /\ AnswerRight
        /\ IdsRight /\ FdMeansFile

-----------------------------------------------------------------------------
\* The remainder by M of a number between a multiple of M and the next.
LEMMA RemainderOf ==
    ASSUME NEW M \in Nat \ {0}, NEW q \in Int, NEW r \in 0 .. M - 1
    PROVE  (q * M + r) % M = r
OBVIOUS

\* An o_fileid that denotes slot i has remainder i.
LEMMA SlotOfId ==
    ASSUME NEW i \in Slots, NEW id, Denotes(id, i)
    PROVE  id % MAXOPEN = i
BY FileServerAssumption, RemainderOf, Zenon DEF FileServerAssumption, Slots, Denotes

\* There are more ids than slots.
LEMMA IdModBig ==
    /\ MAXOPEN \in Nat \ {0} /\ IdMod \in Nat \ {0} /\ MAXOPEN <= IdMod
    /\ \A i \in Slots : i \in 0 .. IdMod - 1
<1>1. PICK k \in 1 .. IdMod : IdMod = 2 * k * MAXOPEN
  BY FileServerAssumption, Zenon DEF FileServerAssumption
<1>2. MAXOPEN \in Nat \ {0} /\ IdMod \in Nat \ {0}
  BY FileServerAssumption, <1>1 DEF FileServerAssumption
<1>3. MAXOPEN <= IdMod
  BY <1>1, <1>2
<1> QED
  BY <1>2, <1>3 DEF Slots

\* Adding MAXOPEN to an o_fileid keeps the slot that it denotes, also when it wraps.
LEMMA NextId ==
    ASSUME NEW i \in Slots, NEW id \in 0 .. IdMod - 1, Denotes(id, i)
    PROVE  /\ (id + MAXOPEN) % IdMod \in 0 .. IdMod - 1
           /\ Denotes((id + MAXOPEN) % IdMod, i)
<1>1. PICK k \in 1 .. IdMod : IdMod = 2 * k * MAXOPEN
  BY FileServerAssumption, Zenon DEF FileServerAssumption
<1>2. PICK q \in Int : id = q * MAXOPEN + i
  BY Zenon DEF Denotes
<1>3. MAXOPEN \in Nat \ {0} /\ IdMod \in Nat \ {0} /\ i \in Int
  BY IdModBig DEF Slots
<1>4. MAXOPEN <= IdMod
  BY IdModBig, Zenon
<1>5. (id + MAXOPEN) % IdMod = IF id + MAXOPEN < IdMod THEN id + MAXOPEN ELSE id + MAXOPEN - IdMod
  BY <1>3, <1>4
<1>6. /\ id + MAXOPEN = (q + 1) * MAXOPEN + i
      /\ id + MAXOPEN - IdMod = (q + 1 - 2 * k) * MAXOPEN + i
  BY <1>1, <1>2, <1>3
<1>7. q + 1 \in Int /\ q + 1 - 2 * k \in Int
  BY <1>1, <1>2
<1>8. (id + MAXOPEN) % IdMod \in 0 .. IdMod - 1
  BY <1>3, <1>4, <1>5
<1>9. Denotes(id + MAXOPEN, i) /\ Denotes(id + MAXOPEN - IdMod, i)
  BY <1>6, <1>7, Zenon DEF Denotes
<1> QED
  BY <1>5, <1>8, <1>9, Zenon

\* The descriptors of all clients are finitely many.
LEMMA HoldersFinite == \A i \in Slots : IsFiniteSet(Holders(i))
<1>1. IsFiniteSet(Fds)
  BY FileServerAssumption, FS_Interval DEF FileServerAssumption, Fds
<1>2. IsFiniteSet(Clients)
  BY FileServerAssumption, Zenon DEF FileServerAssumption
<1>3. IsFiniteSet(Clients \X Fds)
  BY <1>1, <1>2, FS_Product, Zenon
<1>4. \A i \in Slots : Holders(i) \in SUBSET (Clients \X Fds)
  BY Zenon DEF Holders
<1> QED
  BY <1>3, <1>4, FS_Subset, Zenon

\* A page without clients other than the server is mapped by nobody else.
LEMMA NoHolders ==
    ASSUME IInv, NEW i \in Slots, pageref(i) <= 1
    PROVE  Holders(i) = {}
<1>2. IsFiniteSet(Holders(i))
  BY HoldersFinite, Zenon
<1>3. CASE o_fd[i]
  <2>1. Cardinality(Holders(i)) \in Nat
    BY <1>2, FS_CardinalityType, Zenon
  <2>2. Cardinality(Holders(i)) = 0
    BY <2>1, <1>3 DEF pageref
  <2> QED
    BY <2>2, <1>2, FS_EmptySet, Zenon
<1>4. CASE ~o_fd[i]
  <2>1. ASSUME NEW x \in Clients \X Fds, fdtab[x[1]][x[2]] = i PROVE FALSE
    <3>1. x[1] \in Clients /\ x[2] \in Fds
      BY Zenon
    <3>2. i # None
      BY DEF Slots, None
    <3> QED
      BY <1>4, <2>1, <3>1, <3>2, Zenon DEF IInv, FdMeansFile
  <2> QED
    BY <2>1, Zenon DEF Holders
<1> QED
  BY <1>3, <1>4, Zenon

\* A page that a client maps is found by openfile_lookup().
LEMMA HolderFound ==
    ASSUME IInv, NEW c \in Clients, NEW n \in Fds, fdtab[c][n] # None
    PROVE  openfile_lookup(fd_id[fdtab[c][n]])
<1> DEFINE i == fdtab[c][n]
<1>1. /\ i \in Slots /\ o_fd[i] /\ fd_id[i] = o_fileid[i]
      /\ o_fileid[i] % MAXOPEN = i
  BY DEF IInv, FdMeansFile, TypeOK
<1>2. IsFiniteSet(Holders(i))
  BY <1>1, HoldersFinite, Zenon
<1>3. <<c, n>> \in Holders(i)
  BY Zenon DEF Holders
<1>4. Cardinality(Holders(i)) \in Nat /\ Cardinality(Holders(i)) # 0
  BY <1>2, <1>3, FS_CardinalityType, FS_EmptySet, Zenon
<1>5. pageref(i) > 1
  BY <1>1, <1>4 DEF pageref
<1> QED
  BY <1>1, <1>5, Zenon DEF openfile_lookup

-----------------------------------------------------------------------------
\* serve_init() establishes the invariant.
LEMMA InitInv == Init => IInv
<1> SUFFICES ASSUME Init PROVE IInv
  BY Zenon
<1> USE FileServerAssumption DEF FileServerAssumption, Init
<1>1. TypeOK
  <2>1. \A i \in Slots : i \in 0 .. IdMod - 1
    BY IdModBig, Zenon
  <2>2. 0 \in 0 .. IdMod - 1
    BY IdModBig
  <2> QED
    BY <2>1, <2>2, Zenon DEF TypeOK, NoFds, NoRet, Result, Steps
<1>2. RequestThere /\ RequestFresh /\ ServesWaiting /\ AnswerRight
  BY Zenon DEF RequestThere, RequestFresh, ServesWaiting, AnswerRight, NoMutualSend
<1>3. IdsRight
  <2> SUFFICES ASSUME NEW i \in Slots PROVE i = 0 * MAXOPEN + i
    BY DEF IdsRight, Denotes
  <2> QED
    BY DEF Slots
<1>4. FdMeansFile
  BY Zenon DEF FdMeansFile, NoFds
<1> QED
  BY <1>1, <1>2, <1>3, <1>4, Zenon DEF IInv

\* A client starts a call, with a request r that is right when it is made.
LEMMA CallInv ==
    ASSUME IInv, NEW c \in Clients, at[c] = "idle", NEW r \in Request, Call(c, r),
           r.type \in {"use", "flush"} =>
               fdtab[c][r.fd] # None /\ r.id = fd_id[fdtab[c][r.fd]]
    PROVE  IInv'
<1> USE DEF IInv, Call, tabVars, srvVars
<1>1. TypeOK'
  BY Zenon DEF TypeOK, Steps, RequestThere
<1>2. RequestThere'
  BY Zenon DEF RequestThere, TypeOK
<1>3. RequestFresh'
  <2>1. /\ fdtab' = fdtab /\ fd_id' = fd_id /\ at'[c] = "send" /\ req'[c] = r /\ RequestFresh
        /\ \A d \in Clients \ {c} : at'[d] = at[d] /\ req'[d] = req[d]
    BY Zenon DEF RequestThere, TypeOK
  <2> HIDE DEF IInv, Call
  <2> QED
    BY <2>1, Zenon DEF RequestFresh
<1>4. ServesWaiting' /\ AnswerRight'
  BY Zenon DEF ServesWaiting, AnswerRight, NoMutualSend, PageRight, RequestThere, TypeOK
<1>5. IdsRight' /\ FdMeansFile'
  BY Zenon DEF IdsRight, FdMeansFile
<1> QED
  BY <1>1, <1>2, <1>3, <1>4, <1>5, Zenon

\* open() calls with the name and the first unused descriptor.
LEMMA OpenInv ==
    ASSUME IInv, NEW c \in Clients, NEW name \in Names \cup {NoName}, open(c, name)
    PROVE  IInv'
<1> DEFINE r == [type |-> "open", name |-> name, fd |-> Min(Unused(c))]
<1>1. Unused(c) # {} /\ Unused(c) \subseteq Fds
  BY Zenon DEF open, Unused
<1>2. Min(Unused(c)) \in Fds
  <2>1. Fds \subseteq Nat
    BY FileServerAssumption DEF FileServerAssumption, Fds
  <2> QED
    BY <1>1, <2>1, MinIn, Zenon
<1>3. r \in Request
  BY <1>2, Zenon DEF Request
<1> QED
  BY <1>3, CallInv, Zenon DEF open

\* read(), write() and close() call with the id in a page that the client maps.
LEMMA DevfileInv ==
    ASSUME IInv, NEW c \in Clients, NEW n \in Fds, NEW type \in {"use", "flush"},
           devfile(c, n, type)
    PROVE  IInv'
<1> DEFINE r == [type |-> type, id |-> fd_id[fdtab[c][n]], fd |-> n]
<1>1. fdtab[c][n] \in Slots
  BY DEF devfile, IInv, TypeOK
<1>2. r \in Request
  BY <1>1, Zenon DEF Request, IInv, TypeOK
<1> QED
  BY <1>2, CallInv, Zenon DEF devfile

\* The server takes a request; the client that made it is going to wait.
LEMMA SendInv ==
    ASSUME IInv, NEW c \in Clients, ipc_send(c)
    PROVE  IInv'
<1> USE DEF IInv, ipc_send, send, tabVars
<1>1. TypeOK'
  BY Zenon DEF TypeOK, Steps
<1>2. RequestThere' /\ RequestFresh'
  BY Zenon DEF RequestThere, RequestFresh, TypeOK
<1>3. ServesWaiting' /\ AnswerRight'
  BY Zenon DEF ServesWaiting, AnswerRight, NoMutualSend, TypeOK
<1>4. IdsRight' /\ FdMeansFile'
  BY Zenon DEF IdsRight, FdMeansFile
<1> QED
  BY <1>1, <1>2, <1>3, <1>4, Zenon

\* sys_ipc_recv only moves the client on.
LEMMA RecvInv ==
    ASSUME IInv, NEW c \in Clients, ipc_recv(c)
    PROVE  IInv'
<1> USE DEF IInv, ipc_recv, tabVars, srvVars
<1>1. TypeOK'
  BY Zenon DEF TypeOK, Steps
<1>2. RequestThere' /\ RequestFresh'
  BY Zenon DEF RequestThere, RequestFresh, TypeOK
<1>3. ServesWaiting' /\ AnswerRight'
  BY Zenon DEF ServesWaiting, AnswerRight, NoMutualSend, PageRight, TypeOK
<1>4. IdsRight' /\ FdMeansFile'
  BY Zenon DEF IdsRight, FdMeansFile
<1> QED
  BY <1>1, <1>2, <1>3, <1>4, Zenon

\* A step that leaves the server's tables alone and gives no client a page but one that
\* it, or another client, has already.
LEMMA FdStays ==
    ASSUME FdMeansFile,
           o_fd' = o_fd, o_file' = o_file, fd_id' = fd_id, o_fileid' = o_fileid,
           \A d \in Clients, k \in Fds : \/ fdtab'[d][k] = None
                                         \/ \E b \in Clients, j \in Fds :
                                              fdtab'[d][k] = fdtab[b][j] /\ opened'[d][k] = opened[b][j]
    PROVE  FdMeansFile'
<1>1. \A d \in Clients, k \in Fds : fdtab[d][k] # None => PageRight(fdtab[d][k], opened[d][k])
  BY DEF FdMeansFile, PageRight
<1> SUFFICES ASSUME NEW d \in Clients, NEW k \in Fds, fdtab'[d][k] # None
             PROVE  /\ o_fd'[fdtab'[d][k]] /\ o_file'[fdtab'[d][k]] = opened'[d][k]
                    /\ fd_id'[fdtab'[d][k]] = o_fileid'[fdtab'[d][k]]
                    /\ o_fileid'[fdtab'[d][k]] % MAXOPEN = fdtab'[d][k]
  BY DEF FdMeansFile
<1>2. PICK b \in Clients, j \in Fds : fdtab'[d][k] = fdtab[b][j] /\ opened'[d][k] = opened[b][j]
  BY Zenon
<1>3. PageRight(fdtab[b][j], opened[b][j])
  BY <1>1, <1>2, Zenon
<1> QED
  BY <1>2, <1>3, Zenon DEF PageRight

\* fd_close() unmaps the page that its FLUSH was about.
LEMMA CloseInv ==
    ASSUME IInv, NEW c \in Clients, fd_close(c)
    PROVE  IInv'
<1>1. req[c] \in Request /\ req[c].fd \in Fds
  BY Zenon DEF IInv, fd_close, RequestThere, Request
<1>2. TypeOK'
  BY <1>1, Zenon DEF IInv, fd_close, tabVars, srvVars, TypeOK, Steps, RequestThere
<1>3. /\ at'[c] = "idle" /\ req'[c] = NULL
      /\ \A d \in Clients \ {c} : at'[d] = at[d] /\ req'[d] = req[d] /\ fdtab'[d] = fdtab[d]
  BY Zenon DEF IInv, fd_close, TypeOK, RequestThere
<1>4. /\ o_fd' = o_fd /\ o_file' = o_file /\ fd_id' = fd_id /\ o_fileid' = o_fileid
  BY Zenon DEF fd_close, tabVars
<1>5. RequestThere'
  <2>1. req' \in [Clients -> Request \cup {NULL}]
    BY Zenon DEF IInv, fd_close, RequestThere
  <2>2. RequestThere
    BY Zenon DEF IInv
  <2> QED
    BY <1>3, <2>1, <2>2, Zenon DEF RequestThere
<1>6. RequestFresh'
  <2>1. RequestFresh
    BY Zenon DEF IInv
  <2> QED
    BY <1>3, <1>4, <2>1, Zenon DEF RequestFresh
<1>7. ServesWaiting' /\ AnswerRight'
  BY <1>1, Zenon DEF IInv, fd_close, tabVars, srvVars, ServesWaiting, AnswerRight, NoMutualSend,
                     PageRight, TypeOK, RequestThere
<1>8. IdsRight'
  BY <1>4, Zenon DEF IInv, IdsRight
<1>9. FdMeansFile'
  <2>1. /\ fdtab \in [Clients -> [Fds -> Slots \cup {None}]]
        /\ opened \in [Clients -> [Fds -> Names \cup {NULL}]]
    BY Zenon DEF IInv, TypeOK
  <2>2. \A d \in Clients, k \in Fds : \/ fdtab'[d][k] = None
                                      \/ fdtab'[d][k] = fdtab[d][k] /\ opened'[d][k] = opened[d][k]
    BY <1>1, <2>1 DEF fd_close
  <2>3. FdMeansFile
    BY Zenon DEF IInv
  <2> QED
    BY <1>4, <2>2, <2>3, FdStays, Zenon
<1> QED
  BY <1>2, <1>5, <1>6, <1>7, <1>8, <1>9, Zenon DEF IInv

\* dup() makes another descriptor of the same page.
LEMMA DupInv ==
    ASSUME IInv, NEW c \in Clients, NEW n \in Fds, NEW m \in Fds, dup(c, n, m)
    PROVE  IInv'
<1>1. /\ fdtab \in [Clients -> [Fds -> Slots \cup {None}]]
      /\ opened \in [Clients -> [Fds -> Names \cup {NULL}]]
  BY Zenon DEF IInv, TypeOK
<1>2. /\ fdtab' = [fdtab EXCEPT ![c][m] = fdtab[c][n]]
      /\ opened' = [opened EXCEPT ![c][m] = opened[c][n]]
      /\ fdtab[c][m] = None /\ at[c] = "idle"
  BY Zenon DEF dup
<1>3. /\ o_fd' = o_fd /\ o_file' = o_file /\ fd_id' = fd_id /\ o_fileid' = o_fileid
      /\ at' = at /\ req' = req /\ srv' = srv /\ whom' = whom /\ ret' = ret
  BY Zenon DEF dup, tabVars, srvVars
<1>4. TypeOK'
  <2>1. /\ fdtab' \in [Clients -> [Fds -> Slots \cup {None}]]
        /\ opened' \in [Clients -> [Fds -> Names \cup {NULL}]]
    BY <1>1, <1>2
  <2> QED
    BY <1>3, <2>1, Zenon DEF IInv, TypeOK
<1>5. RequestThere' /\ ServesWaiting' /\ AnswerRight' /\ IdsRight'
  BY <1>3, Zenon DEF IInv, RequestThere, ServesWaiting, AnswerRight, NoMutualSend, PageRight, IdsRight
<1>6. RequestFresh'
  <2>1. RequestFresh
    BY Zenon DEF IInv
  <2>2. \A d \in Clients : at[d] \in {"send", "recv", "wait"} => fdtab'[d] = fdtab[d]
    BY <1>1, <1>2, Zenon
  <2> QED
    BY <1>3, <2>1, <2>2, Zenon DEF RequestFresh
<1>7. FdMeansFile'
  <2>1. FdMeansFile
    BY Zenon DEF IInv
  <2>2. \A d \in Clients, k \in Fds : \E j \in Fds :
           fdtab'[d][k] = fdtab[d][j] /\ opened'[d][k] = opened[d][j]
    BY <1>1, <1>2
  <2> QED
    BY <1>3, <2>1, <2>2, FdStays, Zenon
<1> QED
  BY <1>4, <1>5, <1>6, <1>7, Zenon DEF IInv

\* The child's descriptors are the parent's.
LEMMA ForkInv ==
    ASSUME IInv, NEW c \in Clients, NEW d \in Clients, fork(c, d)
    PROVE  IInv'
<1> USE DEF IInv, fork, tabVars, srvVars
<1>1. TypeOK'
  BY Zenon DEF TypeOK, Steps
<1>2. RequestThere' /\ RequestFresh'
  <2>1. \A e \in Clients : at'[e] # at[e] \/ fdtab'[e] # fdtab[e] => at'[e] = "idle"
    BY Zenon DEF TypeOK
  <2>2. req' = req /\ fd_id' = fd_id
    BY Zenon
  <2>3. RequestThere /\ RequestFresh
    BY Zenon
  <2> HIDE DEF IInv, fork
  <2>4. RequestThere'
    BY <2>1, <2>2, <2>3 DEF RequestThere
  <2>5. RequestFresh'
    BY <2>1, <2>2, <2>3 DEF RequestFresh
  <2> QED
    BY <2>4, <2>5, Zenon
<1>3. ServesWaiting' /\ AnswerRight'
  BY Zenon DEF ServesWaiting, AnswerRight, NoMutualSend, PageRight, TypeOK
<1>4. IdsRight'
  BY Zenon DEF IdsRight
<1>5. FdMeansFile'
  <2>1. \A e \in Clients : \E b \in Clients : fdtab'[e] = fdtab[b] /\ opened'[e] = opened[b]
    BY Zenon DEF TypeOK
  <2>2. o_fd' = o_fd /\ o_file' = o_file /\ fd_id' = fd_id /\ o_fileid' = o_fileid
    BY Zenon
  <2> HIDE DEF fork
  <2> QED
    BY <2>1, <2>2, FdStays, Zenon
<1> QED
  BY <1>1, <1>2, <1>3, <1>4, <1>5, Zenon

\* The exit of a client takes its descriptors away; it has no request.
LEMMA FreeInv ==
    ASSUME IInv, NEW c \in Clients, env_free(c)
    PROVE  IInv'
<1> USE DEF IInv, env_free, tabVars, srvVars
<1>1. TypeOK'
  BY Zenon DEF TypeOK, Steps, NoFds
<1>2. RequestThere' /\ RequestFresh'
  BY Zenon DEF RequestThere, RequestFresh, TypeOK
<1>3. ServesWaiting' /\ AnswerRight'
  BY Zenon DEF ServesWaiting, AnswerRight, NoMutualSend, PageRight, TypeOK
<1>4. IdsRight'
  BY Zenon DEF IdsRight
<1>5. FdMeansFile'
  <2>1. \A e \in Clients, k \in Fds :
           \/ fdtab'[e][k] = None
           \/ fdtab'[e][k] = fdtab[e][k] /\ opened'[e][k] = opened[e][k]
    BY Zenon DEF TypeOK, NoFds
  <2>2. o_fd' = o_fd /\ o_file' = o_file /\ fd_id' = fd_id /\ o_fileid' = o_fileid
    BY Zenon
  <2> HIDE DEF env_free
  <2> QED
    BY <2>1, <2>2, FdStays, Zenon
<1> QED
  BY <1>1, <1>2, <1>3, <1>4, <1>5, Zenon

\* openfile_alloc() gives a slot that no client maps, so nothing that a client has
\* is disturbed; what its page says is right if it goes with the answer.
LEMMA ServeOpenInv ==
    ASSUME IInv, serve_open
    PROVE  IInv'
<1> USE DEF IInv, serve_open, Answer, tabVars
<1>1. /\ whom \in Clients /\ at[whom] \in {"recv", "wait"}
      /\ req[whom] \in Request /\ req[whom].type = "open"
  BY Zenon DEF ServesWaiting, NoMutualSend, RequestThere
<1>2. CASE Available = {}
  <2>0. /\ srv' = "reply" /\ ret' = [r |-> "E_MAX_OPEN", pg |-> None]
        /\ whom' = whom /\ fdtab' = fdtab /\ opened' = opened /\ at' = at /\ req' = req
        /\ o_fd' = o_fd /\ o_file' = o_file /\ fd_id' = fd_id /\ o_fileid' = o_fileid
    BY <1>2, Zenon
  <2> HIDE DEF serve_open
  <2>1. TypeOK'
    <3>1. ret' \in [r : Result, pg : Slots \cup {None}]
      BY <2>0, Zenon DEF Result
    <3> QED
      BY <2>0, <3>1, Zenon DEF TypeOK
  <2>2. RequestThere' /\ RequestFresh'
    BY <2>0, Zenon DEF RequestThere, RequestFresh
  <2>3. ServesWaiting' /\ AnswerRight'
    BY <1>1, <2>0 DEF ServesWaiting, AnswerRight, NoMutualSend
  <2>4. IdsRight' /\ FdMeansFile'
    <3>1. IdsRight'
      BY <2>0, Zenon DEF IdsRight
    <3>2. FdMeansFile'
      BY <2>0, FdStays, Zenon
    <3> QED
      BY <3>1, <3>2, Zenon
  <2> QED
    BY <2>1, <2>2, <2>3, <2>4, Zenon
<1>3. CASE Available # {}
  <2> DEFINE i == openfile_alloc
             id == (o_fileid[i] + MAXOPEN) % IdMod
             ok == ~(id >= IdMod \div 2) /\ req[whom].name # NoName
  <2>1. i \in Available
    <3>1. Available \in SUBSET Nat
      BY IdModBig DEF Available, Slots
    <3> QED
      BY <1>3, <3>1, MinIn, Zenon DEF openfile_alloc
  <2>2. i \in Slots /\ Holders(i) = {}
    BY <2>1, NoHolders, Zenon DEF Available
  <2>3. \A c \in Clients, n \in Fds : fdtab[c][n] # i
    <3> SUFFICES ASSUME NEW c \in Clients, NEW n \in Fds, fdtab[c][n] = i PROVE FALSE
      BY Zenon
    <3>1. <<c, n>> \in Holders(i)
      BY Zenon DEF Holders
    <3> QED
      BY <3>1, <2>2, Zenon
  <2>4. id \in 0 .. IdMod - 1 /\ Denotes(id, i)
    BY <2>2, NextId, Zenon DEF TypeOK, IdsRight
  <2>5. id % MAXOPEN = i
    BY <2>2, <2>4, SlotOfId, Zenon
  <2>6. /\ o_fd' = [o_fd EXCEPT ![i] = TRUE]
        /\ o_fileid' = [o_fileid EXCEPT ![i] = id]
        /\ fd_id' = [fd_id EXCEPT ![i] = IF ok THEN id ELSE 0]
        /\ o_file' = IF ok THEN [o_file EXCEPT ![i] = req[whom].name] ELSE o_file
        /\ srv' = "reply" /\ UNCHANGED <<whom, fdtab, opened, at, req>>
        /\ ret'.r \in Result \ {"E_INVAL"}
        /\ ret'.pg = IF ok THEN i ELSE None
        /\ ret' = [r |-> ret'.r, pg |-> ret'.pg]
    BY <1>3 DEF Result
  <2>7. 0 \in 0 .. IdMod - 1
    BY IdModBig
  <2>8. ok => req[whom].name \in Names
    BY <1>1, Zenon DEF Request
  <2>a. /\ whom' = whom /\ fdtab' = fdtab /\ opened' = opened /\ at' = at /\ req' = req
        /\ \A j \in Slots \ {i} : /\ o_fd'[j] = o_fd[j] /\ o_fileid'[j] = o_fileid[j]
                                 /\ fd_id'[j] = fd_id[j] /\ o_file'[j] = o_file[j]
        /\ o_fd'[i] /\ o_fileid'[i] = id
        /\ ok => fd_id'[i] = id /\ o_file'[i] = req[whom].name
    BY <2>2, <2>6, Zenon DEF TypeOK
  <2> HIDE DEF i, id, ok, serve_open, Answer, openfile_alloc
  <2>9. TypeOK'
    BY <1>1, <2>2, <2>4, <2>6, <2>7, <2>8 DEF TypeOK
  <2>10. RequestThere' /\ RequestFresh'
    <3>1. RequestThere'
      BY <2>a, Zenon DEF RequestThere
    <3>2. RequestThere /\ RequestFresh /\ fdtab \in [Clients -> [Fds -> Slots \cup {None}]]
      BY Zenon DEF TypeOK
    <3> HIDE DEF IInv
    <3> SUFFICES ASSUME NEW c \in Clients,
                        at[c] \in {"send", "recv", "wait"}, req[c].type \in {"use", "flush"}
                 PROVE  fdtab[c][req[c].fd] # None /\ req[c].id = fd_id'[fdtab[c][req[c].fd]]
      BY <2>a, <3>1, Zenon DEF RequestFresh
    <3>3. req[c] \in Request /\ req[c].fd \in Fds
      BY <3>2, Zenon DEF RequestThere, Request
    <3>4. fdtab[c][req[c].fd] # None /\ req[c].id = fd_id[fdtab[c][req[c].fd]]
      BY <3>2, Zenon DEF RequestFresh
    <3>5. fdtab[c][req[c].fd] \in Slots \cup {None}
      BY <3>2, <3>3, Zenon
    <3>6. fdtab[c][req[c].fd] # i
      BY <2>3, <3>3, Zenon
    <3> QED
      BY <2>a, <3>4, <3>5, <3>6, Zenon
  <2>11. ServesWaiting' /\ AnswerRight'
    <3>1. ServesWaiting'
      BY <1>1, <2>6, <2>a, Zenon DEF ServesWaiting, NoMutualSend
    <3> HIDE DEF IInv
    <3>2. ret'.r # "E_INVAL"
      BY <2>6, Zenon
    <3>3. ret'.pg # None => ok /\ ret'.pg = i
      BY <2>6, Zenon
    <3>4. ret'.pg # None =>
            /\ req'[whom'].type = "open"
            /\ o_fd'[ret'.pg] /\ o_file'[ret'.pg] = req'[whom'].name
            /\ fd_id'[ret'.pg] = o_fileid'[ret'.pg] /\ o_fileid'[ret'.pg] % MAXOPEN = ret'.pg
      BY <1>1, <2>5, <2>a, <3>3, Zenon
    <3> QED
      BY <3>1, <3>2, <3>4, Zenon DEF AnswerRight, PageRight
  <2>12. IdsRight' /\ FdMeansFile'
    <3>1. IdsRight'
      BY <2>4, <2>a, Zenon DEF IdsRight
    <3>2. FdMeansFile /\ fdtab \in [Clients -> [Fds -> Slots \cup {None}]]
      BY Zenon DEF TypeOK
    <3> HIDE DEF IInv
    <3>3. FdMeansFile'
      BY <2>3, <2>a, <3>2 DEF FdMeansFile
    <3> QED
      BY <3>1, <3>3, Zenon
  <2> QED
    BY <2>9, <2>10, <2>11, <2>12, Zenon
<1> QED
  BY <1>2, <1>3, Zenon
\* The lookup finds every id that a request names.
LEMMA ServeRequestInv ==
    ASSUME IInv, serve_request
    PROVE  IInv'
<1> USE DEF IInv, serve_request, Answer, tabVars
<1>1. /\ whom \in Clients /\ at[whom] \in {"recv", "wait"}
      /\ req[whom] \in Request /\ req[whom].type \in {"use", "flush"}
  BY Zenon DEF ServesWaiting, NoMutualSend, RequestThere
<1>2. openfile_lookup(req[whom].id)
  <2>1. /\ req[whom].fd \in Fds /\ fdtab[whom][req[whom].fd] # None
        /\ req[whom].id = fd_id[fdtab[whom][req[whom].fd]]
    BY <1>1, Zenon DEF Request, RequestFresh
  <2> QED
    BY <1>1, <2>1, HolderFound, Zenon
<1>3. ret' = [r |-> "ok", pg |-> None]
  BY <1>2, Zenon
<1>4. TypeOK'
  BY <1>3 DEF TypeOK, Result
<1>5. RequestThere' /\ RequestFresh'
  BY Zenon DEF RequestThere, RequestFresh
<1>6. ServesWaiting' /\ AnswerRight'
  <2>1. ServesWaiting'
    BY <1>1, Zenon DEF ServesWaiting, NoMutualSend
  <2> HIDE DEF IInv, serve_request
  <2>2. ret'.r = "ok" /\ ret'.pg = None
    BY <1>3
  <2>3. AnswerRight'
    BY <2>2, Zenon DEF AnswerRight
  <2> QED
    BY <2>1, <2>3, Zenon
<1>7. IdsRight' /\ FdMeansFile'
  BY Zenon DEF IdsRight, FdMeansFile
<1> QED
  BY <1>4, <1>5, <1>6, <1>7, Zenon

\* The client that gets the answer maps the page that goes with it.
LEMMA ServeReplyInv ==
    ASSUME IInv, serve_reply
    PROVE  IInv'
<1> USE DEF IInv, serve_reply, reply, Return, tabVars
<1>1. /\ whom \in Clients /\ at[whom] = "wait" /\ req[whom] \in Request
      /\ req[whom].fd \in Fds
  BY Zenon DEF ServesWaiting, NoMutualSend, RequestThere, Request
<1>2. req[whom].type = "open" => req[whom].name \in Names \cup {NoName}
  BY <1>1, Zenon DEF Request
<1>3. ret.pg # None => /\ ret.pg \in Slots /\ req[whom].type = "open"
                       /\ req[whom].name \in Names /\ PageRight(ret.pg, req[whom].name)
  <2> SUFFICES ASSUME ret.pg # None
               PROVE  /\ ret.pg \in Slots /\ req[whom].type = "open"
                      /\ req[whom].name \in Names /\ PageRight(ret.pg, req[whom].name)
    BY Zenon
  <2>1. ret.pg \in Slots /\ req[whom].type = "open" /\ PageRight(ret.pg, req[whom].name)
    <3>1. ret.pg \in Slots \cup {None}
      BY Zenon DEF TypeOK
    <3>2. srv = "reply" /\ AnswerRight
      BY Zenon
    <3> QED
      BY <3>1, <3>2, Zenon DEF AnswerRight
  <2>2. req[whom].name \in Names \cup {NULL}
    BY <2>1, Zenon DEF TypeOK, PageRight
  <2>3. NULL \notin Names \cup {NoName}
    BY FileServerAssumption, Zenon DEF FileServerAssumption
  <2> QED
    BY <1>2, <2>1, <2>2, <2>3, Zenon
<1>4. TypeOK'
  <2>1. fdtab' \in [Clients -> [Fds -> Slots \cup {None}]]
    BY <1>1, <1>3, Zenon DEF TypeOK
  <2>2. opened' \in [Clients -> [Fds -> Names \cup {NULL}]]
    BY <1>1, <1>3, Zenon DEF TypeOK
  <2>3. at' \in [Clients -> Steps]
    BY <1>1, Zenon DEF TypeOK, Steps
  <2>4. \A c \in Clients : req'[c] = NULL \/ req'[c] \in Request
    BY <1>1, Zenon DEF TypeOK, RequestThere
  <2>5. ret' \in [r : Result, pg : Slots \cup {None}]
    BY Zenon DEF NoRet, Result
  <2> QED
    BY <2>1, <2>2, <2>3, <2>4, <2>5, Zenon DEF TypeOK
<1>5. RequestThere'
  BY <1>1, Zenon DEF RequestThere, TypeOK
<1>6. RequestFresh'
  <2>1. /\ at'[whom] \in {"idle", "unmap"} /\ fd_id' = fd_id /\ RequestFresh
        /\ \A d \in Clients \ {whom} : at'[d] = at[d] /\ req'[d] = req[d] /\ fdtab'[d] = fdtab[d]
    BY <1>1, Zenon DEF TypeOK, RequestThere
  <2> HIDE DEF IInv, serve_reply, reply, Return
  <2>2. \A d \in Clients : at'[d] \in {"send", "recv", "wait"} => d # whom
    BY <2>1
  <2> QED
    BY <2>1, <2>2, Zenon DEF RequestFresh
<1>7. ServesWaiting' /\ AnswerRight'
  BY Zenon DEF ServesWaiting, AnswerRight, NoMutualSend
<1>8. IdsRight'
  BY Zenon DEF IdsRight
<1>9. FdMeansFile'
  <2>1. /\ fdtab \in [Clients -> [Fds -> Slots \cup {None}]]
        /\ opened \in [Clients -> [Fds -> Names \cup {NULL}]]
        /\ FdMeansFile /\ o_fd' = o_fd /\ o_file' = o_file /\ fd_id' = fd_id /\ o_fileid' = o_fileid
    BY Zenon DEF TypeOK
  <2>2. \/ fdtab' = fdtab /\ opened' = opened
        \/ /\ ret.pg # None
           /\ fdtab' = [fdtab EXCEPT ![whom][req[whom].fd] = ret.pg]
           /\ opened' = [opened EXCEPT ![whom][req[whom].fd] = req[whom].name]
    BY <1>3, Zenon
  <2> HIDE DEF IInv, serve_reply, reply, Return
  <2> SUFFICES ASSUME NEW d \in Clients, NEW k \in Fds, fdtab'[d][k] # None
               PROVE  PageRight(fdtab'[d][k], opened'[d][k])
    BY <2>1 DEF FdMeansFile, PageRight
  <2>3. CASE fdtab'[d][k] = fdtab[d][k] /\ opened'[d][k] = opened[d][k]
    BY <2>1, <2>3 DEF FdMeansFile, PageRight
  <2>4. CASE ret.pg # None /\ fdtab'[d][k] = ret.pg /\ opened'[d][k] = req[whom].name
    BY <1>3, <2>4, Zenon
  <2>5. CASE fdtab' = fdtab /\ opened' = opened
    BY <2>3, <2>5, Zenon
  <2>6. CASE /\ ret.pg # None
             /\ fdtab' = [fdtab EXCEPT ![whom][req[whom].fd] = ret.pg]
             /\ opened' = [opened EXCEPT ![whom][req[whom].fd] = req[whom].name]
    <3>1. CASE d = whom /\ k = req[whom].fd
      BY <1>1, <2>1, <2>4, <2>6, <3>1
    <3>2. CASE ~(d = whom /\ k = req[whom].fd)
      BY <1>1, <2>1, <2>3, <2>6, <3>2
    <3> QED
      BY <3>1, <3>2, Zenon
  <2> QED
    BY <2>2, <2>5, <2>6, Zenon
<1> QED
  BY <1>4, <1>5, <1>6, <1>7, <1>8, <1>9, Zenon

-----------------------------------------------------------------------------
\* Every step of the clients and of the server preserves the invariant.
LEMMA NextInv == IInv /\ [Next]_vars => IInv'
<1> SUFFICES ASSUME IInv, [Next]_vars PROVE IInv'
  BY Zenon
<1>1. ASSUME NEW c \in Clients, NEW name \in Names \cup {NoName}, open(c, name) PROVE IInv'
  BY <1>1, OpenInv, Zenon
<1>2. ASSUME NEW c \in Clients, NEW n \in Fds, NEW type \in {"use", "flush"}, devfile(c, n, type)
      PROVE  IInv'
  BY <1>2, DevfileInv, Zenon
<1>3. ASSUME NEW c \in Clients, ipc_send(c) \/ ipc_recv(c) \/ fd_close(c) \/ env_free(c)
      PROVE  IInv'
  BY <1>3, SendInv, RecvInv, CloseInv, FreeInv, Zenon
<1>4. ASSUME NEW c \in Clients, NEW n \in Fds, NEW m \in Fds, dup(c, n, m) PROVE IInv'
  BY <1>4, DupInv, Zenon
<1>5. ASSUME NEW c \in Clients, NEW d \in Clients, fork(c, d) PROVE IInv'
  BY <1>5, ForkInv, Zenon
<1>6. CASE serve_open \/ serve_request \/ serve_reply
  BY <1>6, ServeOpenInv, ServeRequestInv, ServeReplyInv, Zenon
<1>7. CASE UNCHANGED vars
  <2>1. TypeOK' /\ RequestThere' /\ RequestFresh'
    BY <1>7, Zenon DEF IInv, vars, tabVars, srvVars, TypeOK, RequestThere, RequestFresh
  <2>2. ServesWaiting' /\ AnswerRight' /\ IdsRight' /\ FdMeansFile'
    <3>1. /\ fdtab' = fdtab /\ opened' = opened /\ at' = at /\ req' = req
          /\ srv' = srv /\ whom' = whom /\ ret' = ret
          /\ o_fd' = o_fd /\ o_file' = o_file /\ fd_id' = fd_id /\ o_fileid' = o_fileid
      BY <1>7, Zenon DEF vars, tabVars, srvVars
    <3>2. ServesWaiting' /\ AnswerRight' /\ IdsRight'
      BY <3>1, Zenon DEF IInv, ServesWaiting, AnswerRight, NoMutualSend, PageRight, IdsRight
    <3>3. FdMeansFile'
      BY <3>1, FdStays, Zenon DEF IInv
    <3> QED
      BY <3>2, <3>3, Zenon
  <2> QED
    BY <2>1, <2>2, Zenon DEF IInv
<1> QED
  BY <1>1, <1>2, <1>3, <1>4, <1>5, <1>6, <1>7, Zenon DEF Next

\* The invariant holds in every state of every behaviour.
LEMMA Invariance == Spec => []IInv
<1>1. Init => IInv
  BY InitInv, Zenon
<1>2. IInv /\ [Next]_vars => IInv'
  BY NextInv, Zenon
<1> QED
  BY <1>1, <1>2, PTL DEF Spec

\* A descriptor that some client has denotes the file it was opened on, through dup(),
\* fork(), exits and the reuse of slots by openfile_alloc().
THEOREM DescriptorsKeepTheirFile == Spec => []FdMeansFile
<1>1. IInv => FdMeansFile
  BY Zenon DEF IInv
<1> QED
  BY <1>1, Invariance, PTL

\* openfile_lookup() never refuses an id that a client read from its Fd page.
THEOREM IdsAreNeverStale == Spec => []NoStaleId
<1>1. IInv => NoStaleId
  BY Zenon DEF IInv, AnswerRight, NoStaleId
<1> QED
  BY <1>1, Invariance, PTL

\* The server's ipc_send() never meets a client that is itself in ipc_send().
THEOREM ServerNeverMeetsSender == Spec => []NoMutualSend
<1>1. IInv => NoMutualSend
  BY Zenon DEF IInv, ServesWaiting
<1> QED
  BY <1>1, Invariance, PTL

\* The open file table, the clients' descriptors and the messages are well formed.
THEOREM FileServerType == Spec => []TypeOK
<1>1. IInv => TypeOK
  BY Zenon DEF IInv
<1> QED
  BY <1>1, Invariance, PTL
-----------------------------------------------------------------------------
(* Opening a file.  Without the lapse "ids" an o_fileid stays below IdMod \div 2,   *)
(* where it would be negative as an int: each open that is under way raises one.  *)

Pending == {c \in Clients : (at[c] = "send" \/ (srv = "work" /\ whom = c)) /\ req[c].type = "open"}
Room == \A i \in Slots : o_fileid[i] + MAXOPEN * Cardinality(Pending) < IdMod \div 2

\* Half the ids are a multiple of MAXOPEN, and more than there are slots.
LEMMA HalfOfIds ==
    /\ IdMod \div 2 \in Nat /\ IdMod \div 2 < IdMod
    /\ \A i \in Slots : i < IdMod \div 2
<1>1. PICK k \in 1 .. IdMod : IdMod = 2 * k * MAXOPEN
  BY FileServerAssumption, Zenon DEF FileServerAssumption
<1>2. MAXOPEN \in Nat \ {0} /\ IdMod \in Nat \ {0}
  BY IdModBig, Zenon
<1>3. k * MAXOPEN >= MAXOPEN /\ k * MAXOPEN \in Nat
  BY <1>1, <1>2
<1>4. IdMod = 2 * (k * MAXOPEN)
  BY <1>1, <1>2
<1> DEFINE h == k * MAXOPEN
<1>5. h \in Nat /\ h >= MAXOPEN /\ IdMod = 2 * h
  BY <1>3, <1>4, Zenon
<1> HIDE DEF h
<1>6. IdMod \div 2 = h
  BY <1>5
<1> QED
  BY <1>2, <1>5, <1>6 DEF Slots

\* What n opens may add to the ids.
LEMMA Products ==
    ASSUME NEW M \in Nat \ {0}, NEW a \in Nat, NEW b \in Nat
    PROVE  /\ M * a \in Nat /\ M * (a + 1) = M * a + M
           /\ a <= b => M * a <= M * b
<1>1. M * a \in Nat /\ M * b \in Nat /\ M * (a + 1) = M * a + M
  OBVIOUS
<1>2. ASSUME a <= b PROVE M * a <= M * b
  <2>1. b - a \in Nat /\ M * (b - a) \in Nat
    BY <1>2
  <2>2. M * b = M * a + M * (b - a)
    OBVIOUS
  <2> QED
    BY <1>1, <2>1, <2>2
<1> QED
  BY <1>1, <1>2, Zenon

\* The clients with an open under way are finitely many.
LEMMA PendingFinite ==
    /\ IsFiniteSet(Pending) /\ Cardinality(Pending) \in Nat
    /\ IsFiniteSet(Clients) /\ Cardinality(Clients) \in Nat
    /\ Cardinality(Pending) <= Cardinality(Clients)
<1>1. IsFiniteSet(Clients)
  BY FileServerAssumption, Zenon DEF FileServerAssumption
<1>2. Pending \in SUBSET Clients
  BY Zenon DEF Pending
<1> QED
  BY <1>1, <1>2, FS_Subset, FS_CardinalityType, Zenon

\* Room stays when no open begins and no id changes.
LEMMA RoomStays ==
    ASSUME TypeOK, Room, UNCHANGED o_fileid, Pending' \subseteq Pending
    PROVE  Room'
<1> DEFINE a == Cardinality(Pending')
           b == Cardinality(Pending)
<1>1. a \in Nat /\ b \in Nat /\ a <= b
  <2>1. IsFiniteSet(Pending)
    BY PendingFinite, Zenon
  <2>2. Pending' \in SUBSET Pending
    BY Zenon
  <2> QED
    BY <2>1, <2>2, FS_Subset, FS_CardinalityType, Zenon
<1>2. MAXOPEN \in Nat \ {0} /\ IdMod \div 2 \in Nat
  BY IdModBig, HalfOfIds, Zenon
<1>3. \A i \in Slots : o_fileid[i] \in Nat /\ o_fileid[i] + MAXOPEN * b < IdMod \div 2
  BY IdModBig DEF TypeOK, Room
<1> HIDE DEF a, b
<1>4. MAXOPEN * a <= MAXOPEN * b /\ MAXOPEN * a \in Nat /\ MAXOPEN * b \in Nat
  BY <1>1, <1>2, Products, Zenon
<1>5. \A i \in Slots : o_fileid[i] + MAXOPEN * a < IdMod \div 2
  BY <1>2, <1>3, <1>4
<1> QED
  BY <1>5, Zenon DEF Room, a

\* A client begins an open only if there is room for one by every client.
LEMMA RoomOpen ==
    ASSUME Lapses = {}, TypeOK, NEW c \in Clients, NEW name, open(c, name)
    PROVE  Room'
<1> DEFINE a == Cardinality(Pending')
           b == Cardinality(Clients)
<1>1. a \in Nat /\ b \in Nat /\ a <= b
  <2>1. Pending' \in SUBSET Clients
    BY Zenon DEF Pending
  <2> QED
    BY <2>1, PendingFinite, FS_Subset, FS_CardinalityType, Zenon
<1>2. MAXOPEN \in Nat \ {0} /\ IdMod \div 2 \in Nat
  BY IdModBig, HalfOfIds, Zenon
<1>3. \A i \in Slots : o_fileid[i] \in Nat /\ o_fileid[i] < IdMod \div 2 - MAXOPEN * b
  BY IdModBig DEF TypeOK, open, MaxId
<1>4. UNCHANGED o_fileid
  BY Zenon DEF open, Call, tabVars
<1> HIDE DEF a, b
<1>5. MAXOPEN * a <= MAXOPEN * b /\ MAXOPEN * a \in Nat /\ MAXOPEN * b \in Nat
  BY <1>1, <1>2, Products, Zenon
<1>6. \A i \in Slots : o_fileid[i] + MAXOPEN * a < IdMod \div 2
  BY <1>2, <1>3, <1>5
<1> QED
  BY <1>4, <1>6, Zenon DEF Room, a

\* While the server works on an open, no id is so large that the next is negative.
LEMMA RoomForOne ==
    ASSUME TypeOK, ServesWaiting, Room, srv = "work", req[whom].type = "open", NEW i \in Slots
    PROVE  /\ (o_fileid[i] + MAXOPEN) % IdMod = o_fileid[i] + MAXOPEN
           /\ o_fileid[i] \in Nat /\ o_fileid[i] + MAXOPEN < IdMod \div 2
<1>1. whom \in Pending
  BY Zenon DEF Pending, ServesWaiting
<1>2. Cardinality(Pending) \in Nat /\ Cardinality(Pending) >= 1
  <2>1. IsFiniteSet(Pending) /\ Cardinality(Pending) \in Nat
    BY PendingFinite, Zenon
  <2>2. Cardinality(Pending) # 0
    BY <1>1, <2>1, FS_EmptySet, Zenon
  <2> QED
    BY <2>1, <2>2
<1> DEFINE b == Cardinality(Pending)
<1>3. o_fileid[i] + MAXOPEN * b < IdMod \div 2
  BY Zenon DEF Room
<1>4. MAXOPEN \in Nat \ {0} /\ IdMod \div 2 \in Nat /\ IdMod \div 2 < IdMod /\ IdMod \in Nat
  BY IdModBig, HalfOfIds, Zenon
<1>5. o_fileid[i] \in Nat
  BY DEF TypeOK
<1>6. b \in Nat /\ 1 <= b
  BY <1>2, Zenon
<1> HIDE DEF b
<1>7. MAXOPEN * 1 <= MAXOPEN * b /\ MAXOPEN * b \in Nat
  BY <1>4, <1>6, Products, Zenon
<1>8. o_fileid[i] + MAXOPEN < IdMod \div 2
  BY <1>3, <1>4, <1>5, <1>7
<1> QED
  BY <1>4, <1>5, <1>8

\* The server's answer to an open uses up the room that was kept for it.
LEMMA RoomServed ==
    ASSUME IInv, Room, serve_open
    PROVE  Room'
<1>1. TypeOK /\ ServesWaiting /\ srv = "work" /\ req[whom].type = "open"
  BY Zenon DEF IInv, serve_open
<1>2. whom \in Pending
  BY <1>1, Zenon DEF Pending, ServesWaiting
<1>3. srv' = "reply" /\ UNCHANGED <<at, req, whom>>
  BY Zenon DEF serve_open, Answer
<1>4. Pending' = Pending \ {whom}
  BY <1>1, <1>3, Zenon DEF Pending, ServesWaiting, NoMutualSend
<1>5. CASE Available = {}
  <2>1. UNCHANGED o_fileid
    BY <1>5, Zenon DEF serve_open, tabVars
  <2> QED
    BY <1>1, <1>4, <2>1, RoomStays, Zenon
<1>6. CASE Available # {}
  <2> DEFINE i == openfile_alloc
             a == Cardinality(Pending')
  <2>1. o_fileid' = [o_fileid EXCEPT ![i] = (o_fileid[i] + MAXOPEN) % IdMod]
    BY <1>6, Zenon DEF serve_open
  <2>2. i \in Slots
    BY <1>6, MinIn DEF openfile_alloc, Available, Slots
  <2>3. a \in Nat /\ Cardinality(Pending) = a + 1
    <3>1. IsFiniteSet(Pending)
      BY PendingFinite, Zenon
    <3>2. IsFiniteSet(Pending') /\ Cardinality(Pending') = Cardinality(Pending) - 1
      BY <1>2, <1>4, <3>1, FS_RemoveElement, Zenon
    <3> QED
      BY <3>1, <3>2, FS_CardinalityType
  <2>4. MAXOPEN \in Nat \ {0} /\ IdMod \div 2 \in Nat
    BY IdModBig, HalfOfIds, Zenon
  <2>5. \A j \in Slots : o_fileid[j] \in Nat /\ o_fileid[j] + MAXOPEN * (a + 1) < IdMod \div 2
    BY <1>1, <2>3 DEF TypeOK, Room
  <2>6. o_fileid'[i] = o_fileid[i] + MAXOPEN /\ \A j \in Slots \ {i} : o_fileid'[j] = o_fileid[j]
    BY <1>1, <2>1, <2>2, RoomForOne, Zenon DEF TypeOK
  <2> HIDE DEF a, i
  <2>7. MAXOPEN * (a + 1) = MAXOPEN * a + MAXOPEN /\ MAXOPEN * a \in Nat
    BY <2>3, <2>4, Products, Zenon
  <2>8. \A j \in Slots : o_fileid'[j] + MAXOPEN * a < IdMod \div 2
    BY <2>2, <2>4, <2>5, <2>6, <2>7
  <2> QED
    BY <2>8, Zenon DEF Room, a
<1> QED
  BY <1>5, <1>6, Zenon

\* No other step begins an open or changes an id.
LEMMA NoNewOpen ==
    ASSUME IInv, NEW c \in Clients,
           \/ \E n \in Fds, type \in {"use", "flush"} : devfile(c, n, type)
           \/ ipc_send(c) \/ ipc_recv(c) \/ fd_close(c)
           \/ \E n, m \in Fds : dup(c, n, m)
           \/ \E d \in Clients : fork(c, d)
           \/ env_free(c)
           \/ serve_request \/ serve_reply
    PROVE  UNCHANGED o_fileid /\ Pending' \subseteq Pending
<1> USE DEF tabVars, srvVars
<1>t. /\ at \in [Clients -> Steps] /\ req \in [Clients -> Request \cup {NULL}]
      /\ srv # "recv" => whom \in Clients /\ at[whom] \in {"recv", "wait"}
  BY Zenon DEF IInv, TypeOK, RequestThere, ServesWaiting, NoMutualSend
<1>1. CASE \E n \in Fds, type \in {"use", "flush"} : devfile(c, n, type)
  BY <1>t, <1>1 DEF devfile, Call, Pending
<1>2. CASE ipc_send(c)
  BY <1>t, <1>2, Zenon DEF ipc_send, send, Pending
<1>3. CASE ipc_recv(c)
  BY <1>t, <1>3, Zenon DEF ipc_recv, Pending
<1>4. CASE fd_close(c)
  BY <1>t, <1>4, Zenon DEF fd_close, Pending
<1>5. CASE \E n, m \in Fds : dup(c, n, m)
  BY <1>t, <1>5, Zenon DEF dup, Pending
<1>6. CASE \E d \in Clients : fork(c, d)
  BY <1>t, <1>6, Zenon DEF fork, Pending
<1>7. CASE env_free(c)
  BY <1>t, <1>7, Zenon DEF env_free, Pending
<1>8. CASE serve_request
  BY <1>t, <1>8, Zenon DEF serve_request, Answer, Pending
<1>9. CASE serve_reply
  BY <1>t, <1>9, Zenon DEF serve_reply, reply, Return, Pending
<1> QED
  BY <1>1, <1>2, <1>3, <1>4, <1>5, <1>6, <1>7, <1>8, <1>9, Zenon

\* Every step keeps the room.
LEMMA RoomNext ==
    ASSUME Lapses = {}, IInv, Room, [Next]_vars
    PROVE  Room'
<1>t. TypeOK
  BY Zenon DEF IInv
<1>0. Clients # {}
  BY FileServerAssumption, Zenon DEF FileServerAssumption
<1>1. CASE \E c \in Clients, name \in Names \cup {NoName} : open(c, name)
  BY <1>t, <1>1, RoomOpen, Zenon
<1>2. CASE serve_open
  BY <1>2, RoomServed, Zenon
<1>3. CASE UNCHANGED vars
  <2>1. UNCHANGED o_fileid /\ Pending' = Pending
    BY <1>3, Zenon DEF vars, tabVars, srvVars, Pending
  <2> QED
    BY <1>t, <2>1, RoomStays, Zenon
<1>4. CASE serve_request \/ serve_reply
  BY <1>t, <1>0, <1>4, NoNewOpen, RoomStays, Zenon
<1>5. ASSUME NEW c \in Clients,
             \/ \E n \in Fds, type \in {"use", "flush"} : devfile(c, n, type)
             \/ ipc_send(c) \/ ipc_recv(c) \/ fd_close(c)
             \/ \E n, m \in Fds : dup(c, n, m)
             \/ \E d \in Clients : fork(c, d)
             \/ env_free(c)
      PROVE  Room'
  BY <1>t, <1>5, NoNewOpen, RoomStays, Zenon
<1> QED
  BY <1>1, <1>2, <1>3, <1>4, <1>5, Zenon DEF Next

\* The server refuses to open a file that exists only when clients hold every slot.
LEMMA OpenStep ==
    ASSUME IInv, Room, Next, srv = "work", req[whom].type = "open", req[whom].name # NoName,
           ret'.r # "ok", srv' = "reply", NEW i \in Slots
    PROVE  Holders(i) # {}
<1>1. serve_open
  BY DEF Next, open, devfile, Call, ipc_send, send, ipc_recv, fd_close, dup, fork, env_free,
         serve_request, serve_reply, reply, srvVars
<1>2. CASE Available = {}
  <2>1. ~(pageref(i) <= 1)
    BY <1>2, Zenon DEF Available
  <2> SUFFICES ASSUME Holders(i) = {} PROVE FALSE
    BY Zenon
  <2>2. Cardinality(Holders(i)) = 0
    BY FS_EmptySet, Zenon
  <2> QED
    BY <2>1, <2>2 DEF pageref
<1>3. CASE Available # {}
  <2> DEFINE k == openfile_alloc
  <2>1. k \in Slots
    BY <1>3, MinIn DEF openfile_alloc, Available, Slots
  <2>2. TypeOK /\ ServesWaiting
    BY Zenon DEF IInv
  <2>3. ~((o_fileid[k] + MAXOPEN) % IdMod >= IdMod \div 2)
    <3>1. o_fileid[k] + MAXOPEN \in Nat /\ IdMod \div 2 \in Nat
      BY <2>1, <2>2, RoomForOne, IdModBig, HalfOfIds
    <3> QED
      BY <2>1, <2>2, <3>1, RoomForOne
  <2>4. ret'.r = "ok"
    BY <1>1, <1>3, <2>3 DEF serve_open, Answer
  <2> QED
    BY <2>4, Zenon
<1> QED
  BY <1>2, <1>3, Zenon

\* As long as no slot is opened so often that its id overflows, opening a file that
\* exists fails only when clients have MAXOPEN files open (openfile_alloc()).
THEOREM OpensSucceed == ASSUME Lapses = {} PROVE Spec => OpenSucceeds
<1>1. Init => Room
  <2> SUFFICES ASSUME Init PROVE Room
    BY Zenon
  <2>1. Pending = {}
    BY Zenon DEF Init, Pending
  <2>2. Cardinality(Pending) = 0
    BY <2>1, FS_EmptySet, Zenon
  <2>3. \A i \in Slots : o_fileid[i] = i /\ i \in Nat
    BY DEF Init, Slots
  <2>4. MAXOPEN * 0 = 0
    BY IdModBig
  <2> QED
    BY <2>2, <2>3, <2>4, HalfOfIds DEF Room
<1>2. IInv /\ Room /\ [Next]_vars => Room'
  BY RoomNext, Zenon
<1>3. IInv /\ Room /\ [Next]_vars
        => [srv = "work" /\ req[whom].type = "open" /\ req[whom].name # NoName /\ ret'.r # "ok" /\ srv' = "reply"
               => \A i \in Slots : Holders(i) # {}]_vars
  BY OpenStep, Zenon
<1> QED
  BY <1>1, <1>2, <1>3, Invariance, PTL DEF Spec, OpenSucceeds
=============================================================================
