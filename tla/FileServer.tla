----------------------------- MODULE FileServer -----------------------------
(***************************************************************************)
(* The file server's table of open files (fs/serv.c), its clients' side     *)
(* (lib/file.c, lib/fd.c) and the messages between them (lib/ipc.c).        *)
(*                                                                          *)
(* An open file is a page with a struct Fd, which the server shares with    *)
(* its clients; the server tells from the page's reference count whether a  *)
(* client still has it.  One step is one system call or, for the server,    *)
(* the code between two.  What the requests do to files is in module Fs.    *)
(***************************************************************************)
EXTENDS Integers, FiniteSets, FiniteSetsExt

CONSTANTS Clients, Client0,
          MAXOPEN, MAXFD,
          Names,      \* files that exist
          NoName,     \* the name of none
          IdMod,      \* 2^32: o_fileid is a uint32_t, and returned as an int
          NULL,
          Lapses      \* {} or {"ids"}: see below

\* "ids": a slot is used so often that its o_fileid is negative as an int.
ASSUME FileServerAssumption ==
    /\ Client0 \in Clients /\ IsFiniteSet(Clients)
    /\ MAXOPEN \in Nat \ {0} /\ MAXFD \in Nat \ {0} /\ IdMod \in Nat
    /\ \E k \in 1 .. IdMod : IdMod = 2 * k * MAXOPEN
    /\ NoName \notin Names /\ NULL \notin Clients /\ NULL \notin Names \cup {NoName}
    /\ Lapses \subseteq {"ids"}

Slots == 0 .. MAXOPEN - 1
Fds == 0 .. MAXFD - 1
None == -1

VARIABLES o_fileid,  \* opentab[i].o_fileid
          o_file,    \* opentab[i].o_file
          o_fd,      \* whether the server maps opentab[i].o_fd
          fd_id,     \* fd_file.id in that page
          fdtab,     \* fdtab[c][n]: the slot whose Fd page client c maps as fd n, or None
          opened,    \* the name that fd n of client c was opened with
          at,        \* what client c does: see Steps
          req,       \* the request in its fsipcbuf
          srv,       \* what the server does: "recv", "work" or "reply"
          whom,      \* whose request it serves
          ret        \* its answer: the result, and the slot whose page goes with it

tabVars == <<o_fileid, o_file, o_fd, fd_id>>
srvVars == <<srv, whom, ret>>
vars == <<tabVars, fdtab, opened, at, req, srvVars>>

\* "none": does not exist.  "send": in ipc_send().  "recv": about to call
\* sys_ipc_recv.  "wait": blocked in it.  "unmap": in fd_close(), after dev_close.
Steps == {"none", "idle", "send", "recv", "wait", "unmap"}
Calling(c) == at[c] \in {"send", "recv", "wait"}

\* "use" stands for the requests READ, WRITE, STAT and SET_SIZE; "flush" is FLUSH.
Request == [type : {"open"}, name : Names \cup {NoName}, fd : Fds]
           \cup [type : {"use", "flush"}, id : 0 .. IdMod - 1, fd : Fds]

\* Results: 0, or the code of an error.
Result == {"ok", "E_INVAL", "E_MAX_OPEN", "E_NOT_FOUND", "negative"}

TypeOK == /\ o_fileid \in [Slots -> 0 .. IdMod - 1]
          /\ o_file \in [Slots -> Names \cup {NULL}]
          /\ o_fd \in [Slots -> BOOLEAN]
          /\ fd_id \in [Slots -> 0 .. IdMod - 1]
          /\ fdtab \in [Clients -> [Fds -> Slots \cup {None}]]
          /\ opened \in [Clients -> [Fds -> Names \cup {NULL}]]
          /\ at \in [Clients -> Steps]
          /\ \A c \in Clients : req[c] = NULL \/ req[c] \in Request
          /\ srv \in {"recv", "work", "reply"} /\ whom \in Clients \cup {NULL}
          /\ ret \in [r : Result, pg : Slots \cup {None}]

NoFds == [n \in Fds |-> None]
NoRet == [r |-> "ok", pg |-> None]

\* serve_init(), and the first client.
Init == /\ o_fileid = [i \in Slots |-> i] /\ o_file = [i \in Slots |-> NULL]
        /\ o_fd = [i \in Slots |-> FALSE] /\ fd_id = [i \in Slots |-> 0]
        /\ fdtab = [c \in Clients |-> NoFds] /\ opened = [c \in Clients |-> [n \in Fds |-> NULL]]
        /\ at = [c \in Clients |-> IF c = Client0 THEN "idle" ELSE "none"]
        /\ req = [c \in Clients |-> NULL]
        /\ srv = "recv" /\ whom = NULL /\ ret = NoRet

Holders(i) == {x \in Clients \X Fds : fdtab[x[1]][x[2]] = i}

\* pp_ref of the page at opentab[i].o_fd, 0 if nothing is mapped there.
pageref(i) == IF o_fd[i] THEN 1 + Cardinality(Holders(i)) ELSE 0

-----------------------------------------------------------------------------
(* Clients *)

Unused(c) == {n \in Fds : fdtab[c][n] = None}

Call(c, r) == /\ at' = [at EXCEPT ![c] = "send"]
              /\ req' = [req EXCEPT ![c] = r]
              /\ UNCHANGED <<tabVars, fdtab, opened, srvVars>>

\* Bound: below it, whatever opens are under way, no o_fileid becomes negative.
MaxId == IdMod \div 2 - MAXOPEN * Cardinality(Clients)

\* open(), with fd_alloc() choosing the first unused descriptor.
open(c, name) ==
    /\ at[c] = "idle" /\ Unused(c) # {}
    /\ "ids" \in Lapses \/ \A i \in Slots : o_fileid[i] < MaxId
    /\ Call(c, [type |-> "open", name |-> name, fd |-> Min(Unused(c))])

\* read(), write(), fstat(), ftruncate(); close() flushes first.
devfile(c, n, type) ==
    /\ at[c] = "idle" /\ fdtab[c][n] # None
    /\ Call(c, [type |-> type, id |-> fd_id[fdtab[c][n]], fd |-> n])

\* fsipc(): ipc_send() tries until the server is receiving; then the client is at
\* next ...
send(c, next) ==
    /\ at[c] = "send" /\ srv = "recv"
    /\ srv' = "work" /\ whom' = c
    /\ at' = [at EXCEPT ![c] = next]
    /\ UNCHANGED <<tabVars, fdtab, opened, req, ret>>

\* Mutant of ipc_send: fsipc() does not wait for the answer.
ipc_send_NoRecv(c) == send(c, "idle")

ipc_send(c) == send(c, "recv")

\* ... and then ipc_recv() waits, for a message from anybody.
ipc_recv(c) ==
    /\ at[c] = "recv"
    /\ at' = [at EXCEPT ![c] = "wait"]
    /\ UNCHANGED <<tabVars, fdtab, opened, req, srvVars>>

\* The end of fd_close().
fd_close(c) ==
    /\ at[c] = "unmap"
    /\ fdtab' = [fdtab EXCEPT ![c][req[c].fd] = None]
    /\ opened' = [opened EXCEPT ![c][req[c].fd] = NULL]
    /\ at' = [at EXCEPT ![c] = "idle"] /\ req' = [req EXCEPT ![c] = NULL]
    /\ UNCHANGED <<tabVars, srvVars>>

\* dup() to an unused descriptor; to a used one it closes that first.
dup(c, n, m) ==
    /\ at[c] = "idle" /\ fdtab[c][n] # None /\ fdtab[c][m] = None
    /\ fdtab' = [fdtab EXCEPT ![c][m] = fdtab[c][n]]
    /\ opened' = [opened EXCEPT ![c][m] = opened[c][n]]
    /\ UNCHANGED <<tabVars, at, req, srvVars>>

\* fork() and spawn() share the pages that have PTE_SHARE, which Fd pages have.
fork(c, d) ==
    /\ at[c] = "idle" /\ at[d] = "none"
    /\ at' = [at EXCEPT ![d] = "idle"]
    /\ fdtab' = [fdtab EXCEPT ![d] = fdtab[c]]
    /\ opened' = [opened EXCEPT ![d] = opened[c]]
    /\ UNCHANGED <<tabVars, req, srvVars>>

\* A client is destroyed, or exits; module Env shows what a message to it does.  One
\* is left: user/init.c starts a shell over and over.
env_free(c) ==
    /\ at[c] = "idle" /\ \E d \in Clients \ {c} : at[d] # "none"
    /\ at' = [at EXCEPT ![c] = "none"]
    /\ fdtab' = [fdtab EXCEPT ![c] = NoFds]
    /\ opened' = [opened EXCEPT ![c] = [n \in Fds |-> NULL]]
    /\ UNCHANGED <<tabVars, req, srvVars>>

\* The call of c returns with r; page pg is mapped where it asked for one.
Return(c, r, pg) ==
    LET q  == req[c]
        ok == q.type = "open" /\ pg # None
    IN  /\ at[c] = "wait"
        /\ at' = [at EXCEPT ![c] = IF q.type = "flush" THEN "unmap" ELSE "idle"]
        /\ req' = [req EXCEPT ![c] = IF q.type = "flush" THEN q ELSE NULL]
        /\ fdtab' = IF ok THEN [fdtab EXCEPT ![c][q.fd] = pg] ELSE fdtab
        /\ opened' = IF ok THEN [opened EXCEPT ![c][q.fd] = q.name] ELSE opened

-----------------------------------------------------------------------------
(* The server *)

\* Mutants of Available: a slot that one client has; only slots never used.
Available_Two == {i \in Slots : pageref(i) <= 2}
Available_New == {i \in Slots : pageref(i) = 0}

\* The slots that no client has; the first one is taken.
Available == {i \in Slots : pageref(i) <= 1}
openfile_alloc == Min(Available)

Answer(r, pg) == srv' = "reply" /\ ret' = [r |-> r, pg |-> pg] /\ UNCHANGED <<whom, fdtab, opened, at, req>>

\* openfile_alloc() takes a slot and clears its page whether or not the file is found.
\* An o_fileid that is negative as an int counts as an error.
serve_open ==
    LET q   == req[whom]
        i   == openfile_alloc
        id  == (o_fileid[i] + MAXOPEN) % IdMod
        neg == id >= IdMod \div 2
        ok  == ~neg /\ q.name # NoName
    IN  /\ srv = "work" /\ q.type = "open"
        /\ IF Available = {} THEN Answer("E_MAX_OPEN", None) /\ UNCHANGED tabVars
           ELSE /\ o_fd' = [o_fd EXCEPT ![i] = TRUE]
                /\ o_fileid' = [o_fileid EXCEPT ![i] = id]
                /\ fd_id' = [fd_id EXCEPT ![i] = IF ok THEN id ELSE 0]
                /\ o_file' = IF ok THEN [o_file EXCEPT ![i] = q.name] ELSE o_file
                /\ Answer(IF neg THEN "negative" ELSE IF ok THEN "ok" ELSE "E_NOT_FOUND",
                          IF ok THEN i ELSE None)

\* Mutant of openfile_lookup: the file must have two clients.
openfile_lookup_Two(id) == LET i == id % MAXOPEN IN pageref(i) > 2 /\ o_fileid[i] = id

openfile_lookup(id) == LET i == id % MAXOPEN IN pageref(i) > 1 /\ o_fileid[i] = id

\* serve_read(), serve_write(), serve_stat(), serve_set_size(), serve_flush().
serve_request ==
    /\ srv = "work" /\ req[whom].type \in {"use", "flush"}
    /\ Answer(IF openfile_lookup(req[whom].id) THEN "ok" ELSE "E_INVAL", None)
    /\ UNCHANGED tabVars

\* The server's ipc_send() to the client tries until that is receiving.
reply == /\ srv = "reply" /\ Return(whom, ret.r, ret.pg)
         /\ srv' = "recv" /\ whom' = NULL /\ ret' = NoRet
         /\ UNCHANGED tabVars

\* Mutant of serve_reply: a request that fails is tried again.
serve_reply_Again ==
    IF srv = "reply" /\ ret.r # "ok"
    THEN srv' = "work" /\ UNCHANGED <<tabVars, fdtab, opened, at, req, whom, ret>>
    ELSE reply

serve_reply == reply

Next == \/ \E c \in Clients :
             \/ \E name \in Names \cup {NoName} : open(c, name)
             \/ \E n \in Fds, type \in {"use", "flush"} : devfile(c, n, type)
             \/ ipc_send(c) \/ ipc_recv(c) \/ fd_close(c)
             \/ \E n, m \in Fds : dup(c, n, m)
             \/ \E d \in Clients : fork(c, d)
             \/ env_free(c)
        \/ serve_open \/ serve_request \/ serve_reply

Spec == Init /\ [][Next]_vars

\* The server and a client that is not blocked get to run.  That a client's ipc_send()
\* meets the server while it is receiving is not guaranteed: another client's may be
\* first every time.
FairSpec == /\ Spec
            /\ WF_vars(serve_open \/ serve_request \/ serve_reply)
            /\ \A c \in Clients : WF_vars(ipc_recv(c)) /\ WF_vars(fd_close(c))

-----------------------------------------------------------------------------
(* Properties *)

\* A descriptor denotes the file that it was opened on for as long as any client has
\* it, through dup(), fork(), the exit of other clients and the reuse of slots: the
\* server finds its o_fileid (fs/serv.c:93) and the right o_file behind it.
FdMeansFile ==
    \A c \in Clients, n \in Fds :
        fdtab[c][n] # None => LET i == fdtab[c][n]
                              IN  /\ o_fd[i] /\ o_file[i] = opened[c][n]
                                  /\ fd_id[i] = o_fileid[i] /\ o_fileid[i] % MAXOPEN = i

\* The id in a request is read from the Fd page long before the server looks it up; the
\* lookup never refuses it (fs/serv.c:93).
NoStaleId == srv = "reply" => ret.r # "E_INVAL"

\* "There can be at most MAXOPEN files open concurrently" (fs/serv.c:26): the open of a
\* file that exists fails only if the table is full of files that clients have open.
OpenSucceeds ==
    [][srv = "work" /\ req[whom].type = "open" /\ req[whom].name # NoName /\ ret'.r # "ok" /\ srv' = "reply"
           => \A i \in Slots : Holders(i) # {}]_vars

\* The client whose request the server works on waits for the answer: it is never
\* trying to send in turn, when both would try for ever (lib/file.c:27, fs/serv.c:344).
NoMutualSend == srv # "recv" => at[whom] \in {"recv", "wait"}

\* A request that the server has taken is answered (fs/serv.c:344).
TakenIsAnswered == \A c \in Clients : (srv = "work" /\ whom = c) ~> at[c] \notin {"recv", "wait"}
=============================================================================
