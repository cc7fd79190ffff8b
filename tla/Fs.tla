--------------------------------- MODULE Fs ---------------------------------
(***************************************************************************)
(* The file system under the file server: the block cache (fs/bc.c), the    *)
(* free-block bitmap and the files (fs/fs.c), and the disk below them.      *)
(*                                                                          *)
(* The server is one thread: an operation on the cache is one step, but the *)
(* writes to the disk that a flush makes are steps of their own, and the    *)
(* power may fail between them.  Only the last steps of an operation write  *)
(* more than one block, so that no other crash leaves a disk that this      *)
(* leaves out.  A directory never is a subdirectory: the server has no      *)
(* operation that makes one.  Block contents are one value per block; sizes *)
(* count in units of which a block holds BLKSIZE.                           *)
(***************************************************************************)
EXTENDS Integers, Sequences, FiniteSetsExt

CONSTANTS NBLOCKS,    \* super->s_nblocks
          NDIRECT, NINDIRECT, BLKSIZE, BLKFILES,
          Names, Empty,   \* names of files, and the name of an unused File
          Val, Zero,      \* contents of a block, and what a fresh disk holds
          Writes(_),      \* what the clients of a file write into it
          Index(_),       \* bound: the blocks of a file that they write
          Reads(_),       \* bound: the blocks of a file that they read
          Junk, Hole,     \* how a block of another kind reads as data; no block
          Sizes(_),       \* bound: the sizes that they ask for
          InitName,       \* the file that exists from the start
          Lapses          \* which of the lapses below may happen

\* "crash": the power fails when the disk holds a file system that is not sound.
\* "full": a block is needed when none is free.
\* "grow": the root directory gets a block that was used before.
ASSUME FsAssumption ==
    /\ NBLOCKS \in Nat /\ NDIRECT \in Nat \ {0} /\ NINDIRECT \in Nat
    /\ BLKSIZE \in Nat \ {0} /\ BLKFILES \in Nat \ {0}
    /\ NBLOCKS > 3 /\ Empty \notin Names /\ Zero \in Val
    /\ Junk \notin Val /\ Hole \notin Val /\ Hole # Junk
    /\ \A n \in Names : Writes(n) \subseteq Val /\ Sizes(n) \subseteq Nat
                          /\ Index(n) \cup Reads(n) \subseteq 0 .. NDIRECT + NINDIRECT - 1
    /\ InitName \in Names
    /\ Lapses \subseteq {"crash", "full", "grow"}

VARIABLES disk,     \* the blocks on the disk
          mem,      \* the blocks as the server sees them through its cache
          dirty,    \* the blocks that have PTE_D
          wq,       \* the blocks that the current flush still has to look at
          saving,   \* the files that are on the disk when it is done
          safe,     \* the files that have not changed since they were flushed
          files,    \* the files as clients see them: View(mem)
          up        \* "boot", "smashed" (inside check_bc), "up" or "panic"

vars == <<disk, mem, dirty, wq, saving, safe, files, up>>

Block == 1 .. NBLOCKS - 1
MaxBlocks == NDIRECT + NINDIRECT
nblocks(size) == (size + BLKSIZE - 1) \div BLKSIZE

File == [name : Names \cup {Empty}, size : Nat,
         direct : [0 .. NDIRECT - 1 -> 0 .. NBLOCKS - 1], indirect : 0 .. NBLOCKS - 1]
NoFile == [name |-> Empty, size |-> 0, direct |-> [i \in 0 .. NDIRECT - 1 |-> 0], indirect |-> 0]

\* The contents of a block: File structures (the super block holds the root
\* directory's), the bitmap, block numbers, or data.
Dir(fs) == [kind |-> "dir", files |-> fs]
Map(free) == [kind |-> "map", free |-> free]
Ind(ptr) == [kind |-> "ind", ptr |-> ptr]
Data(v) == [kind |-> "data", val |-> v]
Smashed == [kind |-> "oops"]

IsFiles(c, n) == c.kind = "dir" /\ DOMAIN c.files = 0 .. n - 1 /\ \A j \in 0 .. n - 1 : c.files[j] \in File
IsContent(c) == \/ IsFiles(c, BLKFILES)
                \/ c.kind = "ind" /\ c.ptr \in [0 .. NINDIRECT - 1 -> 0 .. NBLOCKS - 1]
                \/ c.kind = "data" /\ c.val \in Val
IsImage(m) == /\ IsFiles(m[1], 1) \/ m[1] = Smashed
              /\ m[2].kind = "map" /\ m[2].free \subseteq Block
              /\ \A b \in Block \ {1, 2} : IsContent(m[b])

TypeOK == /\ DOMAIN disk = Block /\ DOMAIN mem = Block /\ IsImage(disk) /\ IsImage(mem)
          /\ dirty \subseteq Block
          /\ \A k \in 1 .. Len(wq) : wq[k] \in 0 .. NBLOCKS - 1
          /\ saving \subseteq Names /\ safe \subseteq Names
          /\ up \in {"boot", "smashed", "up", "panic"}

\* The image that fsformat makes, with one empty file.
Init == /\ disk = [b \in Block |->
                     CASE b = 1 -> Dir([j \in {0} |-> [NoFile EXCEPT !.size = BLKSIZE, !.direct[0] = 3]])
                       [] b = 2 -> Map(Block \ {1, 2, 3})
                       [] b = 3 -> Dir([j \in 0 .. BLKFILES - 1 |->
                                     IF j = 0 THEN [NoFile EXCEPT !.name = InitName] ELSE NoFile])
                       [] OTHER -> Data(Zero)]
        /\ mem = disk /\ dirty = {}
        /\ wq = <<>> /\ saving = {} /\ safe = Names
        /\ files = [n \in Names |-> [size |-> IF n = InitName THEN 0 ELSE -1, data |-> <<>>]]
        /\ up = "boot"

-----------------------------------------------------------------------------
(* The block cache.  The operations below work on the server's state          *)
(* s = [disk, mem, dirty, ok, full]; ok is FALSE once it has panicked,        *)
(* and full is TRUE if that was for want of a block.                          *)

Now == [disk |-> disk, mem |-> mem, dirty |-> dirty,
        ok |-> TRUE, full |-> FALSE]

\* An access to the blocks B.  One that is not mapped is read from the disk, where it is
\* what mem says, and must not be marked free; a mapped one is not checked.  Here every
\* access is checked, as if it were the first.
bc_pgfault(s, B) == [s EXCEPT !.ok = @ /\ B \cap s.mem[2].free = {}]

Store(s, b, c) == LET t == bc_pgfault(s, {b})
                  IN  [t EXCEPT !.mem[b] = c, !.dirty = @ \cup {b}]

flush_block(s, b) ==
    IF b \in s.dirty
    THEN [s EXCEPT !.disk[b] = s.mem[b], !.dirty = @ \ {b}] ELSE s

-----------------------------------------------------------------------------
(* Blocks of files.  A File is named by the block that holds it and its index *)
(* there; Root is the root directory's, in the super block.                   *)

\* The bytes of a block read as block numbers or as Files.  What clients wrote is
\* neither; it is taken for numbers and sizes that are not zero.
Ptrs(c) == CASE c.kind = "ind" -> c.ptr
             [] c = Data(Zero) -> [k \in 0 .. NINDIRECT - 1 |-> 0]
             [] OTHER -> [k \in 0 .. NINDIRECT - 1 |-> 1]
Files(c) == CASE c.kind = "dir" -> c.files
              [] c = Data(Zero) \/ (c.kind = "ind" /\ \A k \in DOMAIN c.ptr : c.ptr[k] = 0)
                 -> [j \in 0 .. BLKFILES - 1 |-> NoFile]
              [] OTHER -> [j \in 0 .. BLKFILES - 1 |-> [NoFile EXCEPT !.size = 1]]

Root == <<1, 0>>
At(m, f) == Files(m[f[1]])[f[2]]
SetFile(s, f, file) == Store(s, f[1], Dir([Files(s.mem[f[1]]) EXCEPT ![f[2]] = file]))

\* The slot of block i of a file: *ppdiskbno.
Slot(m, file, i) == CASE i < NDIRECT -> file.direct[i]
                      [] i >= NDIRECT /\ file.indirect # 0 -> Ptrs(m[file.indirect])[i - NDIRECT]
                      [] OTHER -> 0
SetSlot(s, f, i, b) ==
    LET file == At(s.mem, f)
    IN  IF i < NDIRECT THEN SetFile(s, f, [file EXCEPT !.direct[i] = b])
        ELSE Store(s, file.indirect, Ind([Ptrs(s.mem[file.indirect]) EXCEPT ![i - NDIRECT] = b]))

block_is_free(s, b) == b \in s.mem[2].free

free_block(s, B) == Store(s, 2, Map(s.mem[2].free \cup B))

\* The lowest free block.  The block that is flushed is the new one; the bitmap
\* stays in the cache.
\* With none free, the error code is taken for a block number, which diskaddr()
\* refuses with a panic.
alloc_block(s) ==
    LET free == {b \in Block : block_is_free(s, b)}
        b    == Min(free)
    IN  IF free = {} THEN [s |-> [s EXCEPT !.ok = FALSE, !.full = TRUE], b |-> 0]
        ELSE [s |-> flush_block(Store(s, 2, Map(s.mem[2].free \ {b})), b), b |-> b]

\* With alloc = 1: the state in which the slot of block i exists.
file_block_walk(s, f, i) ==
    LET file == At(s.mem, f)
        a    == alloc_block(s)
    IN  CASE i < NDIRECT -> s
          [] i >= NDIRECT /\ file.indirect # 0 -> bc_pgfault(s, {file.indirect})
          [] OTHER -> IF ~a.s.ok THEN a.s
                      ELSE SetFile(Store(a.s, a.b, Ind([k \in 0 .. NINDIRECT - 1 |-> 0])),
                                   f, [file EXCEPT !.indirect = a.b])

\* A new block keeps whatever it held before.
file_get_block(s, f, i) ==
    LET t == file_block_walk(s, f, i)
        p == Slot(t.mem, At(t.mem, f), i)
        a == alloc_block(t)
    IN  CASE ~t.ok \/ p # 0 -> [s |-> t, b |-> p]
          [] t.ok /\ p = 0 /\ ~a.s.ok -> a
          [] OTHER -> [s |-> SetSlot(a.s, f, i, a.b), b |-> a.b]

\* The places of a file that a smaller newsize no longer has, and the indirect block
\* when none of the places left is in it.
Gone(file, newsize) == nblocks(newsize) .. Min({nblocks(file.size), MaxBlocks}) - 1
LastIndirect(file, newsize) ==
    IF nblocks(newsize) <= NDIRECT /\ file.indirect # 0 THEN {file.indirect} ELSE {}
Dropped(s, file, newsize) == {Slot(s.mem, file, i) : i \in Gone(file, newsize)} \ {0}

\* The places from newsize on are emptied, the blocks of back are free again, and
\* f_indirect is indirect.
truncate(s, f, newsize, back, indirect) ==
    LET file == At(s.mem, f)
        gone == Gone(file, newsize)
        ind  == file.indirect
        s1   == IF \E i \in gone : i >= NDIRECT /\ Slot(s.mem, file, i) # 0
                THEN Store(s, ind, Ind([k \in 0 .. NINDIRECT - 1 |->
                                          IF NDIRECT + k \in gone THEN 0 ELSE Ptrs(s.mem[ind])[k]]))
                ELSE s
        s2   == IF back # {} THEN free_block(s1, back) ELSE s1
    IN  SetFile(s2, f, [file EXCEPT !.direct = [i \in 0 .. NDIRECT - 1 |-> IF i \in gone THEN 0 ELSE @[i]],
                                    !.indirect = indirect])

\* Mutants of file_truncate_blocks: the indirect block is freed and still used; it
\* is not freed.
file_truncate_blocks_Keep(s, f, newsize) ==
    LET file == At(s.mem, f)
    IN  truncate(s, f, newsize, Dropped(s, file, newsize) \cup LastIndirect(file, newsize), file.indirect)
file_truncate_blocks_Leak(s, f, newsize) ==
    LET file == At(s.mem, f)
    IN  truncate(s, f, newsize, Dropped(s, file, newsize),
                 IF LastIndirect(file, newsize) = {} THEN file.indirect ELSE 0)

\* The blocks from newsize on go back to the bitmap, and the indirect block with them
\* when it is not needed any more.
file_truncate_blocks(s, f, newsize) ==
    LET file == At(s.mem, f)
    IN  truncate(s, f, newsize, Dropped(s, file, newsize) \cup LastIndirect(file, newsize),
                 IF LastIndirect(file, newsize) = {} THEN file.indirect ELSE 0)

file_set_size(s, f, newsize) ==
    LET t == IF At(s.mem, f).size > newsize THEN file_truncate_blocks(s, f, newsize) ELSE s
    IN  flush_block(SetFile(t, f, [At(t.mem, f) EXCEPT !.size = newsize]), f[1])

\* The blocks that file_flush() looks at, in its order.
FlushData(s, f) ==
    LET file == At(s.mem, f)
    IN  [i \in 1 .. Min({nblocks(file.size), MaxBlocks}) |-> Slot(s.mem, file, i - 1)]

\* Mutant of file_flush: without the indirect block.
file_flush_NoIndirect(s, f) == Append(FlushData(s, f), f[1])

file_flush(s, f) == FlushData(s, f) \o <<f[1], At(s.mem, f).indirect>>

-----------------------------------------------------------------------------
(* Directories *)

\* The k-th File of the root directory, and the positions of those called n.
Entry(m, k) == <<Slot(m, At(m, Root), k \div BLKFILES), k % BLKFILES>>
Entries(m) == 0 .. nblocks(At(m, Root).size) * BLKFILES - 1
Called(m, n) == {k \in Entries(m) : At(m, Entry(m, k)).name = n}
Exists(m, n) == Called(m, n) # {}
Lookup(m, n) == Entry(m, Min(Called(m, n)))

\* A search for n reads the directory up to the block where it finds n.
dir_lookup(s, n) ==
    bc_pgfault(s, {Entry(s.mem, k)[1] : k \in {k \in Entries(s.mem) :
                    \A c \in Called(s.mem, n) : k \div BLKFILES <= c \div BLKFILES}})

\* The state in which the directory has an unused File, and that File.
dir_alloc_file(s) ==
    LET root == At(s.mem, Root)
        i    == nblocks(root.size)
        g    == file_get_block(SetFile(s, Root, [root EXCEPT !.size = @ + BLKSIZE]), Root, i)
    IN  IF Exists(s.mem, Empty) THEN [s |-> s, f |-> Lookup(s.mem, Empty)]
        ELSE [s |-> g.s, f |-> <<g.b, 0>>]

DataOf(c) == IF c.kind = "data" THEN c.val ELSE Junk

\* The files as clients see them in image m: size and blocks.
View(m) == [n \in Names |->
    IF ~Exists(m, n) THEN [size |-> -1, data |-> <<>>]
    ELSE LET file == At(m, Lookup(m, n))
         IN  [size |-> file.size,
              data |-> [i \in 0 .. nblocks(file.size) - 1 |->
                          LET b == Slot(m, file, i) IN IF b = 0 THEN Hole ELSE DataOf(m[b])]]]

-----------------------------------------------------------------------------
(* The operations of the server *)

\* What a flush of the blocks q has left to do: it skips the blocks that are not dirty.
Dirty(q, d) == {k \in 1 .. Len(q) : q[k] \in d}
Rest(q, d) == IF Dirty(q, d) = {} THEN <<>> ELSE SubSeq(q, Min(Dirty(q, d)), Len(q))

\* The operation leaves state s, has changed the files C, and goes on to write the
\* blocks of q that are dirty, which saves the files S.
Done(s, C, q, S) ==
    LET w == Rest(q, s.dirty)
    IN  /\ up = "up" /\ wq = <<>>
        /\ s.full => "full" \in Lapses
        /\ files' = IF s.ok THEN View(s.mem) ELSE files
        /\ disk' = s.disk /\ mem' = s.mem /\ dirty' = s.dirty
        /\ up' = IF s.ok THEN "up" ELSE "panic"
        /\ wq' = IF s.ok THEN w ELSE <<>>
        /\ saving' = IF s.ok /\ w # <<>> THEN S ELSE {}
        /\ safe' = IF s.ok /\ w = <<>> THEN (safe \ C) \cup S ELSE safe \ C

file_create(n) ==
    LET s == dir_lookup(Now, n)
        d == dir_alloc_file(s)
        t == SetFile(d.s, d.f, [At(d.s.mem, d.f) EXCEPT !.name = n])
    IN  /\ up = "up" /\ wq = <<>> /\ ~Exists(mem, n)
        /\ Exists(mem, Empty) \/ nblocks(At(mem, Root).size) < MaxBlocks  \* bound
        /\ d.s.ok /\ "grow" \notin Lapses => At(d.s.mem, d.f) = NoFile
        /\ IF s.ok /\ d.s.ok THEN Done(t, {n}, file_flush(t, Root), {n})
                             ELSE Done(IF s.ok THEN d.s ELSE s, {n}, <<>>, {})

\* ftruncate(), and open() with O_TRUNC.
serve_set_size(n, size) ==
    LET s == dir_lookup(Now, n)
    IN  /\ up = "up" /\ wq = <<>> /\ Exists(mem, n)
        /\ Done(file_set_size(s, Lookup(mem, n), size), {n}, <<>>, {})

\* Reads block i; a hole gets a block first.
file_read(n, i) ==
    LET f == Lookup(mem, n)
        g == file_get_block(dir_lookup(Now, n), f, i)
        s == IF g.s.ok THEN bc_pgfault(g.s, {g.b}) ELSE g.s
    IN  /\ up = "up" /\ wq = <<>> /\ Exists(mem, n) /\ i < nblocks(At(mem, f).size)
        /\ Done(s, IF Slot(mem, At(mem, f), i) = 0 THEN {n} ELSE {}, <<>>, {})

\* Writes v over block i, which may extend the file.
file_write(n, i, v) ==
    LET f == Lookup(mem, n)
        s == dir_lookup(Now, n)
        t == IF At(s.mem, f).size < (i + 1) * BLKSIZE THEN file_set_size(s, f, (i + 1) * BLKSIZE) ELSE s
        g == file_get_block(t, f, i)
    IN  /\ up = "up" /\ wq = <<>> /\ Exists(mem, n)
        /\ Done(IF g.s.ok THEN Store(g.s, g.b, Data(v)) ELSE g.s, {n}, <<>>, {})

serve_flush(n) ==
    LET f == Lookup(mem, n)
        s == dir_lookup(Now, n)
    IN  /\ up = "up" /\ wq = <<>> /\ Exists(mem, n)
        /\ Done(bc_pgfault(s, {At(s.mem, f).indirect} \ {0}), {}, file_flush(s, f), {n})

fs_sync == Done(Now, {}, [b \in Block |-> b], Names)

\* One more block of a flush reaches the disk.
ide_write == LET s == flush_block(Now, Head(wq))
                 w == Rest(Tail(wq), s.dirty)
             IN  /\ wq # <<>>
                 /\ disk' = s.disk /\ dirty' = s.dirty
                 /\ wq' = w
                 /\ safe' = IF w = <<>> THEN safe \cup saving ELSE safe
                 /\ saving' = IF w = <<>> THEN {} ELSE saving
                 /\ UNCHANGED <<mem, files, up>>

-----------------------------------------------------------------------------
(* Power failure and start *)

\* Where block numbers are stored: <<f, i>>, with i = -1 for f_indirect.
FilesOf(m) == {Root} \cup {Entry(m, k) : k \in {k \in Entries(m) : At(m, Entry(m, k)).name # Empty}}
Number(m, x) == IF x[2] = -1 THEN At(m, x[1]).indirect ELSE Slot(m, At(m, x[1]), x[2])
Places(m) == {x \in FilesOf(m) \X (-1 .. MaxBlocks - 1) : Number(m, x) # 0}

\* Every block that belongs to a file is marked in use, belongs to it alone, lies
\* within its size and holds what its place says.
Sound(m) ==
    LET Holds(b, kind) == m[b].kind = kind \/ m[b] = Data(Zero)
    IN  /\ m[1].kind = "dir" /\ {1, 2} \cap m[2].free = {}
        /\ \A k \in Entries(m) : LET b == Entry(m, k)[1] IN b \notin {0, 1, 2} /\ Holds(b, "dir")
        /\ \A x \in Places(m) : /\ Number(m, x) \in Block \ (m[2].free \cup {1, 2})
                               /\ IF x[2] = -1 THEN Holds(Number(m, x), "ind")
                                               ELSE x[2] < nblocks(At(m, x[1]).size)
        /\ \A x, y \in Places(m) : Number(m, x) = Number(m, y) => x = y

crash == /\ "crash" \in Lapses \/ Sound(disk)
         /\ mem' = disk /\ dirty' = {}
         /\ wq' = <<>> /\ saving' = {} /\ safe' = Names
         /\ files' = IF disk[1] = Smashed THEN files ELSE View(disk)
         /\ up' = "boot"
         /\ UNCHANGED disk

\* check_bc() overwrites the super block on the disk and then restores it from a
\* copy, which mem stands for.
bc_init_smash == /\ up = "boot" /\ disk[1] # Smashed
                 /\ disk' = [disk EXCEPT ![1] = Smashed]
                 /\ up' = "smashed"
                 /\ UNCHANGED <<mem, dirty, wq, saving, safe, files>>

\* The rest of fs_init(), with check_super() and check_bitmap().
fs_init == /\ \/ up = "smashed" /\ disk' = [disk EXCEPT ![1] = mem[1]]
              \/ up = "boot" /\ disk[1] = Smashed /\ UNCHANGED disk
           /\ up' = IF up = "boot" \/ {1, 2} \cap mem[2].free # {} THEN "panic" ELSE "up"
           /\ UNCHANGED <<mem, dirty, wq, saving, safe, files>>

Next == \/ \E n \in Names : \/ file_create(n)
                            \/ \E size \in Sizes(n) : serve_set_size(n, size)
                            \/ \E i \in Reads(n) : file_read(n, i)
                            \/ \E i \in Index(n), v \in Writes(n) : file_write(n, i, v)
                            \/ serve_flush(n)
        \/ fs_sync \/ ide_write
        \/ crash \/ bc_init_smash \/ fs_init

Spec == Init /\ [][Next]_vars

-----------------------------------------------------------------------------
(* Properties *)

\* No two files, and no two places of one file, share a block, and no block of a file
\* is marked free: after any sequence of creations, extensions and truncations
\* (fs/fs.c), in what the server sees, also after a power failure.  The server
\* therefore never panics: it never reads a block that is marked free (fs/bc.c:66),
\* and its own checks of the bitmap hold at every start (fs/fs.c:82).
MemSound == TypeOK /\ up # "panic" /\ (up = "up" => Sound(mem))

Leaked(m) == Block \ ({1, 2} \cup m[2].free \cup {Number(m, x) : x \in Places(m)})

\* file_truncate_blocks() gives back every block, the indirect one included: no block
\* is lost from the bitmap and from all files but by a power failure (fs/fs.c:445).
LeaksOnlyByCrash == [][up = "up" /\ up' = "up" => Leaked(mem)' \subseteq Leaked(mem)]_vars

FS == INSTANCE FileStore WITH Val <- Val \cup {Junk}

\* The files behave as independent arrays of blocks, and what file_flush() or fs_sync()
\* has written is what the server finds after a power failure (fs/fs.c:478, 497).
IsFileStore == FS!Spec

\* alloc_block(): "When you allocate a block, immediately flush the changed bitmap
\* block to disk" (fs/fs.c:49): a block in use is not marked free on the disk.
BitmapFlushed == up = "up" => disk[2].free \subseteq mem[2].free
=============================================================================
