----------------------------- MODULE JpegMemory ------------------------------
(***************************************************************************)
(* jni/jmemmgr.c on jmemnobs.c: the memory of one JPEG object.  Small      *)
(* objects share chunks of the heap, large ones have a chunk each; a chunk *)
(* belongs to the PERMANENT or to the IMAGE pool, and goes back to the     *)
(* heap when its pool is freed, which jpeg_abort and the end of an image   *)
(* do with IMAGE, jpeg_destroy and any error with both.  Arrays of samples *)
(* or blocks are row pointers (a small object) and rows, as many to a      *)
(* large object as MAX_ALLOC_CHUNK lets; a virtual array is one that is    *)
(* filled with zeros no earlier than it is accessed.                       *)
(*                                                                         *)
(* Sizes are bytes.  Addresses are a chunk and an offset.  There is always *)
(* memory for a whole virtual array (jpeg_mem_available), so backing store *)
(* is never opened.                                                        *)
(***************************************************************************)
EXTENDS Integers, FiniteSetsExt, Sequences

CONSTANTS
    MaxChunks,      \* chunks the heap has
    AlignSize,      \* ALIGN_SIZE (16 in the code)
    Pads,           \* bound: paddings behind a header that malloc's addresses need
    Header,         \* SIZEOF(small_pool_hdr)
    Manager,        \* SIZEOF(my_memory_mgr)
    Control,        \* SIZEOF(struct jvirt_sarray_control)
    FirstSlop,      \* first_pool_slop (1600 and 16000)
    ExtraSlop,      \* extra_pool_slop (0 and 5000)
    MinSlop,        \* MIN_SLOP (50)
    MaxAllocChunk,  \* MAX_ALLOC_CHUNK (1000000000)
    Block,          \* SIZEOF(JBLOCK)
    Sizes,          \* bound: sizes of objects
    Widths,         \* bound: samples or blocks of a row
    Heights,        \* bound: rows
    MaxAccess,      \* bound: maxaccess of virtual arrays
    MaxFrees        \* bound: calls of jpeg_abort for one object

Pools == {"PERMANENT", "IMAGE"}
Chunks == 1 .. MaxChunks

ASSUME HeapAssumption == MaxChunks \in Nat \ {0}
ASSUME LayoutAssumption ==
    /\ AlignSize \in Nat \ {0} /\ Pads \subseteq 0 .. AlignSize - 1 /\ Header \in Nat \ {0}
    /\ Manager \in Nat \ {0} /\ Control \in Nat \ {0} /\ Block \in Nat \ {0}
ASSUME SlopAssumption ==
    /\ FirstSlop \in [Pools -> Nat] /\ ExtraSlop \in [Pools -> Nat]
    /\ MinSlop \in Nat \ {0} /\ MaxAllocChunk \in Nat
ASSUME InputAssumption ==
    /\ Sizes \subseteq Nat \ {0} /\ Widths \subseteq Nat \ {0} /\ Heights \subseteq Nat \ {0}
    /\ MaxAccess \in Nat /\ MaxFrees \in Nat

VARIABLES
    mem,            \* the chunk cinfo->mem is in, 0 if NULL
    got,            \* the chunks malloc gave and free did not take
    chunk,          \* of each: its size, the padding after its header, bytes_used, bytes_left
    small,          \* small_list: of each pool, a sequence of chunks
    large,          \* large_list: of each pool, a set of chunks
    total,          \* total_space_allocated
    virt,           \* the list of virtual arrays
    call,           \* "idle", or the call in progress: "rows" or "realize"
    array,          \* the array it makes, or made last
    objects,        \* history: the objects given out and not freed
    frees,          \* history: calls of jpeg_abort
    freed,          \* history: chunks free_pool gave back
    junk            \* history: what was read of an array was never written

heapVars == <<got, chunk>>
poolVars == <<small, large, total, objects>>
arrayVars == <<virt, call, array>>
historyVars == <<frees, freed, junk>>
vars == <<mem, heapVars, poolVars, arrayVars, historyVars>>

NoArray == [pool |-> "IMAGE", width |-> 0, height |-> 0, per |-> 0, rows |-> <<>>, virt |-> 0]
Empty == [size |-> 0, pad |-> 0, used |-> 0, left |-> 0]

RoundUp(n, m) == ((n + m - 1) \div m) * m
AtMost(n, bound) == IF n > bound THEN bound ELSE n

(* Faulty variant: the address is taken to be aligned. *)
RequestUnaligned(n) == Header + n

(* The chunk for an object: header, alignment and the object. *)
Request(n) == Header + n + AlignSize - 1

Init ==
    /\ mem = 0 /\ got = {} /\ chunk = [c \in Chunks |-> Empty]
    /\ small = [p \in Pools |-> <<>>] /\ large = [p \in Pools |-> {}]
    /\ total = 0 /\ virt = <<>> /\ call = "idle" /\ array = NoArray
    /\ objects = {} /\ frees = 0 /\ freed = 0 /\ junk = FALSE

-----------------------------------------------------------------------------
(* The heap.  malloc gives what it has, or nothing; its address decides    *)
(* the padding.                                                            *)

IsFirstFree(c) == c \notin got /\ \A d \in Chunks \ got : c <= d

Malloc(c, size, pad, used, left) ==
    /\ IsFirstFree(c)
    /\ got' = got \cup {c}
    /\ chunk' = [chunk EXCEPT ![c] = [size |-> size, pad |-> pad, used |-> used, left |-> left]]

Frees(chunks) ==
    /\ got' = got \ chunks
    /\ chunk' = [c \in Chunks |-> IF c \in chunks THEN Empty ELSE chunk[c]]

PoolChunks(p) == {small[p][i] : i \in DOMAIN small[p]} \cup large[p]

(* jpeg_destroy: self_destruct frees both pools and then itself. *)
Destroyed ==
    /\ Frees(PoolChunks("PERMANENT") \cup PoolChunks("IMAGE") \cup {mem})
    /\ mem' = 0
    /\ small' = [p \in Pools |-> <<>>] /\ large' = [p \in Pools |-> {}]
    /\ total' = 0 /\ virt' = <<>> /\ call' = "idle" /\ array' = NoArray
    /\ objects' = {} /\ frees' = 0 /\ freed' = 0 /\ junk' = FALSE

(* error_exit destroys the object and ends the process. *)
ErrorExit == Destroyed

Ready == mem # 0 /\ call = "idle"

(* jinit_memory_mgr. *)
CreateMgr ==
    /\ mem = 0
    /\ \E c \in Chunks : Malloc(c, Manager, 0, 0, 0) /\ mem' = c
    /\ total' = Manager
    /\ UNCHANGED <<small, large, objects, arrayVars, historyVars>>

Destroy == Ready /\ Destroyed

-----------------------------------------------------------------------------
(* Objects.                                                                *)

Object(p, c, from, n) == [pool |-> p, chunk |-> c, from |-> from, size |-> n]

(* Faulty variant: any room will do. *)
HasRoomAny(p, i, n) == chunk[small[p][i]].left > 0

(* The first chunk of the list that has room. *)
HasRoom(p, i, n) == chunk[small[p][i]].left >= n
FirstRoom(p, i, n) == HasRoom(p, i, n) /\ \A j \in 1 .. i - 1 : ~HasRoom(p, j, n)

UsesRoom(p, n) ==
    \E i \in DOMAIN small[p] :
        LET c == small[p][i] IN
        /\ FirstRoom(p, i, n)
        /\ chunk' = [chunk EXCEPT ![c].used = @ + n, ![c].left = @ - n]
        /\ objects' = objects \cup {Object(p, c, Header + chunk[c].pad + chunk[c].used, n)}
        /\ UNCHANGED <<got, small, total>>

(* The slop is halved until malloc gives the chunk. *)
Slop(p, n) ==
    AtMost(IF small[p] = <<>> THEN FirstSlop[p] ELSE ExtraSlop[p], MaxAllocChunk - Request(n))
Tries(slop) == {slop} \cup {s \in MinSlop .. slop : \E k \in 1 .. 16 : s = slop \div 2^k}

NewPool(p, n) ==
    /\ \A i \in DOMAIN small[p] : ~HasRoom(p, i, n)
    /\ Request(n) <= MaxAllocChunk
    /\ \E c \in Chunks, pad \in Pads, slop \in Tries(Slop(p, n)) :
           /\ Malloc(c, Request(n) + slop, pad, n, slop)
           /\ small' = [small EXCEPT ![p] = Append(@, c)]
           /\ total' = total + Request(n) + slop
           /\ objects' = objects \cup {Object(p, c, Header + pad, n)}

SmallObject(p, size) ==
    LET n == RoundUp(size, AlignSize) IN
    (UsesRoom(p, n) \/ NewPool(p, n)) /\ UNCHANGED large

(* malloc may fail when it is called, even the last time. *)
SmallFails(p, size) ==
    \A i \in DOMAIN small[p] : ~HasRoom(p, i, RoundUp(size, AlignSize))

LargeObject(p, size, c, pad) ==
    LET n == RoundUp(size, AlignSize) IN
    /\ Request(n) <= MaxAllocChunk
    /\ Malloc(c, Request(n), pad, n, 0)
    /\ large' = [large EXCEPT ![p] = @ \cup {c}]
    /\ total' = total + Request(n)
    /\ objects' = objects \cup {Object(p, c, Header + pad, n)}
    /\ UNCHANGED small

AllocSmall ==
    /\ Ready
    /\ \E p \in Pools, size \in Sizes :
           \/ SmallObject(p, size) /\ UNCHANGED <<mem, arrayVars, historyVars>>
           \/ SmallFails(p, size) /\ ErrorExit

AllocLarge ==
    /\ Ready
    /\ \E p \in Pools, size \in Sizes :
           \/ \E c \in Chunks, pad \in Pads :
                  LargeObject(p, size, c, pad) /\ UNCHANGED <<mem, arrayVars, historyVars>>
           \/ ErrorExit

-----------------------------------------------------------------------------
(* Arrays.  Rows of samples are made wider, for upsampling.                *)

RowBytes(kind, width) ==
    IF kind = "sarray" THEN RoundUp(width, 2 * AlignSize) ELSE width * Block

(* As many rows as fit; not all of these leave room for the alignment.     *)
RowsPerChunk(bytes, height) == AtMost((MaxAllocChunk - Header) \div bytes, height)

(* Begins an array: the row pointers.  v is the virtual array it is for. *)
BeginArray(p, bytes, height, v) ==
    LET per == RowsPerChunk(bytes, height) IN
    \/ /\ per > 0 /\ SmallObject(p, height)
       /\ array' = [pool |-> p, width |-> bytes, height |-> height, per |-> per,
                    rows |-> <<>>, virt |-> v]
       /\ call' = "rows"
       /\ UNCHANGED <<mem, virt, historyVars>>
    \/ (per = 0 \/ SmallFails(p, height)) /\ ErrorExit

AllocArray ==
    /\ Ready
    /\ \E p \in Pools, kind \in {"sarray", "barray"}, width \in Widths, height \in Heights :
           BeginArray(p, RowBytes(kind, width), height, 0)

ChunkRows == AtMost(array.per, array.height - Len(array.rows))

(* Faulty variant: the padding is forgotten. *)
RowAtHeader(c, pad, i) == [chunk |-> c, from |-> Header + (i - 1) * array.width]

RowAt(c, pad, i) == [chunk |-> c, from |-> Header + pad + (i - 1) * array.width]

Buffer(v) == [r \in 1 .. virt[v].height |-> "junk"]

(* The loop for the rows: as many as go in a chunk. *)
AllocRows ==
    /\ call = "rows"
    /\ \/ \E c \in Chunks, pad \in Pads :
              LET rows == array.rows \o [i \in 1 .. ChunkRows |-> RowAt(c, pad, i)]
                  done == Len(rows) >= array.height
                  v == array.virt IN
              /\ LargeObject(array.pool, ChunkRows * array.width, c, pad)
              /\ array' = [array EXCEPT !.rows = rows]
              /\ call' = IF ~done THEN "rows" ELSE IF v = 0 THEN "idle" ELSE "realize"
              /\ virt' = IF done /\ v # 0 THEN [virt EXCEPT ![v].buffer = Buffer(v)] ELSE virt
              /\ UNCHANGED <<mem, historyVars>>
       \/ ErrorExit

-----------------------------------------------------------------------------
(* Virtual arrays.                                                         *)

RequestVirt ==
    /\ Ready
    /\ \E kind \in {"sarray", "barray"}, zero \in BOOLEAN, width \in Widths, height \in Heights :
           \/ /\ SmallObject("IMAGE", Control)
              /\ virt' = <<[kind |-> kind, height |-> height, width |-> width,
                            zero |-> zero, undef |-> 1, buffer |-> <<>>]>> \o virt
              /\ UNCHANGED <<mem, call, array, historyVars>>
           \/ SmallFails("IMAGE", Control) /\ ErrorExit

Unrealized == {v \in DOMAIN virt : virt[v].buffer = <<>>}

Earlier(u, v) == IF virt[u].kind = virt[v].kind THEN u < v ELSE virt[u].kind = "sarray"

(* realize_virt_arrays: sample arrays first, each kind in the list's order. *)
Realize ==
    /\ Ready \/ call = "realize"
    /\ \/ /\ Unrealized = {} /\ call' = "idle"
          /\ UNCHANGED <<mem, heapVars, poolVars, virt, array, historyVars>>
       \/ \E v \in Unrealized :
              /\ \A u \in Unrealized : ~Earlier(u, v)
              /\ BeginArray("IMAGE", RowBytes(virt[v].kind, virt[v].width), virt[v].height, v)

(* Faulty variant: what was written before is zeroed with the rest. *)
FirstZeroedAll(a, from) == from

(* Rows from here on are zeroed: a reader may read ahead of the writer. *)
FirstZeroed(a, from) == IF a.undef < from THEN from ELSE a.undef

(* What the access leaves in the array's rows. *)
Zeroed(a, from, to) ==
    [r \in 1 .. a.height |-> IF a.zero /\ a.undef <= to /\ r \in FirstZeroed(a, from) .. to
                             THEN "zero" ELSE a.buffer[r]]

(* No such rows, too many, not realized, or not defined. *)
Refused(v, from, to, writable) ==
    LET a == virt[v] IN
    \/ to > a.height \/ to - from >= MaxAccess \/ v \in Unrealized
    \/ a.undef <= to /\ IF writable THEN a.undef < from ELSE ~a.zero

(* What its caller does then: a writer writes all rows, or some of those   *)
(* it was given as zeros, a reader reads them.                             *)
Accessed(v, from, to, writable) ==
    LET a == virt[v] zeroed == Zeroed(a, from, to) IN
    /\ \E written \in SUBSET (from .. to) :
           /\ IF writable THEN a.zero \/ written = from .. to ELSE written = {}
           /\ virt' = [virt EXCEPT ![v].undef = IF writable /\ @ <= to THEN to + 1 ELSE @,
                                   ![v].buffer = [r \in 1 .. a.height |->
                                        IF r \in written THEN "data" ELSE zeroed[r]]]
    /\ junk' = \/ junk
               \/ ~writable /\ \E r \in from .. to : zeroed[r] = "junk"
               \/ \E r \in 1 .. a.height : a.buffer[r] = "data" /\ zeroed[r] # "data"
    /\ UNCHANGED <<mem, heapVars, poolVars, call, array, frees, freed>>

(* access_virt_sarray, access_virt_barray. *)
Access ==
    /\ Ready
    /\ \E v \in DOMAIN virt, from \in 1 .. Max(Heights) :
       \E to \in from .. Max(Heights), writable \in BOOLEAN :
           \/ Refused(v, from, to, writable) /\ ErrorExit
           \/ ~Refused(v, from, to, writable) /\ Accessed(v, from, to, writable)

-----------------------------------------------------------------------------
(* Faulty variant: what is left of a chunk is not counted. *)
SpaceUsed == [c \in Chunks |-> chunk[c].used + Header]

(* The space of a chunk is what its header counts: not the alignment. *)
Space == [c \in Chunks |-> chunk[c].used + chunk[c].left + Header]

(* Faulty variant: the list of small chunks is not emptied. *)
FreePoolKeepsList(p) ==
    /\ Frees(PoolChunks(p))
    /\ large' = [large EXCEPT ![p] = {}] /\ UNCHANGED small
    /\ total' = total - SumFunctionOnSet(Space, PoolChunks(p))
    /\ freed' = freed + Cardinality(PoolChunks(p))
    /\ objects' = {o \in objects : o.pool # p}

FreePool(p) ==
    /\ Frees(PoolChunks(p))
    /\ small' = [small EXCEPT ![p] = <<>>] /\ large' = [large EXCEPT ![p] = {}]
    /\ total' = total - SumFunctionOnSet(Space, PoolChunks(p))
    /\ freed' = freed + Cardinality(PoolChunks(p))
    /\ objects' = {o \in objects : o.pool # p}

(* jpeg_abort, also the last thing jpeg_finish_compress does. *)
Abort ==
    /\ Ready /\ frees < MaxFrees
    /\ FreePool("IMAGE")
    /\ virt' = <<>> /\ array' = NoArray /\ frees' = frees + 1
    /\ UNCHANGED <<mem, call, junk>>

Next ==
    \/ CreateMgr \/ Destroy \/ Abort
    \/ AllocSmall \/ AllocLarge \/ AllocArray \/ AllocRows
    \/ RequestVirt \/ Realize \/ Access

Spec == Init /\ [][Next]_vars

-----------------------------------------------------------------------------
TypeOK ==
    /\ mem \in 0 .. MaxChunks /\ got \subseteq Chunks
    /\ chunk \in [Chunks -> [size : Nat, pad : 0 .. AlignSize - 1, used : Nat, left : Nat]]
    /\ small \in [Pools -> Seq(Chunks)] /\ large \in [Pools -> SUBSET Chunks]
    /\ total \in Nat /\ call \in {"idle", "rows", "realize"}
    /\ array.pool \in Pools /\ array.virt \in 0 .. Len(virt)
    /\ \A v \in DOMAIN virt :
           /\ virt[v].undef \in 1 .. virt[v].height + 1
           /\ \A r \in DOMAIN virt[v].buffer : virt[v].buffer[r] \in {"junk", "zero", "data"}
    /\ \A o \in objects : o.pool \in Pools /\ o.chunk \in Chunks /\ o.from \in Nat /\ o.size \in Nat
    /\ frees \in 0 .. MaxFrees /\ freed \in Nat /\ junk \in BOOLEAN

(* Two pieces of a chunk do not overlap. *)
Apart(a, m, b, n) == a.chunk # b.chunk \/ a.from + m <= b.from \/ b.from + n <= a.from

(* Whatever address malloc gives and however often pools are filled and    *)
(* freed, an object lies in one chunk that was not freed, behind its       *)
(* header, and no two share a byte.  (alloc_small, alloc_large: "allocate  *)
(* ALIGN_SIZE-1 extra space per pool".)                                    *)
ObjectsApart ==
    /\ \A o \in objects :
           /\ o.chunk \in got \ {mem}
           /\ Header <= o.from /\ o.from + o.size <= chunk[o.chunk].size
    /\ \A o, q \in objects : o # q => Apart(o, o.size, q, q.size)

(* Every chunk has one owner, so each goes back to the heap once: nothing  *)
(* is left when the object is destroyed, by an error in any call too.      *)
(* (free_pool, self_destruct.)                                             *)
OneOwner ==
    /\ got = PoolChunks("PERMANENT") \cup PoolChunks("IMAGE") \cup ({mem} \ {0})
    /\ PoolChunks("PERMANENT") \cap PoolChunks("IMAGE") = {}
    /\ mem \notin PoolChunks("PERMANENT") \cup PoolChunks("IMAGE")

Size == [c \in Chunks |-> chunk[c].size]

(* total_space_allocated is not their sum: a chunk's size is its header,   *)
(* ALIGN_SIZE-1 and what is used and left of it, and free_pool does not    *)
(* subtract the ALIGN_SIZE-1.  So it is what is owned now, and ALIGN_SIZE-1*)
(* for each chunk freed before.  (free_pool; jmemmgr.c:132: "counts total  *)
(* space obtained from jpeg_get_small/large".)                             *)
ChunksAreAccounted ==
    OneOwner /\ total = SumFunctionOnSet(Size, got) + freed * (AlignSize - 1)

(* The rows of an array are pieces of large objects, each of its own, and  *)
(* one behind the other where they share one, which yuv420_to_jpeg relies  *)
(* on when it copies a band through the first row's pointer.               *)
(* (alloc_sarray, alloc_barray.)                                           *)
RowsInPlace ==
    LET rows == array.rows w == array.width IN
    /\ Len(rows) <= array.height
    /\ \A i \in DOMAIN rows :
           /\ \E o \in objects : /\ o.pool = array.pool /\ o.chunk = rows[i].chunk
                                 /\ o.from <= rows[i].from /\ rows[i].from + w <= o.from + o.size
           /\ i + 1 \in DOMAIN rows /\ rows[i + 1].chunk = rows[i].chunk
                  => rows[i + 1].from = rows[i].from + w
    /\ \A i, j \in DOMAIN rows : i # j => Apart(rows[i], w, rows[j], w)

(* In whatever order rows are accessed, what was written stays and what a  *)
(* reader is let read was written or zeroed.  (access_virt_sarray.)        *)
ReadsBack == ~junk
=============================================================================
