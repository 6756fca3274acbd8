------------------------------- MODULE Malloc -------------------------------
(***************************************************************************)
(* iPXE's memory allocator (src/src/ipxe/src/core/malloc.c): a first-fit   *)
(* free list in ascending order whose adjacent blocks are merged, with     *)
(* physical alignment, and with caches that are discarded when memory is   *)
(* short.                                                                  *)
(*                                                                         *)
(* Addresses are small numbers.  Word is SIZE_MAX + 1.  Owners are the     *)
(* callers, each of which holds one block at most.  A block allocated for  *)
(* a cache may be freed by discard_cache during any later allocation.      *)
(* The contents of blocks are left out.                                    *)
(***************************************************************************)
EXTENDS Integers, Sequences, FiniteSets, Functions

CONSTANTS Base, HeapSize,  \* the array heap
          MinBlock,             \* MIN_MEMBLOCK_SIZE, a power of two
          Hdr,             \* offsetof ( struct autosized_block, data )
          Word,            \* bound: size_t is computed modulo Word
          Owners,
          Sizes, Aligns, Offsets  \* what callers ask for

\* HEAP_SIZE is a multiple of MIN_MEMBLOCK_SIZE; alignments are powers of two like
\* it, so it divides the larger ones.
ASSUME MallocAssumption ==
    /\ Base \in Nat \ {0} /\ HeapSize \in Nat \ {0} /\ HeapSize % MinBlock = 0
    /\ MinBlock \in Nat \ {0} /\ Word % MinBlock = 0 /\ Base + HeapSize < Word
    /\ Hdr \in Nat /\ Word \in Nat /\ Sizes \subseteq 0..(Word - 1)
    /\ Aligns \subseteq Nat \ {0} /\ Offsets \subseteq Int
    /\ \A a \in Aligns : a <= MinBlock \/ a % MinBlock = 0
    /\ 0 \notin Owners

Kinds == {"malloc", "dma", "cache"}
Free0 == [ptr |-> 0, size |-> 0, kind |-> "none"]

\* The request alloc_memblock is serving: size and alignment, who will own the
\* block, and whose block realloc frees afterwards.
NoReq == [size |-> 0, align |-> 1, offset |-> 0, kind |-> "none", for |-> 0, old |-> 0]

VARIABLES
    free_blocks,  \* the free list
    freemem, usedmem,
    blk,          \* the block of each owner
    req, ret,     \* the current request, and the last result
    odd           \* history: a block was placed at an offset that is no multiple of
                  \* MinBlock, as ipoib_alloc_iob asks for

vars == <<free_blocks, freemem, usedmem, blk, req, ret, odd>>

CellsOf(b) == b.ptr..(b.ptr + b.size - 1)
FreeCells == UNION {CellsOf(b) : b \in Range(free_blocks)}

\* An overflow is taken for a request of no bytes and given a small block.
BadActual(size) ==
    LET n == (size + MinBlock - 1) % Word IN
    IF n < MinBlock THEN MinBlock ELSE n - (n % MinBlock)

\* The multiple of MIN_MEMBLOCK_SIZE that a size is rounded up to, in size_t.
Actual(size) ==
    LET n == (size + MinBlock - 1) % Word IN n - (n % MinBlock)

Held(o) == blk[o].kind # "none"
ActualCells(o) == blk[o].ptr..(blk[o].ptr + Actual(blk[o].size) - 1)

TypeOK ==
    /\ free_blocks \in Seq([ptr : Nat \ {0}, size : 0..HeapSize])
    /\ freemem \in 0..HeapSize /\ usedmem \in 0..HeapSize
    /\ blk \in [Owners -> [ptr : Nat, size : 0..HeapSize, kind : Kinds \cup {"none"}]]
    /\ \A o \in Owners : Held(o) => blk[o].size # 0
    /\ req \in [size : 0..(Word - 1), align : Aligns \cup {1}, offset : Offsets \cup {0},
                kind : Kinds \cup {"none"}, for : Owners \cup {0}, old : Owners \cup {0}]
    /\ ret \in {"none", "block", "null", "freed"}
    /\ odd \in BOOLEAN

\* init_heap and mpopulate: the whole array is one free block.
Init ==
    /\ free_blocks = <<[ptr |-> Base, size |-> HeapSize - (HeapSize % MinBlock)]>>
    /\ freemem = HeapSize /\ usedmem = 0
    /\ blk = [o \in Owners |-> Free0]
    /\ req = NoReq
    /\ ret = "none"
    /\ odd = FALSE

-----------------------------------------------------------------------------
(***************************************************************************)
(* The free list.                                                          *)
(***************************************************************************)

\* The bytes to skip in a free block to reach the alignment.
PreSize(b, r) ==
    (r.offset - b.ptr) % (IF r.align > MinBlock THEN r.align ELSE MinBlock)

Fits(b, r) ==
    /\ b.size >= PreSize(b, r)
    /\ b.size - PreSize(b, r) >= Actual(r.size)

\* The list with what is from its p-th to its q-th entry replaced.
Spliced(list, p, q, new) ==
    SubSeq(list, 1, p - 1) \o new \o SubSeq(list, q + 1, Len(list))

\* A block of the free list, unless it is too small to hold a header.
Piece(ptr, size) == IF size < MinBlock THEN <<>> ELSE <<[ptr |-> ptr, size |-> size]>>

\* The remainder after the block is put in front of the one before it.
BadCut(i, r) ==
    LET b == free_blocks[i]
        block == b.ptr + PreSize(b, r)
        post == block + Actual(r.size)
    IN Spliced(free_blocks, i, i, Piece(post, (b.ptr + b.size) - post) \o Piece(b.ptr, block - b.ptr))

\* What follows the block is taken to start behind the size that was asked for.
LooseCut(i, r) ==
    LET b == free_blocks[i]
        block == b.ptr + PreSize(b, r)
        post == block + r.size
    IN Spliced(free_blocks, i, i, Piece(b.ptr, block - b.ptr) \o Piece(post, (b.ptr + b.size) - post))

\* The free list after the request was cut out of its i-th block: what is left
\* before and after stays in the list.
Cut(i, r) ==
    LET b == free_blocks[i]
        block == b.ptr + PreSize(b, r)
        post == block + Actual(r.size)
    IN Spliced(free_blocks, i, i, Piece(b.ptr, block - b.ptr) \o Piece(post, (b.ptr + b.size) - post))

\* The loop of free_memblock: walk to the first block behind, take over a block
\* that ends where this one starts, insert, and take over the block that starts
\* where this one ends.
Release(list, ptr, n) ==
    LET behind == {i \in DOMAIN list : list[i].ptr >= ptr + n}
        k == IF behind = {} THEN Len(list) + 1
             ELSE CHOOSE i \in behind : \A j \in behind : i <= j
        front == {i \in 1..(k - 1) : list[i].ptr + list[i].size = ptr}
        m == IF front = {} THEN k ELSE CHOOSE i \in front : TRUE
        start == IF front = {} THEN ptr ELSE list[m].ptr
        q == IF k \in behind /\ list[k].ptr = ptr + n THEN k ELSE k - 1
        end == IF q = k THEN list[k].ptr + list[k].size ELSE ptr + n
    IN SubSeq(list, 1, m - 1) \o SubSeq(list, m + 1, k - 1)
       \o <<[ptr |-> start, size |-> end - start]>> \o SubSeq(list, q + 1, Len(list))

\* The size is not rounded up again.
Bad_free_memblock(o, list) == Release(list, blk[o].ptr, blk[o].size)

\* free_memblock for the block of an owner.
free_memblock(o, list) == Release(list, blk[o].ptr, Actual(blk[o].size))

-----------------------------------------------------------------------------
(***************************************************************************)
(* The operations.                                                         *)
(***************************************************************************)

\* malloc, zalloc and realloc to a larger or smaller size: the block holds its
\* own size in front.  realloc fails before it touches the old block when the
\* size with its header overflows.
realloc(o, old, size, kind) ==
    LET total == (size + Hdr) % Word IN
    /\ req = NoReq
    /\ size # 0
    /\ ~Held(o)
    /\ IF total < size
       THEN ret' = "null" /\ UNCHANGED req
       ELSE /\ req' = [size |-> total, align |-> 1, offset |-> 0, kind |-> kind,
                       for |-> o, old |-> old]
            /\ ret' = "none"
    /\ UNCHANGED <<free_blocks, freemem, usedmem, blk, odd>>

Malloc(o) == \E s \in Sizes, k \in {"malloc", "cache"} : realloc(o, 0, s, k)
Realloc(o, old) ==
    /\ blk[old].kind \in {"malloc", "cache"}
    /\ \E s \in Sizes : realloc(o, old, s, blk[old].kind)

MallocDma(o) ==
    /\ req = NoReq /\ ~Held(o)
    /\ \E s \in Sizes \ {0}, a \in Aligns, f \in Offsets :
          req' = [size |-> s, align |-> a, offset |-> f, kind |-> "dma",
                  for |-> o, old |-> 0]
    /\ ret' = "none"
    /\ UNCHANGED <<free_blocks, freemem, usedmem, blk, odd>>

\* free, which is realloc to size 0, and free_dma.
Free(o) ==
    /\ req = NoReq
    /\ Held(o)
    /\ free_blocks' = free_memblock(o, free_blocks)
    /\ freemem' = freemem + Actual(blk[o].size)
    /\ usedmem' = usedmem - Actual(blk[o].size)
    /\ blk' = [blk EXCEPT ![o] = Free0]
    /\ ret' = "freed"
    /\ UNCHANGED <<req, odd>>

\* alloc_memblock finds the first block with enough space; realloc then frees
\* the old block.
Take ==
    LET n == Actual(req.size)
        old == IF req.old = 0 THEN 0 ELSE Actual(blk[req.old].size)
    IN
    /\ req # NoReq /\ n # 0
    /\ \E i \in DOMAIN free_blocks :
          LET b == free_blocks[i]
              block == [ptr |-> b.ptr + PreSize(b, req), size |-> req.size, kind |-> req.kind]
          IN
          /\ Fits(b, req) /\ \A j \in 1..(i - 1) : ~Fits(free_blocks[j], req)
          /\ free_blocks' = IF req.old = 0 THEN Cut(i, req)
                            ELSE free_memblock(req.old, Cut(i, req))
          /\ blk' = [o \in Owners |-> IF o = req.for THEN block
                                      ELSE IF o = req.old THEN Free0 ELSE blk[o]]
    /\ freemem' = freemem - n + old
    /\ usedmem' = usedmem + n - old
    /\ req' = NoReq
    /\ ret' = "block"
    /\ odd' = (odd \/ req.offset % MinBlock # 0)

\* A discarder reports a success and frees nothing.
BadDiscard ==
    /\ req # NoReq /\ Actual(req.size) # 0
    /\ \A i \in DOMAIN free_blocks : ~Fits(free_blocks[i], req)
    /\ \E o \in Owners \ {req.old} : blk[o].kind = "cache"
    /\ UNCHANGED vars

\* ... or discards a cached block and searches again ...
Discard ==
    /\ req # NoReq /\ Actual(req.size) # 0
    /\ \A i \in DOMAIN free_blocks : ~Fits(free_blocks[i], req)
    /\ \E o \in Owners \ {req.old} :
          /\ blk[o].kind = "cache"
          /\ free_blocks' = free_memblock(o, free_blocks)
          /\ freemem' = freemem + Actual(blk[o].size)
          /\ usedmem' = usedmem - Actual(blk[o].size)
          /\ blk' = [blk EXCEPT ![o] = Free0]
    /\ UNCHANGED <<req, ret, odd>>

\* A failed allocation without the attempt to discard.
BadFail ==
    /\ req # NoReq
    /\ \/ Actual(req.size) = 0
       \/ \A i \in DOMAIN free_blocks : ~Fits(free_blocks[i], req)
    /\ req' = NoReq
    /\ ret' = "null"
    /\ UNCHANGED <<free_blocks, freemem, usedmem, blk, odd>>

\* ... or returns NULL: nothing fits and nothing is cached, or the rounded size
\* has overflowed.
Fail ==
    /\ req # NoReq
    /\ \/ Actual(req.size) = 0
       \/ /\ \A i \in DOMAIN free_blocks : ~Fits(free_blocks[i], req)
          /\ \A o \in Owners \ {req.old} : blk[o].kind # "cache"
    /\ req' = NoReq
    /\ ret' = "null"
    /\ UNCHANGED <<free_blocks, freemem, usedmem, blk, odd>>

alloc_memblock == Take \/ Discard \/ Fail

Next ==
    \/ alloc_memblock
    \/ \E o \in Owners : Malloc(o) \/ MallocDma(o) \/ Free(o)
    \/ \E o, old \in Owners : Realloc(o, old)

Spec == Init /\ [][Next]_vars /\ WF_vars(alloc_memblock)

-----------------------------------------------------------------------------
(***************************************************************************)
(* Properties.                                                             *)
(***************************************************************************)

\* The assertions of check_blocks: the free list is in ascending order, every
\* block can hold a header, and adjacent blocks have been merged.  The statistics
\* agree with it: usedmem is what the owners hold, rounded up, and the rest of
\* the heap counts as free, leaked bytes included.
CheckBlocks ==
    /\ \A i \in DOMAIN free_blocks :
          /\ free_blocks[i].size >= MinBlock
          /\ i > 1 => free_blocks[i].ptr > free_blocks[i - 1].ptr + free_blocks[i - 1].size
    /\ usedmem = Cardinality(UNION {ActualCells(o) : o \in {q \in Owners : Held(q)}})
    /\ freemem = HeapSize - usedmem

\* "which can happen only at the very end of the heap", "which can happen only at the
\* very start of the heap": the comments of alloc_memblock on the memory it leaks.
LeaksOnlyAtEnds ==
    \A c \in Base..(Base + HeapSize - 1) :
        \/ c \in FreeCells
        \/ \E o \in Owners : Held(o) /\ c \in ActualCells(o)
        \/ c < Base + MinBlock - 1 \/ c > Base + HeapSize - MinBlock

\* That is so until a block is placed at an offset that is no multiple of MinBlock:
\* up to then alloc_memblock gives up no memory in the middle and the heap does not
\* wear out, however blocks are allocated, resized and freed.
LeaksNeedOffset == ~odd => LeaksOnlyAtEnds

\* alloc_memblock returns NULL only when the free cells, wherever the list has
\* cut them, hold no aligned run of that length and no cache is left.
NullOnlyWhenFull ==
    [][(ret' = "null" /\ req # NoReq /\ req' = NoReq /\ Actual(req.size) # 0) =>
          /\ \A o \in Owners \ {req.old} : blk[o].kind # "cache"
          /\ ~ \E a \in FreeCells :
                /\ (a - req.offset) % req.align = 0 /\ (a - req.offset) % MinBlock = 0
                /\ a..(a + Actual(req.size) - 1) \subseteq FreeCells]_vars

\* The search of alloc_memblock ends, however many caches it discards.
AllocEnds == (req # NoReq) ~> (req = NoReq)

TheHeap == INSTANCE Heap WITH pool <- FreeCells,
              owned <- [o \in Owners |-> IF Held(o) THEN ActualCells(o) ELSE {}]

\* The allocator implements the abstract heap: blocks of different owners never
\* share a cell, and what is freed can be handed out again.
ImplementsHeap == TheHeap!Spec
=============================================================================
