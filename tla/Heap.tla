-------------------------------- MODULE Heap --------------------------------
(***************************************************************************)
(* What a caller may rely on of iPXE's allocator (core/malloc.c): the heap *)
(* is a set of cells, a block is a run of cells that belongs to nobody     *)
(* else, a freed block goes back whole, and an allocation fails only when  *)
(* no aligned run of that length is left.                                  *)
(*                                                                         *)
(* The allocator may give up some cells when it cuts a block, but only     *)
(* fewer than MinBlock directly before and directly after it.              *)
(***************************************************************************)
EXTENDS Integers

CONSTANTS Base, HeapSize, MinBlock, Owners

VARIABLES pool,   \* the cells that can be handed out
          owned   \* owner -> the cells of its block

Cells == Base..(Base + HeapSize - 1)
Beside(a, n) == (a - MinBlock + 1)..(a - 1) \cup (a + n)..(a + n + MinBlock - 2)

Init == pool = Cells /\ owned = [o \in Owners |-> {}]

Allocate(o) ==
    /\ owned[o] = {}
    /\ \E a \in Cells, n \in 1..HeapSize :
          /\ a..(a + n - 1) \subseteq pool
          /\ owned' = [owned EXCEPT ![o] = a..(a + n - 1)]
          /\ pool' \subseteq pool \ a..(a + n - 1)
          /\ (pool \ a..(a + n - 1)) \ pool' \subseteq Beside(a, n)

Free(o) ==
    /\ owned' = [owned EXCEPT ![o] = {}]
    /\ pool' = pool \cup owned[o]

\* realloc of o's block hands its contents over to q.
Move(o, q) ==
    /\ owned[q] = {} /\ owned[o] # {}
    /\ \E a \in Cells, n \in 1..HeapSize :
          LET cells == a..(a + n - 1) IN
          /\ cells \subseteq pool
          /\ owned' = [owned EXCEPT ![q] = cells, ![o] = {}]
          /\ owned[o] \subseteq pool'
          /\ pool' \subseteq (pool \cup owned[o]) \ cells
          /\ ((pool \cup owned[o]) \ cells) \ pool' \subseteq Beside(a, n)

Next == \E o \in Owners : Allocate(o) \/ Free(o) \/ \E q \in Owners : Move(o, q)

Spec == Init /\ [][Next]_<<pool, owned>>
=============================================================================
