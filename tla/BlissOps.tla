------------------------------ MODULE BlissOps ------------------------------
(***************************************************************************)
(* The allocator of libs/mpatch/bliss_allocator as functions of its state: *)
(* an allocator record a and the next_free_block fields nf of the blocks.  *)
(* A block is initialised lazily, one per allocation, with its successor   *)
(* as next free block.                                                     *)
(***************************************************************************)
EXTENDS Naturals

CONSTANT NBlocks   \* bliss_number_of_blocks

ASSUME BlocksAssumption == NBlocks \in Nat \ {0}

Block == 0..NBlocks-1
Nil   == NBlocks + 1     \* the null pointer; NBlocks is one past the last block
Index == 0..NBlocks+1

Allocator == [next_free_block: Index, n_free_blocks: 0..NBlocks,
              n_initialized_blocks: 0..NBlocks]

\* bliss_init
DefaultAllocator == [next_free_block |-> 0, n_free_blocks |-> NBlocks,
                     n_initialized_blocks |-> 0]

\* bliss_alloc_block, the lazy initialisation of one more block.
InitNext(a, nf) ==
  IF a.n_initialized_blocks < NBlocks
  THEN [nf EXCEPT ![a.n_initialized_blocks] = a.n_initialized_blocks + 1]
  ELSE nf

\* Mutant: the counter runs past the last block.
InitCountUnbounded(a) == a.n_initialized_blocks + 1

InitCount(a) ==
  IF a.n_initialized_blocks < NBlocks THEN a.n_initialized_blocks + 1
                                      ELSE a.n_initialized_blocks

\* bliss_alloc_block, taking the head of the free list.
Pop(a, nf) ==
  [next_free_block      |-> IF a.n_free_blocks = 1 THEN Nil
                            ELSE InitNext(a, nf)[a.next_free_block],
   n_free_blocks        |-> a.n_free_blocks - 1,
   n_initialized_blocks |-> InitCount(a)]

\* Mutant: the freed block forgets the rest of the free list.
FreeNextDropsTail(a, nf, b) == [nf EXCEPT ![b] = NBlocks]

\* bliss_free_block
FreeNext(a, nf, b) ==
  [nf EXCEPT ![b] = IF a.next_free_block # Nil THEN a.next_free_block ELSE NBlocks]

\* Mutant: the number of free blocks is not restored.
PushUncounted(a, b) == [a EXCEPT !.next_free_block = b]

Push(a, b) == [next_free_block      |-> b,
               n_free_blocks        |-> a.n_free_blocks + 1,
               n_initialized_blocks |-> a.n_initialized_blocks]
=============================================================================
