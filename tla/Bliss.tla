------------------------------- MODULE Bliss --------------------------------
(***************************************************************************)
(* The BLISS block allocator under power failures.  The allocator record   *)
(* is volatile and double buffered in NVM; the links inside the blocks are *)
(* in NVM only and are not double buffered, so an allocation or a free     *)
(* that is never committed must not disturb the committed free list or the *)
(* lists the committed program still holds.                                *)
(*                                                                         *)
(* The client is MPatch: between two commits it first allocates and then   *)
(* frees, and it frees only lists that have been committed                 *)
(* (mpatch_sweep_delete_obselete, mpatch_sweep_delete_uncommitted).        *)
(***************************************************************************)
EXTENDS BlissOps, Sequences

CONSTANT MaxList   \* the longest list the client asks for, in blocks

ASSUME MaxListAssumption == MaxList \in 1..NBlocks

VARIABLES
  alloc,      \* bliss_allocator, volatile
  nvm,        \* bliss_allocator_nvm
  next_free,  \* NVM: next_free_block of every block
  next_block, \* NVM: next_block of every block
  clock,      \* parity of the clock the client passes
  pc,         \* the call in progress
  list,       \* bliss_alloc: the blocks linked so far
  left,       \* bliss_alloc: the blocks still to take
  free_idx,   \* bliss_free: the next block to free
  pool,       \* history: the free list and the client's lists, as sequences
  committed   \* history: the pool at the last commit

vars == <<alloc, nvm, next_free, next_block, clock, pc, list, left, free_idx,
          pool, committed>>
links    == <<next_free, next_block>>
locals   == <<list, left, free_idx>>

BlockSeq == UNION {[1..n -> Block] : n \in 0..NBlocks}

Active   == clock
Inactive == 1 - clock

\* bliss_init; what the links hold before it is whatever the NVM held.
Init ==
  /\ alloc = DefaultAllocator
  /\ nvm = [i \in 0..1 |-> DefaultAllocator]
  /\ \E g \in 0..NBlocks : next_free = [b \in Block |-> g]
  /\ next_block = [b \in Block |-> Nil]
  /\ clock = 1
  /\ pc = "idle"
  /\ list = <<>> /\ left = 0 /\ free_idx = Nil
  /\ pool = [free |-> [i \in 1..NBlocks |-> i - 1], lists |-> {}]
  /\ committed = pool

-----------------------------------------------------------------------------
(* bliss_alloc                                                             *)

\* Mutant: a client that allocates although it freed since the last commit.
AllocAnyTime == TRUE

\* The client allocates only while it has freed nothing since the last commit.
AllocPhase == committed.lists \subseteq pool.lists

BeginAlloc(n) ==
  /\ pc = "idle" /\ AllocPhase
  /\ n <= alloc.n_free_blocks
  /\ pc' = "alloc" /\ list' = <<>> /\ left' = n
  /\ UNCHANGED <<alloc, nvm, links, clock, free_idx, pool, committed>>

\* One round of the loop: bliss_alloc_block, then link to the block before.
TakeBlock ==
  /\ pc = "alloc" /\ left > 0
  /\ alloc' = Pop(alloc, next_free)
  /\ next_free' = InitNext(alloc, next_free)
  /\ next_block' = IF list = <<>> THEN next_block
                   ELSE [next_block EXCEPT ![list[Len(list)]] = alloc.next_free_block]
  /\ list' = Append(list, alloc.next_free_block)
  /\ left' = left - 1
  /\ pool' = [free |-> Tail(pool.free), lists |-> pool.lists]
  /\ UNCHANGED <<nvm, clock, pc, free_idx, committed>>

EndAlloc ==
  /\ pc = "alloc" /\ left = 0
  /\ next_block' = [next_block EXCEPT ![list[Len(list)]] = Nil]
  /\ pool' = [free |-> pool.free, lists |-> pool.lists \cup {list}]
  /\ pc' = "idle" /\ list' = <<>>
  /\ UNCHANGED <<alloc, nvm, next_free, clock, left, free_idx, committed>>

-----------------------------------------------------------------------------
(* bliss_free                                                              *)

BeginFree(l) ==
  /\ pc = "idle" /\ l \in committed.lists
  /\ pc' = "free" /\ free_idx' = l[1]
  /\ pool' = [free |-> pool.free, lists |-> pool.lists \ {l}]
  /\ UNCHANGED <<alloc, nvm, links, clock, list, left, committed>>

FreeBlock ==
  /\ pc = "free" /\ free_idx # Nil
  /\ alloc' = Push(alloc, free_idx)
  /\ next_free' = FreeNext(alloc, next_free, free_idx)
  /\ free_idx' = next_block[free_idx]
  /\ pool' = [free |-> <<free_idx>> \o pool.free, lists |-> pool.lists]
  /\ UNCHANGED <<nvm, next_block, clock, pc, list, left, committed>>

EndFree ==
  /\ pc = "free" /\ free_idx = Nil
  /\ pc' = "idle"
  /\ UNCHANGED <<alloc, nvm, links, clock, locals, pool, committed>>

-----------------------------------------------------------------------------
(* Checkpoints and power.                                                  *)

\* bliss_checkpoint
Checkpoint ==
  /\ pc = "idle"
  /\ nvm' = [nvm EXCEPT ![Active] = alloc]
  /\ pc' = "saved"
  /\ UNCHANGED <<alloc, links, clock, locals, pool, committed>>

\* The client advances its clock; it then calls bliss_post_checkpoint.
Commit ==
  /\ pc = "saved"
  /\ clock' = Inactive
  /\ committed' = pool
  /\ pc' = "post"
  /\ UNCHANGED <<alloc, nvm, links, locals, pool>>

\* bliss_restore, after a commit or at boot.
Restore ==
  /\ pc \in {"post", "boot"}
  /\ alloc' = nvm[Inactive]
  /\ pc' = "idle"
  /\ UNCHANGED <<nvm, links, clock, locals, pool, committed>>

\* Everything volatile is lost, the client's references included: what it
\* holds after the restore is what it held at the last commit.
PowerFail ==
  /\ pc # "boot"
  /\ alloc' = DefaultAllocator
  /\ list' = <<>> /\ left' = 0 /\ free_idx' = Nil
  /\ pool' = committed
  /\ pc' = "boot"
  /\ UNCHANGED <<nvm, links, clock, committed>>

Next ==
  \/ \E n \in 1..MaxList : BeginAlloc(n)
  \/ TakeBlock \/ EndAlloc
  \/ \E l \in pool.lists : BeginFree(l)
  \/ FreeBlock \/ EndFree
  \/ Checkpoint \/ Commit \/ Restore \/ PowerFail

Spec == Init /\ [][Next]_vars

-----------------------------------------------------------------------------
(* Properties.                                                             *)

\* Every variable keeps its type; the allocator's counters stay within the
\* number of blocks (bliss_allocator.c:114-132).
TypeOK ==
  /\ alloc \in Allocator
  /\ nvm \in [0..1 -> Allocator]
  /\ next_free \in [Block -> 0..NBlocks]
  /\ next_block \in [Block -> Index]
  /\ clock \in 0..1
  /\ pc \in {"idle", "alloc", "free", "saved", "post", "boot"}
  /\ list \in BlockSeq /\ left \in 0..MaxList /\ free_idx \in Index
  /\ pool.free \in BlockSeq /\ committed.free \in BlockSeq
  /\ \A l \in pool.lists \cup committed.lists : l \in BlockSeq /\ l # <<>>

\* A block that was never initialised is followed by its neighbour.
Follow(a, b) == IF b < a.n_initialized_blocks THEN next_free[b] ELSE b + 1

\* Following a from its head meets exactly the blocks of s.
FreeListIs(a, s) ==
  /\ a.n_free_blocks = Len(s)
  /\ a.next_free_block = IF s = <<>> THEN Nil ELSE s[1]
  /\ \A i \in 1..Len(s)-1 : Follow(a, s[i]) = s[i+1]

\* Following next_block from the head of l meets exactly the blocks of l.
ListIntact(l) ==
  /\ \A i \in 1..Len(l)-1 : next_block[l[i]] = l[i+1]
  /\ next_block[l[Len(l)]] = Nil

Blocks(s) == {s[i] : i \in DOMAIN s}

\* The sequences share no block and no sequence has one twice.
Disjoint(ss) ==
  /\ \A s \in ss : \A i, j \in DOMAIN s : s[i] = s[j] => i = j
  /\ \A s, t \in ss : s # t => Blocks(s) \cap Blocks(t) = {}

\* Whatever the client is in the middle of, a failure at this point finds a
\* restorable allocator (bliss_restore, bliss_allocator.c:86): its free list is
\* whole, the lists the client holds again are whole, no block is in two of
\* them and none is lost.
CommittedPoolIntact ==
  /\ FreeListIs(nvm[Inactive], committed.free)
  /\ \A l \in committed.lists : ListIntact(l)
  /\ Disjoint(committed.lists \cup {committed.free})
  /\ (UNION {Blocks(l) : l \in committed.lists}) \cup Blocks(committed.free) = Block

\* The running allocator agrees with the client in every call
\* (bliss_allocator.c:110-204), also after lists were freed in another order than
\* they were allocated in: its free list is whole, so are the client's lists, no
\* block is in two of them, and between calls none is lost.  A request that passed
\* the check at bliss_allocator.c:161 never runs out of blocks half way.
RunningPoolIntact ==
  pc \in {"idle", "saved", "alloc", "free"} =>
    /\ FreeListIs(alloc, pool.free)
    /\ \A l \in pool.lists : ListIntact(l)
    /\ Disjoint(pool.lists \cup {pool.free, list})
    /\ pc = "alloc" => left <= Len(pool.free)
    /\ pc \in {"idle", "saved"} =>
         (UNION {Blocks(l) : l \in pool.lists}) \cup Blocks(pool.free) = Block
=============================================================================
