---------------------------- MODULE BlissProofs ----------------------------
(***************************************************************************)
(* Theorems about Bliss for any number of blocks and any length of lists:  *)
(* wherever power fails, and whatever was allocated or freed since the     *)
(* last commit, the committed free list and the committed lists are whole. *)
(***************************************************************************)
EXTENDS Bliss, BlissOpsProofs

\* No block is in two places of a pool, and none but those of rest is lost.
PoolOK(p) ==
  /\ Once(p.free)
  /\ \A l \in p.lists : l # <<>> /\ Once(l) /\ Apart(l, p.free)
  /\ \A l, m \in p.lists : l # m => Apart(l, m)
Covered(p, rest) == \A b \in Block : b \in rest \/ In(b, p.free) \/ \E l \in p.lists : In(b, l)

\* ListIntact with the links as a parameter.
LinkedIn(nb, l) ==
  /\ \A i \in 1..Len(l)-1 : nb[l[i]] = l[i+1]
  /\ nb[l[Len(l)]] = Nil

Pools == [free: Seq(Block), lists: SUBSET Seq(Block)]

Types ==
  /\ alloc \in Allocator /\ nvm \in [0..1 -> Allocator]
  /\ next_free \in [Block -> 0..NBlocks] /\ next_block \in [Block -> Index]
  /\ clock \in 0..1
  /\ pc \in {"idle", "alloc", "free", "saved", "post", "boot"}
  /\ list \in Seq(Block) /\ left \in 0..MaxList /\ free_idx \in Index
  /\ pool \in Pools /\ committed \in Pools

\* What a failure at any point restores.
CommittedInv ==
  /\ PoolOK(committed) /\ Covered(committed, {})
  /\ ListOf(nvm[Inactive], next_free, committed.free) /\ Fresh(nvm[Inactive], committed.free)
  /\ \A l \in committed.lists : LinkedIn(next_block, l)

\* The running allocator, which has initialised no less than the committed one.
RunningInv ==
  /\ PoolOK(pool)
  /\ ListOf(alloc, next_free, pool.free) /\ Fresh(alloc, pool.free)
  /\ \A l \in pool.lists : LinkedIn(next_block, l)
  /\ nvm[Inactive].n_initialized_blocks <= alloc.n_initialized_blocks

\* The list that an allocation has linked so far.
Allocating ==
  /\ AllocPhase
  /\ Once(list) /\ Apart(list, pool.free) /\ \A l \in pool.lists : Apart(list, l)
  /\ \A i \in 1..Len(list)-1 : next_block[list[i]] = list[i+1]
  /\ left <= Len(pool.free) /\ (left = 0 => list # <<>>)
  /\ Covered(pool, Blocks(list))

\* What is left of a list that is being freed, from its k-th block on.
FreeingAt(l, k) ==
  /\ free_idx = IF k <= Len(l) THEN l[k] ELSE Nil
  /\ \A i \in k..Len(l) : ~In(l[i], pool.free) /\ \A m \in pool.lists : ~In(l[i], m)
  /\ Covered(pool, {l[i] : i \in k..Len(l)})

Freeing == \E l \in committed.lists : \E k \in 1..Len(l)+1 : FreeingAt(l, k)

PcInv ==
  /\ pc # "alloc" => list = <<>>
  /\ pc = "alloc" => Allocating
  /\ pc = "free" => Freeing
  /\ pc \in {"idle", "saved", "post", "boot"} => Covered(pool, {})
  /\ pc = "saved" => nvm[Active] = alloc
  /\ pc = "post" => alloc = nvm[Inactive]
  /\ pc \in {"post", "boot"} => pool = committed

BlissInv ==
  /\ Types
  /\ CommittedInv
  /\ pc # "boot" => RunningInv
  /\ PcInv

-----------------------------------------------------------------------------
(* The pool as blocks move between its sequences.                          *)

\* The pool after a block was taken, a list was kept, dropped, or a block of it
\* returned; the list of an allocation after one more block.
Taken(p)       == [free |-> Tail(p.free), lists |-> p.lists]
Longer(p, q)   == Append(q, p.free[1])
Kept(p, q)     == [free |-> p.free, lists |-> p.lists \cup {q}]
Dropped(p, l)  == [free |-> p.free, lists |-> p.lists \ {l}]
Returned(p, b) == [free |-> <<b>> \o p.free, lists |-> p.lists]

\* The set Blocks has the members that In finds.
LEMMA BlocksIn ==
  ASSUME NEW s \in Seq(Block)
  PROVE  \A b : b \in Blocks(s) <=> In(b, s)
  BY DEF Blocks, In

\* A block moves from the head of the free list to the end of the list.
LEMMA TakePool ==
  ASSUME NEW p \in Pools, NEW q \in Seq(Block), PoolOK(p), p.free # <<>>,
         Once(q), Apart(q, p.free), \A l \in p.lists : Apart(q, l), Covered(p, Blocks(q))
  PROVE  /\ Taken(p) \in Pools /\ PoolOK(Taken(p)) /\ Len(Taken(p).free) = Len(p.free) - 1
         /\ Longer(p, q) \in Seq(Block) /\ Len(Longer(p, q)) = Len(q) + 1
         /\ Longer(p, q)[Len(q) + 1] = p.free[1]
         /\ \A i \in 1..Len(q) : Longer(p, q)[i] = q[i]
         /\ Once(Longer(p, q)) /\ Apart(Longer(p, q), Taken(p).free)
         /\ \A l \in Taken(p).lists : Apart(Longer(p, q), l)
         /\ Covered(Taken(p), Blocks(Longer(p, q)))
<1> DEFINE f == p.free
           p2 == Taken(p)
           q2 == Longer(p, q)
<1>1. /\ f \in Seq(Block) /\ Len(f) \in Nat /\ Len(f) >= 1 /\ f[1] \in Block
      /\ p.lists \in SUBSET Seq(Block)
  <2>1. f \in Seq(Block) /\ Len(f) \in Nat /\ Len(f) # 0 /\ p.lists \in SUBSET Seq(Block)
    BY EmptyIffNoLength DEF Pools
  <2> QED
    BY <2>1
<1>2. /\ p2.free = Tail(f) /\ p2.lists = p.lists
      /\ Tail(f) \in Seq(Block) /\ Len(Tail(f)) = Len(f) - 1
      /\ \A i \in 1..Len(f)-1 : Tail(f)[i] = f[i+1]
  BY <1>1 DEF Taken
<1>3. /\ q2 \in Seq(Block) /\ Len(q) \in Nat /\ Len(q2) = Len(q) + 1
      /\ q2[Len(q)+1] = f[1] /\ \A i \in 1..Len(q) : q2[i] = q[i]
  BY <1>1 DEF Longer
<1> HIDE DEF p2, q2
<1>4. p2 \in Pools
  BY <1>1, <1>2 DEF Pools, Taken, p2
<1>5. PoolOK(p2)
  <2>1. Once(Tail(f))
    BY <1>1, <1>2 DEF PoolOK, Once
  <2>2. \A l \in p.lists : Apart(l, Tail(f))
    <3> SUFFICES ASSUME NEW l \in p.lists, NEW i \in 1..Len(l), NEW j \in 1..Len(Tail(f))
                 PROVE  l[i] # Tail(f)[j]
      BY DEF Apart
    <3>1. j + 1 \in 1..Len(f) /\ Tail(f)[j] = f[j+1]
      BY <1>1, <1>2
    <3>2. Apart(l, f)
      BY DEF PoolOK
    <3> QED
      BY <3>1, <3>2 DEF Apart
  <2> QED
    BY <1>2, <2>1, <2>2 DEF PoolOK
<1>6. Once(q2)
  BY <1>1, <1>3 DEF Once, Apart
<1>7. Apart(q2, Tail(f))
  <2>1. Once(f)
    BY DEF PoolOK
  <2> SUFFICES ASSUME NEW i \in 1..Len(q2), NEW j \in 1..Len(Tail(f))
               PROVE  q2[i] # Tail(f)[j]
    BY DEF Apart
  <2>2. j + 1 \in 1..Len(f) /\ Tail(f)[j] = f[j+1]
    BY <1>1, <1>2
  <2>3. CASE i \in 1..Len(q)
    BY <1>3, <2>2, <2>3 DEF Apart
  <2>4. CASE i = Len(q) + 1
    BY <1>1, <1>3, <2>1, <2>2, <2>4 DEF Once
  <2> QED
    BY <1>3, <2>3, <2>4
<1>8. \A l \in p.lists : Apart(q2, l)
  <2> SUFFICES ASSUME NEW l \in p.lists, NEW i \in 1..Len(q2), NEW j \in 1..Len(l)
               PROVE  q2[i] # l[j]
    BY DEF Apart
  <2>1. CASE i \in 1..Len(q)
    BY <1>3, <2>1 DEF Apart
  <2>2. CASE i = Len(q) + 1
    BY <1>1, <1>3, <2>2 DEF PoolOK, Apart
  <2> QED
    BY <1>3, <2>1, <2>2
<1>9. Covered(p2, Blocks(q2))
  <2> SUFFICES ASSUME NEW b \in Block, ~In(b, q2), \A l \in p.lists : ~In(b, l)
               PROVE  In(b, Tail(f))
    BY <1>2, <1>3, BlocksIn DEF Covered
  <2>1. ~In(b, q) /\ b # f[1]
    BY <1>3 DEF In
  <2>2. In(b, f)
    BY <2>1, BlocksIn DEF Covered
  <2>3. PICK i \in 1..Len(f) : f[i] = b
    BY <2>2 DEF In
  <2>4. i - 1 \in 1..Len(Tail(f)) /\ Tail(f)[i-1] = b
    BY <1>1, <1>2, <2>1, <2>3
  <2> QED
    BY <2>4 DEF In
<1> QED
  BY <1>2, <1>3, <1>4, <1>5, <1>6, <1>7, <1>8, <1>9 DEF p2, q2

\* The list is complete and the client's.
LEMMA KeepPool ==
  ASSUME NEW p \in Pools, NEW q \in Seq(Block), PoolOK(p), q # <<>>,
         Once(q), Apart(q, p.free), \A l \in p.lists : Apart(q, l), Covered(p, Blocks(q))
  PROVE  Kept(p, q) \in Pools /\ PoolOK(Kept(p, q)) /\ Covered(Kept(p, q), {})
<1> DEFINE p2 == Kept(p, q)
<1>1. p2.free = p.free /\ p2.lists = p.lists \cup {q}
  BY DEF Kept
<1>2. p2 \in Pools
  BY DEF Pools, Kept
<1> HIDE DEF p2
<1>3. \A l \in p.lists : Apart(l, q)
  BY DEF Apart
<1>4. PoolOK(p2)
  BY <1>1, <1>3 DEF PoolOK
<1>5. Covered(p2, {})
  BY <1>1, BlocksIn DEF Covered
<1> QED
  BY <1>2, <1>4, <1>5 DEF p2

\* A list leaves the client, and no block of it is elsewhere.
LEMMA DropPool ==
  ASSUME NEW p \in Pools, NEW l \in p.lists, PoolOK(p), Covered(p, {})
  PROVE  /\ Dropped(p, l) \in Pools /\ PoolOK(Dropped(p, l))
         /\ Covered(Dropped(p, l), {l[i] : i \in 1..Len(l)})
         /\ \A i \in 1..Len(l) : /\ ~In(l[i], Dropped(p, l).free)
                               /\ \A m \in Dropped(p, l).lists : ~In(l[i], m)
<1> DEFINE p2 == Dropped(p, l)
<1>1. p2.free = p.free /\ p2.lists = p.lists \ {l}
  BY DEF Dropped
<1>2. p2 \in Pools
  BY DEF Pools, Dropped
<1> HIDE DEF p2
<1>3. PoolOK(p2)
  BY <1>1 DEF PoolOK
<1>4. Covered(p2, {l[i] : i \in 1..Len(l)})
  BY <1>1 DEF Covered, In
<1>5. \A i \in 1..Len(l) : ~In(l[i], p2.free) /\ \A m \in p2.lists : ~In(l[i], m)
  BY <1>1 DEF PoolOK, Apart, In
<1> QED
  BY <1>2, <1>3, <1>4, <1>5 DEF p2

\* The next block of a list goes to the head of the free list.
LEMMA ReturnPool ==
  ASSUME NEW p \in Pools, PoolOK(p), NEW l \in Seq(Block), Once(l), NEW k \in 1..Len(l),
         \A i \in k..Len(l) : ~In(l[i], p.free) /\ \A m \in p.lists : ~In(l[i], m),
         Covered(p, {l[i] : i \in k..Len(l)})
  PROVE  /\ Returned(p, l[k]) \in Pools /\ PoolOK(Returned(p, l[k]))
         /\ \A i \in k+1..Len(l) : /\ ~In(l[i], Returned(p, l[k]).free)
                                 /\ \A m \in Returned(p, l[k]).lists : ~In(l[i], m)
         /\ Covered(Returned(p, l[k]), {l[i] : i \in k+1..Len(l)})
<1> DEFINE f == p.free
           p2 == Returned(p, l[k])
           g == <<l[k]>> \o f
<1>1. /\ l[k] \in Block /\ f \in Seq(Block) /\ Len(f) \in Nat /\ Len(l) \in Nat
      /\ p.lists \in SUBSET Seq(Block)
  BY DEF Pools
<1>2. /\ g \in Seq(Block) /\ Len(g) = Len(f) + 1 /\ g[1] = l[k]
      /\ \A i \in 2..Len(g) : i-1 \in 1..Len(f) /\ g[i] = f[i-1]
      /\ \A i \in 1..Len(f) : i+1 \in 1..Len(g) /\ g[i+1] = f[i]
  <2>1. f \in Seq(Block)
    BY DEF Pools
  <2> HIDE DEF f
  <2>2. g \in Seq(Block) /\ Len(g) = Len(f) + 1 /\ g[1] = l[k]
    BY <1>1, <2>1
  <2>3. \A i \in 2..Len(g) : i-1 \in 1..Len(f) /\ g[i] = f[i-1]
    BY <1>1, <2>1, <2>2
  <2>4. \A i \in 1..Len(f) : i+1 \in 1..Len(g) /\ g[i+1] = f[i]
    BY <1>1, <2>1, <2>2
  <2> QED
    BY <2>2, <2>3, <2>4
<1>3. p2.free = g /\ p2.lists = p.lists
  BY DEF Returned
<1>4. p2 \in Pools
  BY <1>1, <1>2 DEF Pools, Returned
<1> HIDE DEF p2
<1>5. \A b : In(b, g) <=> b = l[k] \/ In(b, f)
  <2> HIDE DEF f, g
  <2>1. \A i \in 1..Len(g) : i = 1 \/ i \in 2..Len(g)
    BY <1>1, <1>2
  <2>2. ASSUME NEW b, In(b, g) PROVE b = l[k] \/ In(b, f)
    <3>1. PICK i \in 1..Len(g) : g[i] = b
      BY <2>2 DEF In
    <3>2. CASE i = 1
      BY <1>2, <3>1, <3>2
    <3>3. CASE i \in 2..Len(g)
      <4>1. i-1 \in 1..Len(f) /\ f[i-1] = b
        BY <1>2, <3>1, <3>3
      <4> QED
        BY <4>1 DEF In
    <3> QED
      BY <2>1, <3>2, <3>3
  <2>3. ASSUME NEW b, In(b, f) PROVE In(b, g)
    BY <1>2, <2>3 DEF In
  <2>4. 1 \in 1..Len(g)
    BY <1>1, <1>2
  <2>5. In(l[k], g)
    BY <1>2, <2>4 DEF In
  <2> QED
    BY <2>2, <2>3, <2>5
<1>6. ~In(l[k], f) /\ \A m \in p.lists : ~In(l[k], m)
  BY <1>1
<1>7. PoolOK(p2)
  <2>1. Once(g)
    <3>1. Once(f)
      BY DEF PoolOK
    <3> SUFFICES ASSUME NEW i \in 1..Len(g), NEW j \in 1..Len(g), g[i] = g[j] PROVE i = j
      BY DEF Once
    <3>2. CASE i = 1 /\ j = 1
      BY <3>2
    <3>3. CASE i \in 2..Len(g) /\ j \in 2..Len(g)
      <4>1. f[i-1] = f[j-1] /\ i-1 \in 1..Len(f) /\ j-1 \in 1..Len(f)
        BY <1>2, <3>3
      <4>2. i-1 = j-1
        BY <3>1, <4>1 DEF Once
      <4>3. \A x, y \in Nat : x-1 = y-1 => x = y
        OBVIOUS
      <4> QED
        BY <1>1, <1>2, <4>2, <4>3
    <3>4. CASE i \in 2..Len(g) /\ j = 1
      BY <1>2, <1>6, <3>4 DEF In
    <3>5. CASE i = 1 /\ j \in 2..Len(g)
      BY <1>2, <1>6, <3>5 DEF In
    <3> QED
      BY <1>1, <1>2, <3>2, <3>3, <3>4, <3>5
  <2>2. \A m \in p.lists : Apart(m, g)
    <3> SUFFICES ASSUME NEW m \in p.lists, NEW i \in 1..Len(m) PROVE ~In(m[i], g)
      BY DEF Apart, In
    <3>1. ~In(m[i], f)
      BY DEF PoolOK, Apart, In
    <3>2. m[i] # l[k]
      BY <1>6 DEF In
    <3> QED
      BY <1>5, <3>1, <3>2
  <2> QED
    BY <1>3, <2>1, <2>2 DEF PoolOK
<1>8. \A i \in k+1..Len(l) : ~In(l[i], g) /\ \A m \in p.lists : ~In(l[i], m)
  <2> SUFFICES ASSUME NEW i \in k+1..Len(l)
               PROVE  ~In(l[i], g) /\ \A m \in p.lists : ~In(l[i], m)
    OBVIOUS
  <2>1. i \in k..Len(l) /\ i \in 1..Len(l) /\ i # k
    BY <1>1
  <2>2. l[i] # l[k]
    BY <2>1 DEF Once
  <2> QED
    BY <1>5, <2>1, <2>2
<1>9. Covered(p2, {l[i] : i \in k+1..Len(l)})
  <2> SUFFICES ASSUME NEW b \in Block, b \notin {l[i] : i \in k+1..Len(l)},
                      \A m \in p.lists : ~In(b, m)
               PROVE  In(b, g)
    BY <1>3 DEF Covered
  <2>1. CASE b \in {l[i] : i \in k..Len(l)}
    <3>1. PICK i \in k..Len(l) : b = l[i]
      BY <2>1
    <3>2. i = k
      BY <1>1, <3>1
    <3> QED
      BY <1>5, <3>1, <3>2
  <2>2. CASE b \notin {l[i] : i \in k..Len(l)}
    BY <1>5, <2>2 DEF Covered
  <2> QED
    BY <2>1, <2>2
<1> QED
  BY <1>3, <1>4, <1>7, <1>8, <1>9 DEF p2

-----------------------------------------------------------------------------
(* The invariant.                                                          *)

\* The allocator begins with all blocks in its free list, none initialised.
LEMMA BlissInit == Init => BlissInv
<1> SUFFICES ASSUME Init PROVE BlissInv
  OBVIOUS
<1> USE BlocksAssumption, MaxListAssumption
<1> DEFINE s == [i \in 1..NBlocks |-> i - 1]
           d == DefaultAllocator
<1>1. /\ alloc = d /\ nvm = [i \in 0..1 |-> d] /\ clock = 1 /\ pc = "idle"
      /\ list = <<>> /\ left = 0 /\ free_idx = Nil
      /\ pool = [free |-> s, lists |-> {}] /\ committed = pool
  BY DEF Init
<1>2. /\ s \in Seq(Block) /\ Len(s) = NBlocks /\ s # <<>>
      /\ \A i \in 1..NBlocks : s[i] = i - 1
  <2>1. s \in [1..NBlocks -> Block]
    BY DEF Block
  <2>2. s \in Seq(Block) /\ Len(s) = NBlocks
    BY <2>1
  <2> QED
    BY <2>2, EmptyIffNoLength
<1>3. d = [next_free_block |-> 0, n_free_blocks |-> NBlocks, n_initialized_blocks |-> 0]
  BY DEF DefaultAllocator
<1>4. d \in Allocator
  BY <1>3 DEF Allocator, Index
<1>5. Types
  <2>1. next_free \in Links /\ next_block \in [Block -> Index]
    BY DEF Init, Links, Index, Nil
  <2>2. pool \in Pools
    BY <1>1, <1>2 DEF Pools
  <2>3. left \in 0..MaxList /\ free_idx \in Index /\ clock \in 0..1
    BY <1>1 DEF Index, Nil
  <2>4. list \in Seq(Block) /\ nvm \in [0..1 -> Allocator]
    BY <1>1, <1>4
  <2> HIDE DEF d, s
  <2> QED
    BY <1>1, <1>4, <2>1, <2>2, <2>3, <2>4 DEF Types, Links
<1>6. ListOf(d, next_free, s)
  <2>1. d.n_free_blocks = NBlocks /\ d.next_free_block = 0 /\ d.n_initialized_blocks = 0
    BY <1>3
  <2>2. /\ \A i \in 1..Len(s)-1 : s[i] + 1 = s[i+1] /\ ~(s[i] < 0)
        /\ s[1] = 0
    <3>1. \A i \in 1..Len(s)-1 : s[i] = i - 1 /\ s[i+1] = (i + 1) - 1
      BY <1>2
    <3>2. s[1] = 1 - 1
      BY <1>2
    <3> HIDE DEF s
    <3> QED
      BY <1>2, <3>1, <3>2
  <2> HIDE DEF d, s
  <2> QED
    BY <1>2, <2>1, <2>2 DEF ListOf, FollowIn
<1>7. Fresh(d, s)
  BY <1>2, <1>3 DEF Fresh
<1>8. PoolOK(pool) /\ Covered(pool, {})
  <2>1. Once(s)
    BY <1>2 DEF Once
  <2>2. \A b \in Block : b + 1 \in 1..Len(s) /\ s[b+1] = b
    BY <1>2 DEF Block
  <2>3. \A b \in Block : In(b, s)
    BY <2>2 DEF In
  <2>4. pool.free = s /\ pool.lists = {}
    BY <1>1
  <2> HIDE DEF s
  <2> QED
    BY <2>1, <2>3, <2>4 DEF PoolOK, Covered
<1>9. nvm[Inactive] = d
  BY <1>1 DEF Inactive
<1>10. pool.free = s /\ pool.lists = {} /\ committed.free = s /\ committed.lists = {}
  BY <1>1
<1> HIDE DEF s, d
<1>11. CommittedInv
  BY <1>1, <1>6, <1>7, <1>8, <1>9, <1>10 DEF CommittedInv
<1>12. RunningInv
  BY <1>1, <1>4, <1>6, <1>7, <1>8, <1>9, <1>10 DEF RunningInv, Allocator
<1>13. PcInv
  BY <1>1, <1>8 DEF PcInv
<1> QED
  BY <1>5, <1>11, <1>12, <1>13 DEF BlissInv

\* One round of the loop in bliss_alloc (bliss_allocator.c:165-181).
LEMMA TakeBlockInv == BlissInv /\ TakeBlock => BlissInv'
<1> SUFFICES ASSUME BlissInv, TakeBlock PROVE BlissInv'
  OBVIOUS
<1> DEFINE f == pool.free
<1>1. Types /\ CommittedInv /\ RunningInv /\ Allocating
  BY DEF BlissInv, PcInv, TakeBlock
<1>2. /\ alloc' = Pop(alloc, next_free) /\ next_free' = InitNext(alloc, next_free)
      /\ next_block' = IF list = <<>> THEN next_block
                       ELSE [next_block EXCEPT ![list[Len(list)]] = alloc.next_free_block]
      /\ list' = Append(list, alloc.next_free_block)
      /\ left > 0 /\ left' = left - 1 /\ pc = "alloc"
      /\ pool' = [free |-> Tail(f), lists |-> pool.lists]
      /\ nvm' = nvm /\ clock' = clock /\ pc' = pc /\ free_idx' = free_idx
      /\ committed' = committed
  BY DEF TakeBlock
<1>3. /\ alloc \in Allocator /\ next_free \in Links /\ pool \in Pools
      /\ f \in Seq(Block) /\ Len(f) \in Nat /\ left \in 0..MaxList /\ list \in Seq(Block)
      /\ next_block \in [Block -> Index] /\ nvm[Inactive] \in Allocator
      /\ committed \in Pools /\ committed.free \in Seq(Block)
      /\ pool.lists \in SUBSET Seq(Block) /\ Len(list) \in Nat
      /\ MaxList \in Nat
  BY <1>1, BlocksAssumption, MaxListAssumption DEF Types, Links, Pools, Inactive
<1>4. f # <<>>
  BY <1>1, <1>2, <1>3, EmptyIffNoLength DEF Allocating
<1>5. /\ next_free' \in Links /\ alloc' \in Allocator /\ alloc.next_free_block = f[1]
      /\ ListOf(alloc', next_free', Tail(f)) /\ Fresh(alloc', Tail(f))
      /\ alloc.n_initialized_blocks <= alloc'.n_initialized_blocks
  BY <1>1, <1>2, <1>3, <1>4, TakeKeeps DEF RunningInv, PoolOK
<1>6. ListOf(nvm[Inactive], next_free', committed.free)
  BY <1>1, <1>2, <1>3, TakeKeepsOther DEF RunningInv, CommittedInv
<1>7. list' = Append(list, f[1])
  BY <1>2, <1>5
<1>8. /\ pool' \in Pools /\ PoolOK(pool') /\ Len(pool'.free) = Len(f) - 1
      /\ list' \in Seq(Block) /\ Len(list') = Len(list) + 1 /\ list'[Len(list')] = f[1]
      /\ \A i \in 1..Len(list) : list'[i] = list[i]
      /\ Once(list') /\ Apart(list', pool'.free) /\ \A l \in pool'.lists : Apart(list', l)
      /\ Covered(pool', Blocks(list'))
  <2>1. /\ PoolOK(pool) /\ Once(list) /\ Apart(list, f)
        /\ \A l \in pool.lists : Apart(list, l)
        /\ Covered(pool, Blocks(list))
    BY <1>1 DEF RunningInv, Allocating
  <2>2. pool' = Taken(pool)
    BY <1>2 DEF Taken
  <2>3. pool \in Pools /\ list \in Seq(Block) /\ pool.free # <<>>
    BY <1>3, <1>4
  <2>4. list' = Longer(pool, list)
    BY <1>7 DEF Longer
  <2>5. /\ Taken(pool) \in Pools /\ PoolOK(Taken(pool)) /\ Len(Taken(pool).free) = Len(f) - 1
        /\ Longer(pool, list) \in Seq(Block) /\ Len(Longer(pool, list)) = Len(list) + 1
        /\ Longer(pool, list)[Len(list) + 1] = f[1]
        /\ \A i \in 1..Len(list) : Longer(pool, list)[i] = list[i]
        /\ Once(Longer(pool, list)) /\ Apart(Longer(pool, list), Taken(pool).free)
        /\ \A l \in Taken(pool).lists : Apart(Longer(pool, list), l)
        /\ Covered(Taken(pool), Blocks(Longer(pool, list)))
    BY <2>1, <2>3, TakePool, Zenon
  <2> QED
    BY <2>2, <2>4, <2>5, Zenon
<1>9. f[1] \in Block /\ f[1] \in Index
  BY <1>3, <1>4, EmptyIffNoLength, BlocksAssumption DEF Block, Index
<1>10. next_block' \in [Block -> Index]
  <2>1. CASE list = <<>>
    BY <1>2, <1>3, <2>1
  <2>2. CASE list # <<>>
    BY <1>2, <1>3, <1>5, <1>9, <2>2
  <2> QED
    BY <2>1, <2>2
<1>11. \A b \in Block : (\A i \in 1..Len(list) : b # list[i]) => next_block'[b] = next_block[b]
  <2>1. CASE list = <<>>
    BY <1>2, <2>1
  <2>2. CASE list # <<>>
    <3>1. Len(list) \in 1..Len(list) /\ list[Len(list)] \in Block
      BY <1>3, <2>2, EmptyIffNoLength
    <3> QED
      BY <1>2, <1>3, <2>2, <3>1
  <2> QED
    BY <2>1, <2>2
<1>12. \A l \in pool.lists : LinkedIn(next_block', l)
  <2> SUFFICES ASSUME NEW l \in pool.lists PROVE LinkedIn(next_block', l)
    OBVIOUS
  <2>1. LinkedIn(next_block, l) /\ l \in Seq(Block) /\ Len(l) \in Nat /\ l # <<>>
    BY <1>1, <1>3 DEF RunningInv, PoolOK
  <2>2. Len(l) \in 1..Len(l)
    BY <2>1, EmptyIffNoLength
  <2>3. \A i \in 1..Len(l) : next_block'[l[i]] = next_block[l[i]]
    BY <1>1, <1>11, <2>1 DEF Allocating, Apart
  <2> QED
    BY <2>1, <2>2, <2>3 DEF LinkedIn
<1>13. \A i \in 1..Len(list')-1 : next_block'[list'[i]] = list'[i+1]
  <2> SUFFICES ASSUME NEW i \in 1..Len(list) PROVE next_block'[list'[i]] = list'[i+1]
    BY <1>3, <1>8
  <2>1. list # <<>> /\ list[i] \in Block /\ list'[i] = list[i] /\ list[Len(list)] \in Block
    BY <1>3, <1>8, EmptyIffNoLength
  <2>2. next_block' = [next_block EXCEPT ![list[Len(list)]] = f[1]]
    BY <1>2, <1>5, <2>1
  <2>3. CASE i = Len(list)
    BY <1>3, <1>8, <2>1, <2>2, <2>3
  <2>4. CASE i # Len(list)
    <3>1. i \in 1..Len(list)-1 /\ i+1 \in 1..Len(list) /\ Len(list) \in 1..Len(list)
      BY <1>3, <2>4
    <3>2. list[i] # list[Len(list)]
      BY <1>1, <2>4, <3>1 DEF Allocating, Once
    <3>3. next_block[list[i]] = list[i+1] /\ list'[i+1] = list[i+1]
      BY <1>1, <1>8, <3>1 DEF Allocating
    <3> QED
      BY <1>3, <2>1, <2>2, <3>2, <3>3
  <2> QED
    BY <2>3, <2>4
<1>14. Types'
  <2>1. left' \in 0..MaxList
    BY <1>2, <1>3
  <2> QED
    BY <1>1, <1>2, <1>5, <1>8, <1>10, <2>1 DEF Types, Links
<1>15. Inactive' = Inactive /\ pool'.lists = pool.lists /\ pool'.free = Tail(f)
  BY <1>2 DEF Inactive
<1>16. CommittedInv'
  <2>1. \A l \in committed.lists : LinkedIn(next_block', l)
    BY <1>1, <1>12 DEF Allocating, AllocPhase
  <2> QED
    BY <1>1, <1>2, <1>6, <1>15, <2>1 DEF CommittedInv
<1>17. RunningInv'
  <2>1. nvm[Inactive].n_initialized_blocks <= alloc'.n_initialized_blocks
    BY <1>1, <1>3, <1>5, BlocksAssumption DEF RunningInv, Allocator
  <2> QED
    BY <1>2, <1>5, <1>8, <1>12, <1>15, <2>1 DEF RunningInv
<1>18. Allocating'
  <2>1. AllocPhase'
    BY <1>1, <1>2, <1>15 DEF Allocating, AllocPhase
  <2>2. left' <= Len(pool'.free)
    BY <1>1, <1>2, <1>3, <1>8 DEF Allocating
  <2>3. list' # <<>>
    BY <1>3, <1>8, EmptyIffNoLength
  <2> QED
    BY <1>8, <1>13, <2>1, <2>2, <2>3 DEF Allocating
<1>19. PcInv'
  BY <1>2, <1>18 DEF PcInv
<1> QED
  BY <1>2, <1>14, <1>16, <1>17, <1>19 DEF BlissInv

\* Steps that touch neither the NVM nor the committed pool keep the first part
\* of the invariant, those that touch nothing of the running allocator the second.
LEMMA CommittedKept ==
  CommittedInv /\ UNCHANGED <<nvm, links, clock, committed>> => CommittedInv'
  BY DEF CommittedInv, Inactive, links

\* The running allocator's part, when only the committed copy changes.
LEMMA RunningKept ==
  RunningInv /\ UNCHANGED <<alloc, nvm, links, clock, pool>> => RunningInv'
  BY DEF RunningInv, Inactive, links

\* bliss_alloc after its check of the number of free blocks (bliss_allocator.c:158-163).
LEMMA BeginAllocInv ==
  ASSUME BlissInv, NEW n \in 1..MaxList, BeginAlloc(n)
  PROVE  BlissInv'
<1>1. /\ Types /\ CommittedInv /\ RunningInv /\ Covered(pool, {})
      /\ pc' = "alloc" /\ list' = <<>> /\ left' = n /\ n <= alloc.n_free_blocks /\ AllocPhase
      /\ UNCHANGED <<alloc, nvm, links, clock, free_idx, pool, committed>>
  BY DEF BlissInv, PcInv, BeginAlloc
<1>2. Types'
  <2>1. <<>> \in Seq(Block)
    OBVIOUS
  <2>2. left' \in 0..MaxList
    BY <1>1, BlocksAssumption, MaxListAssumption
  <2> QED
    BY <1>1, <2>1, <2>2 DEF Types, links
<1>3. CommittedInv' /\ RunningInv'
  BY <1>1, CommittedKept, RunningKept
<1>4. Allocating'
  <2>1. Blocks(<<>>) = {} /\ Len(<<>>) = 0
    BY DEF Blocks
  <2>2. left' <= Len(pool'.free) /\ left' # 0
    BY <1>1, MaxListAssumption, BlocksAssumption DEF RunningInv, ListOf
  <2>3. Covered(pool', Blocks(list'))
    BY <1>1, <2>1
  <2>4. /\ Once(list') /\ Apart(list', pool'.free) /\ \A l \in pool'.lists : Apart(list', l)
        /\ \A i \in 1..Len(list')-1 : next_block'[list'[i]] = list'[i+1]
    BY <1>1, <2>1 DEF Once, Apart
  <2> QED
    BY <1>1, <2>2, <2>3, <2>4 DEF Allocating, AllocPhase
<1> QED
  BY <1>1, <1>2, <1>3, <1>4 DEF BlissInv, PcInv

\* The end of the list is marked and the list handed to the client
\* (bliss_allocator.c:183-185).
LEMMA EndAllocInv == BlissInv /\ EndAlloc => BlissInv'
<1> SUFFICES ASSUME BlissInv, EndAlloc PROVE BlissInv'
  OBVIOUS
<1>1. /\ Types /\ CommittedInv /\ RunningInv /\ Allocating
      /\ pc = "alloc" /\ left = 0 /\ pc' = "idle" /\ list' = <<>>
      /\ next_block' = [next_block EXCEPT ![list[Len(list)]] = Nil]
      /\ pool' = Kept(pool, list)
      /\ UNCHANGED <<alloc, nvm, next_free, clock, left, free_idx, committed>>
  BY DEF BlissInv, PcInv, EndAlloc, Kept
<1>2. /\ pool \in Pools /\ list \in Seq(Block) /\ list # <<>> /\ Len(list) \in Nat
      /\ Len(list) \in 1..Len(list) /\ list[Len(list)] \in Block
      /\ next_block \in [Block -> Index] /\ Nil \in Index
      /\ pool.lists \in SUBSET Seq(Block)
  <2>1. /\ pool \in Pools /\ list \in Seq(Block) /\ list # <<>> /\ Len(list) # 0
        /\ next_block \in [Block -> Index]
    BY <1>1, EmptyIffNoLength DEF Types, Allocating
  <2> QED
    BY <2>1, BlocksAssumption DEF Pools, Index, Nil
<1>3. pool' \in Pools /\ PoolOK(pool') /\ Covered(pool', {})
  <2>1. /\ PoolOK(pool) /\ Once(list) /\ Apart(list, pool.free)
        /\ \A l \in pool.lists : Apart(list, l)
        /\ Covered(pool, Blocks(list))
    BY <1>1 DEF RunningInv, Allocating
  <2>2. Kept(pool, list) \in Pools /\ PoolOK(Kept(pool, list)) /\ Covered(Kept(pool, list), {})
    BY <1>2, <2>1, KeepPool, Zenon
  <2> QED
    BY <1>1, <2>2, Zenon
<1>4. /\ next_block'[list[Len(list)]] = Nil
      /\ \A b \in Block : b # list[Len(list)] => next_block'[b] = next_block[b]
  BY <1>1, <1>2
<1>5. \A l \in pool.lists : LinkedIn(next_block', l)
  <2> SUFFICES ASSUME NEW l \in pool.lists PROVE LinkedIn(next_block', l)
    OBVIOUS
  <2>1. LinkedIn(next_block, l) /\ l \in Seq(Block) /\ l # <<>> /\ Apart(list, l)
    BY <1>1, <1>2 DEF RunningInv, PoolOK, Allocating
  <2>2. Len(l) \in 1..Len(l)
    BY <2>1, EmptyIffNoLength
  <2>3. \A i \in 1..Len(l) : next_block'[l[i]] = next_block[l[i]]
    BY <1>2, <1>4, <2>1 DEF Apart
  <2> QED
    BY <2>1, <2>2, <2>3 DEF LinkedIn
<1>6. LinkedIn(next_block', list)
  <2> SUFFICES ASSUME NEW i \in 1..Len(list)-1 PROVE next_block'[list[i]] = list[i+1]
    BY <1>4 DEF LinkedIn
  <2>1. i \in 1..Len(list) /\ i # Len(list) /\ list[i] \in Block
    BY <1>2
  <2>2. list[i] # list[Len(list)]
    BY <1>1, <1>2, <2>1 DEF Allocating, Once
  <2> QED
    BY <1>1, <1>4, <2>1, <2>2 DEF Allocating
<1>7. pool'.free = pool.free /\ pool'.lists = pool.lists \cup {list} /\ Inactive' = Inactive
  BY <1>1 DEF Kept, Inactive
<1>8. next_block' \in [Block -> Index]
  BY <1>1, <1>2
<1>9. Types'
  <2>1. <<>> \in Seq(Block)
    OBVIOUS
  <2> QED
    BY <1>1, <1>3, <1>8, <2>1 DEF Types
<1>10. CommittedInv'
  <2>1. \A l \in committed.lists : LinkedIn(next_block', l)
    BY <1>1, <1>5 DEF Allocating, AllocPhase
  <2> QED
    BY <1>1, <1>7, <2>1 DEF CommittedInv
<1>11. RunningInv'
  <2>1. \A l \in pool'.lists : LinkedIn(next_block', l)
    BY <1>5, <1>6, <1>7
  <2> QED
    BY <1>1, <1>3, <1>7, <2>1 DEF RunningInv
<1> QED
  BY <1>1, <1>3, <1>9, <1>10, <1>11 DEF BlissInv, PcInv

\* bliss_free is called with the head of a list (bliss_allocator.c:192-197).
LEMMA BeginFreeInv ==
  ASSUME BlissInv, NEW l \in pool.lists, BeginFree(l)
  PROVE  BlissInv'
<1>1. /\ Types /\ CommittedInv /\ RunningInv /\ Covered(pool, {}) /\ list = <<>>
      /\ l \in committed.lists /\ pc' = "free" /\ free_idx' = l[1]
      /\ pool' = Dropped(pool, l)
      /\ UNCHANGED <<alloc, nvm, links, clock, list, left, committed>>
  BY DEF BlissInv, PcInv, BeginFree, Dropped
<1>2. pool \in Pools /\ PoolOK(pool) /\ l \in Seq(Block) /\ l # <<>>
  BY <1>1 DEF Types, Pools, RunningInv, PoolOK
<1>3. Len(l) \in Nat /\ 1 <= Len(l) /\ l[1] \in Block
  <2>1. Len(l) \in Nat /\ Len(l) # 0
    BY <1>2, EmptyIffNoLength
  <2> QED
    BY <1>2, <2>1
<1>4. /\ pool' \in Pools /\ PoolOK(pool') /\ Covered(pool', {l[i] : i \in 1..Len(l)})
      /\ \A i \in 1..Len(l) : ~In(l[i], pool'.free) /\ \A m \in pool'.lists : ~In(l[i], m)
  <2>1. /\ Dropped(pool, l) \in Pools /\ PoolOK(Dropped(pool, l))
        /\ Covered(Dropped(pool, l), {l[i] : i \in 1..Len(l)})
        /\ \A i \in 1..Len(l) : /\ ~In(l[i], Dropped(pool, l).free)
                                /\ \A m \in Dropped(pool, l).lists : ~In(l[i], m)
    BY <1>1, <1>2, DropPool, Zenon
  <2> QED
    BY <1>1, <2>1, Zenon
<1>5. Types'
  BY <1>1, <1>3, <1>4, BlocksAssumption DEF Types, links, Index, Block
<1>6. CommittedInv'
  BY <1>1, CommittedKept
<1>7. RunningInv'
  <2>1. pool'.free = pool.free /\ pool'.lists = pool.lists \ {l} /\ Inactive' = Inactive
    BY <1>1 DEF Dropped, Inactive
  <2> QED
    BY <1>1, <1>4, <2>1 DEF RunningInv, links
<1>8. Freeing'
  <2>1. 1 \in 1..Len(l)+1 /\ free_idx' = IF 1 <= Len(l) THEN l[1] ELSE Nil
    BY <1>1, <1>3
  <2>2. l \in committed'.lists
    BY <1>1
  <2> QED
    BY <1>4, <2>1, <2>2 DEF Freeing, FreeingAt
<1> QED
  BY <1>1, <1>5, <1>6, <1>7, <1>8 DEF BlissInv, PcInv

\* One block of a list goes back to the free list, and its link leads to the next
\* (bliss_allocator.c:199-203).
LEMMA FreeBlockInv == BlissInv /\ FreeBlock => BlissInv'
<1> SUFFICES ASSUME BlissInv, FreeBlock PROVE BlissInv'
  OBVIOUS
<1>1. /\ Types /\ CommittedInv /\ RunningInv /\ Freeing /\ list = <<>>
      /\ pc = "free" /\ pc' = "free" /\ free_idx # Nil
      /\ alloc' = Push(alloc, free_idx) /\ next_free' = FreeNext(alloc, next_free, free_idx)
      /\ free_idx' = next_block[free_idx]
      /\ pool' = Returned(pool, free_idx)
      /\ UNCHANGED <<nvm, next_block, clock, list, left, committed>>
  BY DEF BlissInv, PcInv, FreeBlock, Returned
<1>2. PICK l \in committed.lists : \E k \in 1..Len(l)+1 : FreeingAt(l, k)
  BY <1>1 DEF Freeing
<1>3. PICK k \in 1..Len(l)+1 : FreeingAt(l, k)
  BY <1>2
<1>4. /\ l \in Seq(Block) /\ Len(l) \in Nat /\ Once(l) /\ Apart(l, committed.free)
      /\ LinkedIn(next_block, l)
  BY <1>1 DEF Types, Pools, CommittedInv, PoolOK
<1>5. k \in 1..Len(l) /\ free_idx = l[k] /\ free_idx \in Block
  <2>1. k <= Len(l) /\ free_idx = l[k]
    BY <1>1, <1>3 DEF FreeingAt
  <2> QED
    BY <1>3, <1>4, <2>1
<1>6. /\ alloc \in Allocator /\ next_free \in Links /\ pool \in Pools
      /\ pool.free \in Seq(Block) /\ committed.free \in Seq(Block)
      /\ nvm[Inactive] \in Allocator /\ PoolOK(pool) /\ Once(pool.free)
      /\ next_block \in [Block -> Index]
  <2>1. /\ alloc \in Allocator /\ next_free \in Links /\ pool \in Pools
        /\ next_block \in [Block -> Index]
    BY <1>1 DEF Types, Links
  <2>2. nvm[Inactive] \in Allocator
    BY <1>1 DEF Types, Inactive
  <2>3. pool.free \in Seq(Block) /\ committed.free \in Seq(Block)
    BY <1>1 DEF Types, Pools
  <2>4. PoolOK(pool)
    BY <1>1 DEF RunningInv
  <2>5. Once(pool.free)
    BY <2>4 DEF PoolOK
  <2> QED
    BY <2>1, <2>2, <2>3, <2>4, <2>5
<1>7. /\ \A i \in k..Len(l) : ~In(l[i], pool.free) /\ \A m \in pool.lists : ~In(l[i], m)
      /\ Covered(pool, {l[i] : i \in k..Len(l)})
  BY <1>3 DEF FreeingAt
<1>8. ~In(free_idx, pool.free) /\ ~In(free_idx, committed.free)
  <2>1. k \in k..Len(l)
    BY <1>4, <1>5
  <2> QED
    BY <1>4, <1>5, <1>7, <2>1 DEF Apart, In
<1>9. /\ next_free' \in Links /\ alloc' \in Allocator
      /\ ListOf(alloc', next_free', <<free_idx>> \o pool.free)
      /\ Fresh(alloc', <<free_idx>> \o pool.free)
  BY <1>1, <1>5, <1>6, <1>8, FreeKeeps DEF RunningInv
<1>10. ListOf(nvm[Inactive], next_free', committed.free)
  <2>1. ListOf(nvm[Inactive], next_free, committed.free)
    BY <1>1 DEF CommittedInv
  <2> QED
    BY <1>1, <1>5, <1>6, <1>8, <2>1, FreeKeepsOther
<1>11. /\ pool' \in Pools /\ PoolOK(pool')
       /\ \A i \in k+1..Len(l) : ~In(l[i], pool'.free) /\ \A m \in pool'.lists : ~In(l[i], m)
       /\ Covered(pool', {l[i] : i \in k+1..Len(l)})
  <2>1. /\ Returned(pool, l[k]) \in Pools /\ PoolOK(Returned(pool, l[k]))
        /\ \A i \in k+1..Len(l) : /\ ~In(l[i], Returned(pool, l[k]).free)
                                  /\ \A m \in Returned(pool, l[k]).lists : ~In(l[i], m)
        /\ Covered(Returned(pool, l[k]), {l[i] : i \in k+1..Len(l)})
    BY <1>4, <1>5, <1>6, <1>7, ReturnPool, Zenon
  <2> QED
    BY <1>1, <1>5, <2>1, Zenon
<1>12. /\ pool'.free = <<free_idx>> \o pool.free /\ pool'.lists = pool.lists
       /\ Inactive' = Inactive
  BY <1>1 DEF Returned, Inactive
<1>13. Types'
  <2>1. free_idx' \in Index
    BY <1>1, <1>5, <1>6
  <2> QED
    BY <1>1, <1>9, <1>11, <2>1 DEF Types, Links
<1>14. CommittedInv'
  BY <1>1, <1>10, <1>12 DEF CommittedInv
<1>15. RunningInv'
  <2>1. alloc'.n_initialized_blocks = alloc.n_initialized_blocks
    BY <1>1 DEF Push
  <2> QED
    BY <1>1, <1>9, <1>11, <1>12, <2>1 DEF RunningInv
<1>16. Freeing'
  <2>1. free_idx' = IF k+1 <= Len(l) THEN l[k+1] ELSE Nil
    <3>1. CASE k = Len(l)
      BY <1>1, <1>4, <1>5, <3>1 DEF LinkedIn
    <3>2. CASE k # Len(l)
      <4>1. k \in 1..Len(l)-1
        BY <1>4, <1>5, <3>2
      <4> QED
        BY <1>1, <1>4, <1>5, <4>1 DEF LinkedIn
    <3> QED
      BY <3>1, <3>2
  <2>2. k+1 \in 1..Len(l)+1 /\ l \in committed'.lists
    BY <1>1, <1>4, <1>5
  <2> QED
    BY <1>11, <2>1, <2>2 DEF Freeing, FreeingAt
<1> QED
  BY <1>1, <1>13, <1>14, <1>15, <1>16 DEF BlissInv, PcInv

\* The loop of bliss_free ends at the block without a next one, and nothing of
\* the list is left (bliss_allocator.c:199).
LEMMA EndFreeInv == BlissInv /\ EndFree => BlissInv'
<1> SUFFICES ASSUME BlissInv, EndFree PROVE BlissInv'
  OBVIOUS
<1>1. /\ Types /\ CommittedInv /\ RunningInv /\ Freeing /\ list = <<>>
      /\ pc = "free" /\ pc' = "idle" /\ free_idx = Nil
      /\ UNCHANGED <<alloc, nvm, links, clock, locals, pool, committed>>
  BY DEF BlissInv, PcInv, EndFree
<1>2. PICK l \in committed.lists : \E k \in 1..Len(l)+1 : FreeingAt(l, k)
  BY <1>1 DEF Freeing
<1>3. PICK k \in 1..Len(l)+1 : FreeingAt(l, k)
  BY <1>2
<1>4. l \in Seq(Block) /\ Len(l) \in Nat
  BY <1>1 DEF Types, Pools
<1>5. k > Len(l)
  <2> SUFFICES ASSUME k <= Len(l) PROVE FALSE
    BY <1>3, <1>4
  <2>1. l[k] = Nil
    BY <1>1, <1>3 DEF FreeingAt
  <2>2. l[k] \in Block
    BY <1>3, <1>4
  <2> QED
    BY <2>1, <2>2, BlocksAssumption DEF Block, Nil
<1>6. Covered(pool, {})
  <2>1. {l[i] : i \in k..Len(l)} = {}
    BY <1>3, <1>4, <1>5
  <2> QED
    BY <1>3, <2>1 DEF FreeingAt
<1>7. Types'
  BY <1>1 DEF Types, links, locals
<1> QED
  BY <1>1, <1>6, <1>7, CommittedKept, RunningKept DEF BlissInv, PcInv, locals

\* bliss_checkpoint writes the buffer that no failure restores
\* (bliss_allocator.c:93-98).
LEMMA CheckpointInv == BlissInv /\ Checkpoint => BlissInv'
<1> SUFFICES ASSUME BlissInv, Checkpoint PROVE BlissInv'
  OBVIOUS
<1>1. /\ Types /\ CommittedInv /\ RunningInv /\ Covered(pool, {}) /\ list = <<>>
      /\ pc = "idle" /\ pc' = "saved" /\ nvm' = [nvm EXCEPT ![Active] = alloc]
      /\ UNCHANGED <<alloc, links, clock, locals, pool, committed>>
  BY DEF BlissInv, PcInv, Checkpoint
<1>2. /\ nvm'[Inactive'] = nvm[Inactive] /\ nvm'[Active'] = alloc
      /\ nvm' \in [0..1 -> Allocator]
  BY <1>1 DEF Types, Active, Inactive
<1>3. Types'
  BY <1>1, <1>2 DEF Types, links, locals
<1>4. CommittedInv' /\ RunningInv'
  BY <1>1, <1>2 DEF CommittedInv, RunningInv, links
<1> QED
  BY <1>1, <1>2, <1>3, <1>4 DEF BlissInv, PcInv, locals

\* The client's clock makes the saved buffer the one to restore
\* (mpatch.c:151).
LEMMA CommitInv == BlissInv /\ Commit => BlissInv'
<1> SUFFICES ASSUME BlissInv, Commit PROVE BlissInv'
  OBVIOUS
<1>1. /\ Types /\ RunningInv /\ Covered(pool, {}) /\ list = <<>> /\ nvm[Active] = alloc
      /\ pc = "saved" /\ pc' = "post" /\ clock' = Inactive /\ committed' = pool
      /\ UNCHANGED <<alloc, nvm, links, locals, pool>>
  BY DEF BlissInv, PcInv, Commit
<1>2. clock' \in 0..1 /\ nvm'[Inactive'] = alloc /\ alloc.n_initialized_blocks \in Nat
  BY <1>1, BlocksAssumption DEF Types, Active, Inactive, Allocator
<1>3. Types'
  BY <1>1, <1>2 DEF Types, links, locals
<1>4. CommittedInv'
  BY <1>1, <1>2 DEF CommittedInv, RunningInv, links
<1>5. RunningInv'
  BY <1>1, <1>2 DEF RunningInv, links
<1> QED
  BY <1>1, <1>2, <1>3, <1>4, <1>5 DEF BlissInv, PcInv, locals

\* bliss_restore takes the committed record (bliss_allocator.c:86-91).
LEMMA RestoreInv == BlissInv /\ Restore => BlissInv'
<1> SUFFICES ASSUME BlissInv, Restore PROVE BlissInv'
  OBVIOUS
<1>1. /\ Types /\ CommittedInv /\ Covered(pool, {}) /\ list = <<>> /\ pool = committed
      /\ alloc' = nvm[Inactive] /\ pc' = "idle"
      /\ UNCHANGED <<nvm, links, clock, locals, pool, committed>>
  BY DEF BlissInv, PcInv, Restore
<1>2. alloc' \in Allocator /\ alloc'.n_initialized_blocks \in Nat /\ nvm'[Inactive'] = alloc'
  BY <1>1, BlocksAssumption DEF Types, Inactive, Allocator
<1>3. Types'
  BY <1>1, <1>2 DEF Types, links, locals
<1>4. RunningInv'
  BY <1>1, <1>2 DEF CommittedInv, RunningInv, links
<1> QED
  BY <1>1, <1>3, <1>4, CommittedKept DEF BlissInv, PcInv, locals

\* A power failure at any point loses what is volatile.
LEMMA PowerFailInv == BlissInv /\ PowerFail => BlissInv'
<1> SUFFICES ASSUME BlissInv, PowerFail PROVE BlissInv'
  OBVIOUS
<1>1. /\ Types /\ CommittedInv
      /\ alloc' = DefaultAllocator /\ list' = <<>> /\ left' = 0 /\ free_idx' = Nil
      /\ pool' = committed /\ pc' = "boot"
      /\ UNCHANGED <<nvm, links, clock, committed>>
  BY DEF BlissInv, PowerFail
<1>2. Types'
  <2>1. alloc' \in Allocator /\ left' \in 0..MaxList /\ free_idx' \in Index
    BY <1>1, BlocksAssumption, MaxListAssumption
    DEF DefaultAllocator, Allocator, Index, Nil
  <2>2. list' \in Seq(Block)
    BY <1>1
  <2> QED
    BY <1>1, <2>1, <2>2 DEF Types, links
<1>3. Covered(pool', {})
  BY <1>1 DEF CommittedInv
<1> QED
  BY <1>1, <1>2, <1>3, CommittedKept DEF BlissInv, PcInv

-----------------------------------------------------------------------------
(* The theorems.                                                           *)

\* BlissInv is inductive: it holds in every state, for any number of blocks.
THEOREM BlissInvariance == Spec => []BlissInv
<1>1. Init => BlissInv
  BY BlissInit
<1>2. BlissInv /\ [Next]_vars => BlissInv'
  <2> SUFFICES ASSUME BlissInv, [Next]_vars PROVE BlissInv'
    OBVIOUS
  <2>1. ASSUME NEW n \in 1..MaxList, BeginAlloc(n) PROVE BlissInv'
    BY <2>1, BeginAllocInv
  <2>2. CASE TakeBlock
    BY <2>2, TakeBlockInv
  <2>3. CASE EndAlloc
    BY <2>3, EndAllocInv
  <2>4. ASSUME NEW l \in pool.lists, BeginFree(l) PROVE BlissInv'
    BY <2>4, BeginFreeInv
  <2>5. CASE FreeBlock
    BY <2>5, FreeBlockInv
  <2>6. CASE EndFree
    BY <2>6, EndFreeInv
  <2>7. CASE Checkpoint
    BY <2>7, CheckpointInv
  <2>8. CASE Commit
    BY <2>8, CommitInv
  <2>9. CASE Restore
    BY <2>9, RestoreInv
  <2>10. CASE PowerFail
    BY <2>10, PowerFailInv
  <2>11. CASE UNCHANGED vars
    BY <2>11 DEF vars, links, locals, BlissInv, Types, CommittedInv, RunningInv, PcInv,
                 Inactive, Active, Allocating, AllocPhase, Freeing, FreeingAt
  <2> QED
    BY <2>1, <2>2, <2>3, <2>4, <2>5, <2>6, <2>7, <2>8, <2>9, <2>10, <2>11 DEF Next
<1> QED
  BY <1>1, <1>2, PTL DEF Spec

\* Sequences without repetition that have no block in common are Disjoint.
LEMMA DisjointIntro ==
  ASSUME NEW ss \in SUBSET Seq(Block), \A s \in ss : Once(s),
         \A s, t \in ss : s # t => Apart(s, t)
  PROVE  Disjoint(ss)
<1>1. \A s \in ss : DOMAIN s = 1..Len(s)
  OBVIOUS
<1>2. ASSUME NEW s \in ss, NEW i \in DOMAIN s, NEW j \in DOMAIN s, s[i] = s[j]
      PROVE  i = j
  BY <1>1, <1>2 DEF Once
<1>3. ASSUME NEW s \in ss, NEW t \in ss, s # t
      PROVE  Blocks(s) \cap Blocks(t) = {}
  <2> SUFFICES ASSUME NEW b \in Blocks(s), b \in Blocks(t) PROVE FALSE
    OBVIOUS
  <2>1. PICK i \in 1..Len(s) : s[i] = b
    BY <1>1 DEF Blocks
  <2>2. PICK j \in 1..Len(t) : t[j] = b
    BY <1>1 DEF Blocks
  <2> QED
    BY <1>3, <2>1, <2>2 DEF Apart
<1> QED
  BY <1>2, <1>3 DEF Disjoint

\* A pool that loses no block has them all in its lists and its free list.
LEMMA CoversAll ==
  ASSUME NEW p \in Pools, Covered(p, {})
  PROVE  (UNION {Blocks(l) : l \in p.lists}) \cup Blocks(p.free) = Block
<1>1. p.free \in Seq(Block) /\ \A l \in p.lists : l \in Seq(Block)
  BY DEF Pools
<1>2. \A s \in Seq(Block) : Blocks(s) \subseteq Block
  BY DEF Blocks
<1>3. ASSUME NEW b \in Block
      PROVE  b \in Blocks(p.free) \/ \E l \in p.lists : b \in Blocks(l)
  BY <1>1, BlocksIn DEF Covered
<1> DEFINE u == UNION {Blocks(l) : l \in p.lists}
<1>4. u \subseteq Block /\ Blocks(p.free) \subseteq Block
  BY <1>1, <1>2
<1>5. ASSUME NEW b \in Block
      PROVE  b \in u \/ b \in Blocks(p.free)
  <2>1. CASE \E l \in p.lists : b \in Blocks(l)
    BY <2>1
  <2> QED
    BY <1>3, <2>1
<1> HIDE DEF u
<1>6. u \cup Blocks(p.free) = Block
  BY <1>4, <1>5
<1> QED
  BY <1>6 DEF u

\* Wherever power fails, bliss_restore finds the free list of the last commit
\* whole, and so are the lists of the last commit; no block is in two of them
\* and none is lost (bliss_allocator.c:86).
THEOREM CommittedPoolIsIntact == Spec => []CommittedPoolIntact
<1>1. BlissInv => CommittedPoolIntact
  <2> SUFFICES ASSUME BlissInv PROVE CommittedPoolIntact
    OBVIOUS
  <2> DEFINE c == committed
  <2>1. /\ c \in Pools /\ PoolOK(c) /\ Covered(c, {})
        /\ ListOf(nvm[Inactive], next_free, c.free)
        /\ \A l \in c.lists : LinkedIn(next_block, l)
    BY DEF BlissInv, Types, CommittedInv
  <2>2. FreeListIs(nvm[Inactive], c.free)
    BY <2>1 DEF FreeListIs, Follow, ListOf, FollowIn
  <2>3. \A l \in c.lists : ListIntact(l)
    BY <2>1 DEF ListIntact, LinkedIn
  <2>4. Disjoint(c.lists \cup {c.free})
    <3>1. c.lists \cup {c.free} \in SUBSET Seq(Block)
      BY <2>1 DEF Pools
    <3>2. \A s \in c.lists \cup {c.free} : Once(s)
      BY <2>1 DEF PoolOK
    <3>3. \A s, t \in c.lists \cup {c.free} : s # t => Apart(s, t)
      BY <2>1 DEF PoolOK, Apart
    <3> QED
      BY <3>1, <3>2, <3>3, DisjointIntro
  <2>5. (UNION {Blocks(l) : l \in c.lists}) \cup Blocks(c.free) = Block
    BY <2>1, CoversAll
  <2> QED
    BY <2>2, <2>3, <2>4, <2>5 DEF CommittedPoolIntact
<1> QED
  BY <1>1, BlissInvariance, PTL

\* In every call the running free list and the client's lists are whole and
\* disjoint, and an allocation that passed its check never runs out of blocks
\* (bliss_allocator.c:110-204).
THEOREM RunningPoolIsIntact == Spec => []RunningPoolIntact
<1>1. BlissInv => RunningPoolIntact
  <2> SUFFICES ASSUME BlissInv, pc \in {"idle", "saved", "alloc", "free"}
               PROVE  /\ FreeListIs(alloc, pool.free)
                      /\ \A l \in pool.lists : ListIntact(l)
                      /\ Disjoint(pool.lists \cup {pool.free, list})
                      /\ pc = "alloc" => left <= Len(pool.free)
                      /\ pc \in {"idle", "saved"} =>
                           (UNION {Blocks(l) : l \in pool.lists}) \cup Blocks(pool.free) = Block
    BY DEF RunningPoolIntact
  <2>1. /\ pool \in Pools /\ PoolOK(pool) /\ list \in Seq(Block)
        /\ ListOf(alloc, next_free, pool.free)
        /\ \A l \in pool.lists : LinkedIn(next_block, l)
    BY DEF BlissInv, Types, RunningInv
  <2>2. FreeListIs(alloc, pool.free)
    BY <2>1 DEF FreeListIs, Follow, ListOf, FollowIn
  <2>3. \A l \in pool.lists : ListIntact(l)
    BY <2>1 DEF ListIntact, LinkedIn
  <2>4. Once(list) /\ Apart(list, pool.free) /\ \A l \in pool.lists : Apart(list, l)
    <3>1. CASE pc = "alloc"
      BY <3>1 DEF BlissInv, PcInv, Allocating
    <3>2. CASE pc # "alloc"
      <4>1. list = <<>> /\ Len(list) = 0
        BY <3>2, EmptyIffNoLength, <2>1 DEF BlissInv, PcInv
      <4> QED
        BY <4>1 DEF Once, Apart
    <3> QED
      BY <3>1, <3>2
  <2>5. Disjoint(pool.lists \cup {pool.free, list})
    <3> DEFINE ss == pool.lists \cup {pool.free, list}
    <3>1. ss \in SUBSET Seq(Block)
      BY <2>1 DEF Pools
    <3>2. \A s \in ss : Once(s)
      BY <2>1, <2>4 DEF PoolOK
    <3>3. \A s, t \in ss : s # t => Apart(s, t)
      BY <2>1, <2>4 DEF PoolOK, Apart
    <3> HIDE DEF ss
    <3>4. Disjoint(ss)
      BY <3>1, <3>2, <3>3, DisjointIntro
    <3> QED
      BY <3>4 DEF ss
  <2>6. pc = "alloc" => left <= Len(pool.free)
    BY DEF BlissInv, PcInv, Allocating
  <2>7. pc \in {"idle", "saved"} =>
          (UNION {Blocks(l) : l \in pool.lists}) \cup Blocks(pool.free) = Block
    BY <2>1, CoversAll DEF BlissInv, PcInv
  <2> QED
    BY <2>2, <2>3, <2>5, <2>6, <2>7
<1> QED
  BY <1>1, BlissInvariance, PTL

\* The counters of the allocator and the indices of its lists stay within the
\* number of blocks (bliss_allocator.c:114-132).
THEOREM BlissTypeCorrect == Spec => []TypeOK
<1>1. BlissInv => TypeOK
  <2> SUFFICES ASSUME BlissInv PROVE TypeOK
    OBVIOUS
  <2>1. Types /\ PoolOK(committed) /\ PoolOK(pool)
    BY DEF BlissInv, CommittedInv, RunningInv, PcInv
  <2>2. \A s \in Seq(Block) : Once(s) => s \in BlockSeq
    <3> SUFFICES ASSUME NEW s \in Seq(Block), Once(s) PROVE s \in BlockSeq
      OBVIOUS
    <3>1. Len(s) \in 0..NBlocks /\ s \in [1..Len(s) -> Block]
      BY OnceBound, BlocksAssumption
    <3> QED
      BY <3>1 DEF BlockSeq
  <2>3. Once(list)
    <3>1. CASE pc = "alloc"
      BY <3>1 DEF BlissInv, PcInv, Allocating
    <3>2. CASE pc # "alloc"
      <4>1. list = <<>> /\ Len(list) = 0
        BY <2>1, <3>2, EmptyIffNoLength DEF BlissInv, PcInv, Types
      <4> QED
        BY <4>1 DEF Once
    <3> QED
      BY <3>1, <3>2
  <2>4. /\ list \in BlockSeq /\ pool.free \in BlockSeq /\ committed.free \in BlockSeq
        /\ \A l \in pool.lists \cup committed.lists : l \in BlockSeq /\ l # <<>>
    BY <2>1, <2>2, <2>3 DEF Types, Pools, PoolOK
  <2> QED
    BY <2>1, <2>4 DEF TypeOK, Types
<1> QED
  BY <1>1, BlissInvariance, PTL
=============================================================================
