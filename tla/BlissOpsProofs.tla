--------------------------- MODULE BlissOpsProofs ---------------------------
(***************************************************************************)
(* What the functions of BlissOps do to a free list, for any number of     *)
(* blocks: lemmas for the proofs about Bliss and about MPatch.             *)
(***************************************************************************)
EXTENDS BlissOps, FiniteSetTheorems, SequenceTheorems, WellFoundedInduction, TLAPS

\* Sequences without repetition, and sequences without a common block.
Once(s)     == \A i, j \in 1..Len(s) : s[i] = s[j] => i = j
Apart(s, t) == \A i \in 1..Len(s), j \in 1..Len(t) : s[i] # t[j]
In(b, s)    == \E i \in 1..Len(s) : s[i] = b

\* The blocks that were never initialised are the end of the free list, in the
\* order of their numbers: why lazy initialisation may take the next number.
Fresh(a, s) ==
  \A b \in a.n_initialized_blocks..NBlocks-1 :
    /\ Len(s) - NBlocks + 1 + b \in 1..Len(s)
    /\ s[Len(s) - NBlocks + 1 + b] = b

\* Following a from its head, along the links nf, meets exactly the blocks of s.
FollowIn(a, nf, b) == IF b < a.n_initialized_blocks THEN nf[b] ELSE b + 1
ListOf(a, nf, s) ==
  /\ a.n_free_blocks = Len(s)
  /\ a.next_free_block = IF s = <<>> THEN Nil ELSE s[1]
  /\ \A i \in 1..Len(s)-1 : FollowIn(a, nf, s[i]) = s[i+1]

\* Typed links.
Links == [Block -> 0..NBlocks]

-----------------------------------------------------------------------------
(* The functions of the allocator.                                         *)

\* The numbers up to n are n.
LEMMA UpToCount ==
  ASSUME NEW n \in Nat
  PROVE  IsFiniteSet(1..n) /\ Cardinality(1..n) = n
<1>1. Cardinality(1..n) = IF 1 > n THEN 0 ELSE n - 1 + 1
  BY FS_Interval
<1> QED
  BY <1>1, FS_Interval

\* A sequence without repetition has no more members than there are blocks.
LEMMA OnceBound ==
  ASSUME NEW s \in Seq(Block), Once(s)
  PROVE  Len(s) <= NBlocks
<1>1. NBlocks \in Nat /\ Len(s) \in Nat /\ s \in [1..Len(s) -> Block]
  BY BlocksAssumption
<1>2. IsFiniteSet(1..Len(s)) /\ Cardinality(1..Len(s)) = Len(s)
  BY <1>1, UpToCount
<1>3. IsFiniteSet(Block) /\ Cardinality(Block) = NBlocks
  <2>1. Cardinality(0..NBlocks-1) = IF 0 > NBlocks-1 THEN 0 ELSE NBlocks-1 - 0 + 1
    BY <1>1, FS_Interval
  <2> QED
    BY <1>1, <2>1, FS_Interval, BlocksAssumption DEF Block
<1>4. s \in Injection(1..Len(s), Block)
  BY <1>1 DEF Once, Injection, IsInjective
<1> QED
  BY <1>2, <1>3, <1>4, FS_Injection

\* Emptiness and length.
LEMMA EmptyIffNoLength ==
  ASSUME NEW s \in Seq(Block)
  PROVE  Len(s) \in Nat /\ (s = <<>> <=> Len(s) = 0)
<1>1. Len(<<>>) = 0
  OBVIOUS
<1>2. s # <<>> => Len(s) \in Nat \ {0}
  BY EmptySeq, Zenon
<1> QED
  BY <1>1, <1>2

\* bliss_alloc_block takes the head of the free list and leaves its tail
\* (bliss_allocator.c:110-135).
LEMMA TakeKeeps ==
  ASSUME NEW a \in Allocator, NEW nf \in Links, NEW s \in Seq(Block), s # <<>>,
         Once(s), ListOf(a, nf, s), Fresh(a, s)
  PROVE  /\ InitNext(a, nf) \in Links /\ Pop(a, nf) \in Allocator
         /\ a.next_free_block = s[1]
         /\ ListOf(Pop(a, nf), InitNext(a, nf), Tail(s))
         /\ Fresh(Pop(a, nf), Tail(s))
         /\ a.n_initialized_blocks <= Pop(a, nf).n_initialized_blocks
<1> USE BlocksAssumption
<1> DEFINE n == a.n_initialized_blocks
           nf2 == InitNext(a, nf)
           p == Pop(a, nf)
           t == Tail(s)
<1>1. /\ n \in 0..NBlocks /\ Len(s) \in Nat /\ Len(s) >= 1 /\ a.n_free_blocks = Len(s)
      /\ a.next_free_block = s[1] /\ s[1] \in Block
      /\ Len(s) <= NBlocks
  BY OnceBound DEF Allocator, ListOf
<1>2. /\ t \in Seq(Block) /\ Len(t) = Len(s) - 1 /\ \A i \in 1..Len(t) : t[i] = s[i+1]
      /\ Len(t) = 0 => t = <<>>
  <2>1. t \in Seq(Block) /\ Len(t) = Len(s) - 1 /\ \A i \in 1..Len(t) : t[i] = s[i+1]
    BY <1>1
  <2>2. Len(t) = 0 => t = <<>>
    BY <2>1, EmptyIffNoLength
  <2> QED
    BY <2>1, <2>2
<1>3. nf2 \in Links /\ \A b \in Block : b < n => nf2[b] = nf[b]
  <2>1. CASE n < NBlocks
    <3>1. nf2 = [nf EXCEPT ![n] = n + 1] /\ n \in Block /\ n + 1 \in 0..NBlocks
      BY <1>1, <2>1 DEF InitNext, Block
    <3> QED
      BY <3>1 DEF Links, Block
  <2>2. CASE ~(n < NBlocks)
    BY <2>2 DEF InitNext
  <2> QED
    BY <2>1, <2>2
<1>4. n < NBlocks => nf2[n] = n + 1
  BY <1>1 DEF InitNext, Links, Block
<1>5. InitCount(a) = IF n < NBlocks THEN n + 1 ELSE n
  BY DEF InitCount
<1>6. \A b \in Block : (IF b < InitCount(a) THEN nf2[b] ELSE b + 1) = FollowIn(a, nf, b)
  BY <1>1, <1>3, <1>4, <1>5 DEF FollowIn, Block
<1>7. CASE Len(s) = 1
  <2>1. p = [next_free_block |-> Nil, n_free_blocks |-> 0, n_initialized_blocks |-> InitCount(a)]
    BY <1>1, <1>7 DEF Pop
  <2>2. t = <<>> /\ Len(t) = 0
    BY <1>2, <1>7
  <2>3. p \in Allocator
    BY <1>1, <1>5, <2>1 DEF Allocator, Index, Nil
  <2>4. ListOf(p, nf2, t)
    BY <2>1, <2>2 DEF ListOf
  <2>5. Fresh(p, t)
    <3> SUFFICES ASSUME NEW b \in InitCount(a)..NBlocks-1 PROVE FALSE
      BY <2>1 DEF Fresh
    <3>1. b \in n..NBlocks-1 /\ n \in n..NBlocks-1 /\ b # n
      BY <1>1, <1>5
    <3>2. Len(s) - NBlocks + 1 + b \in 1..Len(s) /\ Len(s) - NBlocks + 1 + n \in 1..Len(s)
      BY <3>1 DEF Fresh
    <3> QED
      BY <1>1, <1>7, <3>1, <3>2
  <2> QED
    BY <1>1, <1>3, <1>5, <2>1, <2>3, <2>4, <2>5
<1>8. CASE Len(s) > 1
  <2>1. s[1] <= n
    <3>1. CASE n < NBlocks
      <4>1. s[1] < n \/ s[1] \in n..NBlocks-1
        BY <1>1, <3>1 DEF Block
      <4>2. ASSUME s[1] \in n..NBlocks-1
            PROVE  s[1] = n
        <5>1. Len(s) - NBlocks + 1 + s[1] = 1
          <6>1. /\ Len(s) - NBlocks + 1 + s[1] \in 1..Len(s)
                /\ s[Len(s) - NBlocks + 1 + s[1]] = s[1]
            BY <4>2 DEF Fresh
          <6> QED
            BY <1>1, <6>1 DEF Once
        <5>2. Len(s) - NBlocks + 1 + n \in 1..Len(s)
          BY <1>1, <3>1 DEF Fresh
        <5> QED
          BY <1>1, <4>2, <5>1, <5>2
      <4> HIDE DEF n
      <4> QED
        BY <1>1, <4>1, <4>2 DEF Block
    <3> QED
      BY <1>1, <3>1 DEF Block
  <2>2. nf2[s[1]] = s[2]
    <3>1. FollowIn(a, nf, s[1]) = s[2]
      BY <1>1, <1>8 DEF ListOf
    <3> QED
      BY <1>1, <1>3, <1>4, <2>1, <3>1 DEF FollowIn, Block
  <2>3. p = [next_free_block |-> s[2], n_free_blocks |-> Len(s) - 1,
             n_initialized_blocks |-> InitCount(a)]
    BY <1>1, <1>8, <2>2 DEF Pop
  <2>4. s[2] \in Block /\ t[1] = s[2] /\ t # <<>>
    <3>1. s[2] \in Block /\ t[1] = s[2] /\ Len(t) # 0
      BY <1>1, <1>2, <1>8
    <3> QED
      BY <1>2, <3>1, EmptyIffNoLength
  <2>5. p \in Allocator
    <3>1. s[2] \in Index
      BY <2>4 DEF Index, Block
    <3>2. Len(s) - 1 \in 0..NBlocks
      BY <1>1, <1>8
    <3>3. InitCount(a) \in 0..NBlocks
      BY <1>1, <1>5
    <3> HIDE DEF p
    <3> QED
      BY <2>3, <3>1, <3>2, <3>3 DEF Allocator
  <2>6. ListOf(p, nf2, t)
    <3>1. \A i \in 1..Len(t)-1 : FollowIn(p, nf2, t[i]) = t[i+1]
      <4> SUFFICES ASSUME NEW i \in 1..Len(t)-1 PROVE FollowIn(p, nf2, t[i]) = t[i+1]
        OBVIOUS
      <4>1. t[i] = s[i+1] /\ t[i+1] = s[i+2] /\ s[i+1] \in Block
        BY <1>1, <1>2
      <4>2. FollowIn(a, nf, s[i+1]) = s[i+2]
        BY <1>1, <1>2 DEF ListOf
      <4> QED
        BY <1>6, <2>3, <4>1, <4>2 DEF FollowIn
    <3> QED
      BY <1>2, <2>3, <2>4, <3>1 DEF ListOf
  <2>7. Fresh(p, t)
    <3> SUFFICES ASSUME NEW b \in InitCount(a)..NBlocks-1
                 PROVE  /\ Len(t) - NBlocks + 1 + b \in 1..Len(t)
                        /\ t[Len(t) - NBlocks + 1 + b] = b
      BY <2>3 DEF Fresh
    <3>1. n < NBlocks /\ b \in n+1..NBlocks-1
      BY <1>1, <1>5
    <3>2. /\ n \in n..NBlocks-1 /\ b \in n..NBlocks-1
          /\ \A c \in n..NBlocks-1 : /\ Len(s) - NBlocks + 1 + c \in 1..Len(s)
                                      /\ s[Len(s) - NBlocks + 1 + c] = c
      BY <1>1, <3>1 DEF Fresh
    <3> QED
      BY <1>1, <1>2, <3>1, <3>2
  <2> QED
    BY <1>1, <1>3, <1>5, <2>3, <2>5, <2>6, <2>7
<1>9. Len(s) = 1 \/ Len(s) > 1
  <2>1. Len(s) \in Nat /\ Len(s) # 0
    BY EmptyIffNoLength
  <2>2. \A k \in Nat : k # 0 => k = 1 \/ k > 1
    OBVIOUS
  <2> QED
    BY <2>1, <2>2
<1> QED
  BY <1>7, <1>8, <1>9

\* Lazy initialisation changes no link that another record, which has
\* initialised no more, follows.
LEMMA TakeKeepsOther ==
  ASSUME NEW a \in Allocator, NEW nf \in Links, NEW c \in Allocator, NEW s \in Seq(Block),
         c.n_initialized_blocks <= a.n_initialized_blocks, ListOf(c, nf, s)
  PROVE  ListOf(c, InitNext(a, nf), s)
<1>1. \A b \in Block : FollowIn(c, InitNext(a, nf), b) = FollowIn(c, nf, b)
  BY BlocksAssumption DEF FollowIn, InitNext, Links, Block, Allocator
<1>2. \A i \in 1..Len(s)-1 : s[i] \in Block
  OBVIOUS
<1> QED
  BY <1>1, <1>2 DEF ListOf

\* bliss_init: every block is free, in the order of their numbers.
LEMMA DefaultKeeps ==
  ASSUME NEW nf
  PROVE  /\ DefaultAllocator \in Allocator
         /\ \E s \in Seq(Block) :
              /\ Once(s) /\ ListOf(DefaultAllocator, nf, s) /\ Fresh(DefaultAllocator, s)
              /\ \A b \in Block : In(b, s)
<1> USE BlocksAssumption
<1> DEFINE s == [i \in 1..NBlocks |-> i - 1]
           d == DefaultAllocator
<1>1. /\ s \in Seq(Block) /\ Len(s) = NBlocks /\ s # <<>>
      /\ \A i \in 1..NBlocks : s[i] = i - 1
  <2>1. s \in [1..NBlocks -> Block]
    BY DEF Block
  <2>2. s \in Seq(Block) /\ Len(s) = NBlocks
    BY <2>1
  <2> QED
    BY <2>2, EmptyIffNoLength
<1>2. /\ d.n_free_blocks = NBlocks /\ d.next_free_block = 0 /\ d.n_initialized_blocks = 0
      /\ d \in Allocator
  BY DEF DefaultAllocator, Allocator, Index
<1> HIDE DEF d, s
<1>3. ListOf(d, nf, s)
  <2>1. /\ \A i \in 1..Len(s)-1 : s[i] + 1 = s[i+1] /\ ~(s[i] < 0)
        /\ s[1] = 0
    BY <1>1
  <2> QED
    BY <1>1, <1>2, <2>1 DEF ListOf, FollowIn
<1>4. Fresh(d, s)
  BY <1>1, <1>2 DEF Fresh
<1>5. Once(s)
  BY <1>1 DEF Once
<1>6. \A b \in Block : In(b, s)
  <2>1. \A b \in Block : b + 1 \in 1..Len(s) /\ s[b+1] = b
    BY <1>1 DEF Block
  <2> QED
    BY <2>1 DEF In
<1> QED
  BY <1>1, <1>2, <1>3, <1>4, <1>5, <1>6 DEF d

\* bliss_free_block puts a block before the free list (bliss_allocator.c:138-148).
LEMMA FreeKeeps ==
  ASSUME NEW a \in Allocator, NEW nf \in Links, NEW s \in Seq(Block), NEW f \in Block,
         Once(s), ~In(f, s), ListOf(a, nf, s), Fresh(a, s)
  PROVE  /\ FreeNext(a, nf, f) \in Links /\ Push(a, f) \in Allocator
         /\ <<f>> \o s \in Seq(Block) /\ Once(<<f>> \o s)
         /\ ListOf(Push(a, f), FreeNext(a, nf, f), <<f>> \o s)
         /\ Fresh(Push(a, f), <<f>> \o s)
<1> USE BlocksAssumption
<1> DEFINE n == a.n_initialized_blocks
           nf2 == FreeNext(a, nf, f)
           p == Push(a, f)
           t == <<f>> \o s
<1>1. n \in 0..NBlocks /\ Len(s) \in Nat /\ a.n_free_blocks = Len(s)
  BY DEF Allocator, ListOf
<1>2. /\ t \in Seq(Block) /\ Len(t) = Len(s) + 1 /\ t[1] = f /\ t # <<>>
      /\ \A i \in 1..Len(s) : t[i+1] = s[i]
      /\ \A i \in 2..Len(t) : t[i] = s[i-1]
  BY <1>1
<1>3. Once(t)
  BY <1>1, <1>2 DEF Once, In
<1>4. Len(t) <= NBlocks
  BY <1>2, <1>3, OnceBound
<1>5. f < n
  <2> SUFFICES ASSUME ~(f < n) PROVE FALSE
    OBVIOUS
  <2>1. f \in n..NBlocks-1
    BY <1>1 DEF Block
  <2>2. In(f, s)
    <3>1. Len(s) - NBlocks + 1 + f \in 1..Len(s) /\ s[Len(s) - NBlocks + 1 + f] = f
      BY <2>1 DEF Fresh
    <3> QED
      BY <3>1 DEF In
  <2> QED
    BY <2>2
<1>6. /\ nf2 \in Links /\ \A b \in Block : b # f => nf2[b] = nf[b]
      /\ s # <<>> => nf2[f] = s[1]
  <2>1. nf2 \in Links /\ \A b \in Block : b # f => nf2[b] = nf[b]
    <3>1. a.next_free_block # Nil => a.next_free_block \in 0..NBlocks
      BY DEF Allocator, Index, Nil
    <3> QED
      BY <3>1 DEF FreeNext, Links
  <2>2. s # <<>> => nf2[f] = s[1]
    <3> SUFFICES ASSUME s # <<>> PROVE nf2[f] = s[1]
      OBVIOUS
    <3>1. Len(s) # 0
      BY EmptyIffNoLength
    <3>2. s[1] \in Block /\ s[1] # Nil
      BY <1>1, <3>1 DEF Block, Nil
    <3>3. a.next_free_block = s[1]
      BY DEF ListOf
    <3> QED
      BY <3>2, <3>3 DEF FreeNext, Links
  <2> QED
    BY <2>1, <2>2
<1>7. p = [next_free_block |-> f, n_free_blocks |-> Len(s) + 1, n_initialized_blocks |-> n]
  BY <1>1 DEF Push
<1>8. p \in Allocator
  BY <1>1, <1>2, <1>4, <1>7 DEF Allocator, Index, Block
<1>9. ListOf(p, nf2, t)
  <2>1. ASSUME NEW i \in 1..Len(t)-1
        PROVE  FollowIn(p, nf2, t[i]) = t[i+1]
    <3>1. CASE i = 1
      BY <1>1, <1>2, <1>5, <1>6, <1>7, <2>1, <3>1 DEF FollowIn
    <3>2. CASE i > 1
      <4>1. i-1 \in 1..Len(s)-1 /\ t[i] = s[i-1] /\ t[i+1] = s[i] /\ s[i-1] \in Block
        BY <1>1, <1>2, <2>1, <3>2
      <4>2. FollowIn(a, nf, s[i-1]) = s[i]
        BY <1>1, <4>1 DEF ListOf
      <4>3. s[i-1] # f
        BY <1>1, <4>1 DEF In
      <4> QED
        BY <1>6, <1>7, <4>1, <4>2, <4>3 DEF FollowIn
    <3> QED
      BY <2>1, <3>1, <3>2
  <2>2. p.n_free_blocks = Len(t) /\ p.next_free_block = IF t = <<>> THEN Nil ELSE t[1]
    BY <1>2, <1>7
  <2> HIDE DEF p, nf2, t
  <2> QED
    BY <2>1, <2>2 DEF ListOf
<1>10. Fresh(p, t)
  <2> SUFFICES ASSUME NEW b \in n..NBlocks-1
               PROVE  /\ Len(t) - NBlocks + 1 + b \in 1..Len(t)
                      /\ t[Len(t) - NBlocks + 1 + b] = b
    BY <1>7 DEF Fresh
  <2>1. /\ Len(s) - NBlocks + 1 + b \in 1..Len(s)
        /\ s[Len(s) - NBlocks + 1 + b] = b
    BY <1>1 DEF Fresh
  <2>2. Len(t) - NBlocks + 1 + b = (Len(s) - NBlocks + 1 + b) + 1
    BY <1>1, <1>2
  <2> QED
    BY <1>1, <1>2, <2>1, <2>2
<1> QED
  BY <1>2, <1>3, <1>6, <1>8, <1>9, <1>10

\* A free changes no link of a list that the block is not in.
LEMMA FreeKeepsOther ==
  ASSUME NEW a \in Allocator, NEW nf \in Links, NEW c \in Allocator, NEW s \in Seq(Block),
         NEW f \in Block, ~In(f, s), ListOf(c, nf, s)
  PROVE  ListOf(c, FreeNext(a, nf, f), s)
<1>1. \A i \in 1..Len(s)-1 : s[i] \in Block /\ s[i] # f
  BY DEF In
<1>2. \A b \in Block : b # f => FollowIn(c, FreeNext(a, nf, f), b) = FollowIn(c, nf, b)
  BY DEF FollowIn, FreeNext, Links
<1> QED
  BY <1>1, <1>2 DEF ListOf

-----------------------------------------------------------------------------
(* Induction.                                                              *)

\* A set of naturals that is not empty has a least member: from the well-founded
\* order of the library on finite sets, for the intervals up to the members.
\* Every induction of this development is one on a least counterexample.
LEMMA LeastNat ==
  ASSUME NEW S \in SUBSET Nat, S # {}
  PROVE  \E m \in S : \A n \in S : m <= n
<1> DEFINE F == {0..n : n \in S}
<1>1. F \subseteq FiniteSubsetsOf(Nat)
  <2> SUFFICES ASSUME NEW n \in S PROVE 0..n \in FiniteSubsetsOf(Nat)
    OBVIOUS
  <2>1. IsFiniteSet(0..n)
    BY FS_Interval
  <2>2. 0..n \subseteq Nat
    OBVIOUS
  <2> QED
    BY <2>1, <2>2 DEF FiniteSubsetsOf
<1>2. F # {}
  OBVIOUS
<1>3. IsWellFoundedOn(StrictSubsetOrdering(Nat), FiniteSubsetsOf(Nat))
  BY FS_StrictSubsetOrderingWellFounded, Zenon
<1> HIDE DEF F
<1>4. PICK x \in F : \A y \in F : ~ (<<y, x>> \in StrictSubsetOrdering(Nat))
  BY <1>1, <1>2, <1>3, WFMin, Zenon
<1>5. PICK m \in S : x = 0..m
  BY DEF F
<1>6. ASSUME NEW n \in S, n < m PROVE FALSE
  <2>1. 0..n \in F
    BY DEF F
  <2>2. 0..n \subseteq 0..m /\ 0..n # 0..m
    BY <1>6
  <2>3. <<0..n, 0..m>> \in StrictSubsetOrdering(Nat)
    <3>1. 0..n \in SUBSET Nat /\ 0..m \in SUBSET Nat
      OBVIOUS
    <3> QED
      BY <2>2, <3>1 DEF StrictSubsetOrdering
  <2> QED
    BY <2>1, <2>3, <1>4, <1>5
<1> QED
  BY <1>6
=============================================================================
