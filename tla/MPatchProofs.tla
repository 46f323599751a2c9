---------------------------- MODULE MPatchProofs ----------------------------
(***************************************************************************)
(* Proofs about MPatch, for any number of blocks, regions and contents.    *)
(***************************************************************************)
EXTENDS MPatch, BlissOpsProofs

-----------------------------------------------------------------------------
(* Chains as sets of patches ordered by age: rk ranks the blocks, a newer  *)
(* patch above an older one.                                               *)

\* t is above every rank, and no two blocks have the same one.
Ordered(t, rk) ==
  /\ t \in Nat /\ rk \in [Block -> Nat]
  /\ \A b \in Block : rk[b] < t
  /\ \A b, c \in Block : rk[b] = rk[c] => b = c

Older(S, rk, b) == {c \in S : rk[c] < rk[b]}
Newer(S, rk, b) == {c \in S : rk[b] < rk[c]}

Newest(S, rk, n) == IF S = {} THEN n = Nil ELSE n \in S /\ \A c \in S : rk[c] <= rk[n]

\* The links of p lead from first through the patches of S, the newest first.
Linked(p, rk, S, first) ==
  /\ Newest(S, rk, first)
  /\ \A b \in S : Newest(Older(S, rk, b), rk, p[b].next)

\* The patches a newer one of the same region hides.
Hidden(p, rk, S) == {b \in S : \E c \in S : rk[b] < rk[c] /\ p[c].region = p[b].region}

\* The newest patch of every region of R has the contents of mem.
Holds(p, rk, S, mem, R) ==
  \A r \in R : \E b \in S : /\ p[b].region = r /\ p[b].data = mem[r]
                            /\ \A c \in S : p[c].region = r => rk[c] <= rk[b]

FreeList(a, nf, s) == s \in Seq(Block) /\ Once(s) /\ ListOf(a, nf, s) /\ Fresh(a, s)

\* The patches a walk that is at b has left behind.
Passed(S, rk, b) == IF b = Nil THEN S ELSE Newer(S, rk, b)

Regions(p, S) == {p[b].region : b \in S}

\* q is p with another link in b.
Relinked(p, q, b, n) ==
  /\ q \in [Block -> Patch] /\ q[b].next = n
  /\ \A c \in Block : /\ c # b => q[c].next = p[c].next
                      /\ q[c].stage_clock = p[c].stage_clock
                      /\ q[c].region = p[c].region /\ q[c].data = p[c].data

\* Nil is no block.
LEMMA NilNoBlock == Nil \notin Block /\ Block \subseteq Index /\ Nil \in Index
  BY BlocksAssumption DEF Nil, Block, Index

\* Writing one link (mpatch.c:66, 470).
LEMMA Relink ==
  ASSUME NEW p \in [Block -> Patch], NEW b \in Block, NEW n \in Index
  PROVE  Relinked(p, [p EXCEPT ![b].next = n], b, n)
<1> DEFINE q == [p EXCEPT ![b].next = n]
<1>1. q \in [Block -> Patch]
  BY DEF Patch
<1>2. \A c \in Block : q[c].next = IF c = b THEN n ELSE p[c].next
  BY DEF Patch
<1>3. \A c \in Block : /\ q[c].stage_clock = p[c].stage_clock
                       /\ q[c].region = p[c].region /\ q[c].data = p[c].data
  BY DEF Patch
<1>4. Relinked(p, q, b, n)
  <2> HIDE DEF q
  <2> QED
    BY <1>1, <1>2, <1>3 DEF Relinked
<1> QED
  BY <1>4

\* The newest patch of a set is one.
LEMMA NewestUnique ==
  ASSUME NEW t, NEW rk, Ordered(t, rk), NEW S \in SUBSET Block, NEW m, NEW n,
         Newest(S, rk, m), Newest(S, rk, n)
  PROVE  m = n
<1>1. CASE S = {}
  BY <1>1 DEF Newest
<1>2. CASE S # {}
  <2>1. m \in S /\ n \in S /\ rk[m] <= rk[n] /\ rk[n] <= rk[m]
    BY <1>2 DEF Newest
  <2>2. m \in Block /\ n \in Block /\ rk[m] \in Nat /\ rk[n] \in Nat
    BY <2>1 DEF Ordered
  <2> QED
    BY <2>1, <2>2 DEF Ordered
<1> QED
  BY <1>1, <1>2

\* A chain is the same under links and ranks that agree on its patches.
LEMMA LinkedFrame ==
  ASSUME NEW p, NEW q, NEW rk, NEW rk2, NEW S \in SUBSET Block, NEW first,
         Linked(p, rk, S, first),
         \A b \in S : q[b].next = p[b].next /\ rk2[b] = rk[b]
  PROVE  Linked(q, rk2, S, first)
<1>1. \A T \in SUBSET S : \A n : Newest(T, rk, n) => Newest(T, rk2, n)
  BY DEF Newest
<1>2. \A b \in S : Older(S, rk2, b) = Older(S, rk, b) /\ Older(S, rk, b) \in SUBSET S
  BY DEF Older
<1> QED
  BY <1>1, <1>2 DEF Linked

\* A patch put before the newest one (mpatch.c:66).
LEMMA Prepend ==
  ASSUME NEW t, NEW rk, Ordered(t, rk), NEW p, NEW q, NEW S \in SUBSET Block, NEW first,
         NEW b \in Block \ S, Linked(p, rk, S, first), Relinked(p, q, b, first),
         \A c \in S : rk[c] < rk[b]
  PROVE  Linked(q, rk, S \cup {b}, b)
<1> DEFINE T == S \cup {b}
<1>1. \A c \in T : rk[c] \in Nat
  BY DEF Ordered
<1>2. Newest(T, rk, b)
  BY <1>1 DEF Newest
<1>3. Older(T, rk, b) = S
  BY <1>1 DEF Older
<1>4. \A c \in S : Older(T, rk, c) = Older(S, rk, c)
  BY <1>1 DEF Older
<1>5. \A c \in S : q[c].next = p[c].next
  BY DEF Relinked
<1>6. q[b].next = first
  BY DEF Relinked
<1>7. Newest(S, rk, first) /\ \A c \in S : Newest(Older(S, rk, c), rk, p[c].next)
  BY DEF Linked
<1>8. \A c \in T : Newest(Older(T, rk, c), rk, q[c].next)
  <2> TAKE c \in T
  <2>1. CASE c = b
    BY <1>3, <1>6, <1>7, <2>1
  <2>2. CASE c \in S
    BY <1>4, <1>5, <1>7, <2>2
  <2> QED
    BY <2>1, <2>2
<1> QED
  BY <1>2, <1>8 DEF Linked

\* The link of a patch leads to an older one.
LEMMA LinkOlder ==
  ASSUME NEW p, NEW rk, NEW S \in SUBSET Block, NEW first, Linked(p, rk, S, first),
         NEW w \in S, p[w].next # Nil
  PROVE  p[w].next \in S /\ rk[p[w].next] < rk[w]
  BY DEF Linked, Newest, Older

\* A patch taken out behind another one (mpatch.c:470).
LEMMA UnlinkMiddle ==
  ASSUME NEW t, NEW rk, Ordered(t, rk), NEW p, NEW q, NEW S \in SUBSET Block, NEW first,
         Linked(p, rk, S, first), NEW w \in S, NEW x \in S, p[w].next = x,
         Relinked(p, q, w, p[x].next)
  PROVE  Linked(q, rk, S \ {x}, first) /\ w # x
<1> DEFINE T == S \ {x}
<1>1. \A c \in S : rk[c] \in Nat
  BY DEF Ordered
<1>2. x \in Older(S, rk, w) /\ \A c \in Older(S, rk, w) : rk[c] <= rk[x]
  <2>1. Newest(Older(S, rk, w), rk, x) /\ x # Nil
    BY NilNoBlock DEF Linked
  <2> QED
    BY <2>1 DEF Newest
<1>3. rk[x] < rk[w] /\ w # x /\ w \in T
  BY <1>1, <1>2 DEF Older
<1>4. Newest(T, rk, first)
  <2>1. first \in S /\ \A c \in S : rk[c] <= rk[first]
    BY DEF Linked, Newest
  <2>2. first # x
    BY <1>1, <1>3, <2>1
  <2> QED
    BY <1>3, <2>1, <2>2 DEF Newest
<1>5. Older(T, rk, w) = Older(S, rk, x)
  BY <1>1, <1>2, <1>3 DEF Older, Ordered
<1>6. Newest(Older(T, rk, w), rk, q[w].next)
  BY <1>5 DEF Linked, Relinked
<1>7. ASSUME NEW c \in T, c # w
      PROVE  Newest(Older(T, rk, c), rk, q[c].next)
  <2>1. q[c].next = p[c].next
    BY <1>7 DEF Relinked
  <2>2. Newest(Older(S, rk, c), rk, p[c].next)
    BY DEF Linked
  <2>3. p[c].next # x
    <3> SUFFICES ASSUME p[c].next = x PROVE FALSE
      OBVIOUS
    <3>1. x # Nil
      BY NilNoBlock
    <3>2. x \in Older(S, rk, c) /\ \A d \in Older(S, rk, c) : rk[d] <= rk[x]
      BY <2>2, <3>1 DEF Newest
    <3>3. rk[c] # rk[w]
      BY <1>7 DEF Ordered
    <3>4. CASE rk[w] < rk[c]
      BY <1>1, <1>3, <3>2, <3>4 DEF Older
    <3>5. CASE rk[c] < rk[w]
      BY <1>1, <1>2, <3>2, <3>5 DEF Older
    <3> QED
      BY <1>1, <3>3, <3>4, <3>5
  <2>4. Older(T, rk, c) = Older(S, rk, c) \ {x}
    BY DEF Older
  <2>5. CASE Older(S, rk, c) = {}
    BY <2>1, <2>2, <2>4, <2>5 DEF Newest
  <2>6. CASE Older(S, rk, c) # {}
    <3>1. p[c].next \in Older(S, rk, c) /\ \A d \in Older(S, rk, c) : rk[d] <= rk[p[c].next]
      BY <2>2, <2>6 DEF Newest
    <3> QED
      BY <2>1, <2>3, <2>4, <3>1 DEF Newest
  <2> QED
    BY <2>5, <2>6
<1> HIDE DEF T
<1>8. \A c \in T : Newest(Older(T, rk, c), rk, q[c].next)
  BY <1>6, <1>7
<1> QED
  BY <1>3, <1>4, <1>8 DEF Linked, T

\* The newest patch taken out (mpatch.c:470).
LEMMA UnlinkFirst ==
  ASSUME NEW t, NEW rk, Ordered(t, rk), NEW p, NEW S \in SUBSET Block,
         NEW x \in S, Linked(p, rk, S, x)
  PROVE  Linked(p, rk, S \ {x}, p[x].next)
<1> DEFINE T == S \ {x}
<1>1. \A c \in S : rk[c] \in Nat /\ rk[c] <= rk[x]
  BY NilNoBlock DEF Ordered, Linked, Newest
<1>2. T = Older(S, rk, x)
  BY <1>1 DEF Older, Ordered
<1>3. \A c \in T : Older(T, rk, c) = Older(S, rk, c)
  BY <1>1 DEF Older
<1> QED
  BY <1>2, <1>3 DEF Linked

\* Taking a hidden patch away changes nothing that can be seen ...
LEMMA WithoutHidden ==
  ASSUME NEW t, NEW rk, Ordered(t, rk), NEW p, NEW q, NEW S \in SUBSET Block,
         NEW K \in SUBSET S, NEW x \in Hidden(p, rk, K), NEW w, NEW n, Relinked(p, q, w, n)
  PROVE  \A mem, R : Holds(p, rk, S, mem, R) => Holds(q, rk, S \ {x}, mem, R)
<1>1. \A c \in Block : rk[c] \in Nat /\ q[c].region = p[c].region /\ q[c].data = p[c].data
  BY DEF Ordered, Relinked
<1>2. PICK y \in K : rk[x] < rk[y] /\ p[y].region = p[x].region
  BY DEF Hidden
<1>3. x \in K /\ x \in S /\ x # y
  BY <1>1, <1>2 DEF Hidden
<1>4. ASSUME NEW mem, NEW R, Holds(p, rk, S, mem, R), NEW r \in R
      PROVE  \E b \in S \ {x} : /\ q[b].region = r /\ q[b].data = mem[r]
                                /\ \A c \in S \ {x} : q[c].region = r => rk[c] <= rk[b]
  <2>1. PICK b \in S : /\ p[b].region = r /\ p[b].data = mem[r]
                       /\ \A c \in S : p[c].region = r => rk[c] <= rk[b]
    BY <1>4 DEF Holds
  <2>2. b # x
    BY <1>1, <1>2, <1>3, <2>1
  <2> QED
    BY <1>1, <2>1, <2>2
<1> QED
  BY <1>4 DEF Holds

\* ... and leaves the others hidden that were.
LEMMA HiddenStay ==
  ASSUME NEW t, NEW rk, Ordered(t, rk), NEW p, NEW q, NEW K \in SUBSET Block,
         NEW x \in Hidden(p, rk, K), NEW w, NEW n, Relinked(p, q, w, n)
  PROVE  Hidden(q, rk, K \ {x}) = Hidden(p, rk, K) \ {x}
<1>1. \A c \in Block : rk[c] \in Nat /\ q[c].region = p[c].region
  BY DEF Ordered, Relinked
<1>2. PICK y \in K : rk[x] < rk[y] /\ p[y].region = p[x].region
  BY DEF Hidden
<1>3. x \in K /\ x # y
  BY <1>1, <1>2 DEF Hidden
<1>4. ASSUME NEW b \in K, b # x
      PROVE  b \in Hidden(q, rk, K \ {x}) <=> b \in Hidden(p, rk, K)
  <2>1. b \in Hidden(q, rk, K \ {x}) => b \in Hidden(p, rk, K)
    BY <1>1 DEF Hidden
  <2>2. ASSUME b \in Hidden(p, rk, K)
        PROVE  b \in Hidden(q, rk, K \ {x})
    <3>1. PICK c \in K : rk[b] < rk[c] /\ p[c].region = p[b].region
      BY <2>2 DEF Hidden
    <3>2. CASE c = x
      <4>1. y \in K \ {x} /\ rk[b] < rk[y] /\ q[y].region = q[b].region
        BY <1>1, <1>2, <1>3, <3>1, <3>2
      <4> QED
        BY <1>4, <4>1 DEF Hidden
    <3>3. CASE c # x
      <4>1. c \in K \ {x} /\ rk[b] < rk[c] /\ q[c].region = q[b].region
        BY <1>1, <3>1, <3>3
      <4> QED
        BY <1>4, <4>1 DEF Hidden
    <3> QED
      BY <3>2, <3>3
  <2> QED
    BY <2>1, <2>2
<1>5. Hidden(q, rk, K \ {x}) \subseteq K \ {x} /\ Hidden(p, rk, K) \subseteq K
  BY DEF Hidden
<1> QED
  BY <1>4, <1>5

-----------------------------------------------------------------------------
(* Control: what holds of the program counter, the modes and the clocks,   *)
(* whatever the chain is.                                                  *)

Sweep    == {"free", "save", "publish", "reload", "delete", "modify", "clear"}
Deletes  == {"reload", "delete", "modify", "clear"}
Recovers == {"boot", "recover", "recovered"}

Open     == "uncommitted" \in window
Deleting == mode = "obsolete" /\ pc \in Deletes

\* The two clocks differ in parity, but for the step between a publication and
\* the restore that follows it; the active slot is not the committed one.
Clocks ==
  /\ lclock \in 0..ClockMod-1 /\ mlclock \in [0..1 -> 0..ClockMod-1]
  /\ pc \notin {"boot", "post"} =>
       mlclock[ActiveIdx] = IF pc = "reload" THEN mlclock[RestoreIdx]
                                             ELSE Inc(mlclock[RestoreIdx])

Modes ==
  /\ mode \in {"obsolete", "uncommitted"}
  /\ mode = "uncommitted" => pc \in Sweep /\ available /\ dirty = {} /\ ~retry
  /\ pc \in Sweep /\ mode = "obsolete" => retry /\ dirty # {}
  /\ retry => pc \in {"stage", "hung"} \cup Sweep
  /\ pc = "hung" => retry /\ dirty # {} /\ alloc.n_free_blocks = 0
  /\ pc \in {"run", "post", "recover", "recovered", "apply"} => available
  /\ pc \in {"commit", "post", "apply"} \cup Recovers => dirty = {}
  /\ pc # "link" => new = Nil
  /\ pc = "post" => golden = ram

Windows ==
  /\ window \subseteq {"obsolete", "uncommitted"}
  /\ Open => pc \notin {"post"} \cup Recovers
  /\ mode = "uncommitted" => (Open <=> pc \in Deletes)
  /\ "obsolete" \in window => Deleting
  /\ Deleting => ~Open /\ (doomed # {} => "obsolete" \in window)
  /\ mode = "uncommitted" /\ pc \in {"save", "publish"} => doomed # {}
  /\ pc \notin Sweep => doomed = {}

Records ==
  /\ pc \notin {"modify", "clear"} \cup Recovers => del = {}
  /\ pc = "modify" => del = {<<prev, patch[at].next>>}
  /\ pc = "recovered" => del # {}

Control == Clocks /\ Modes /\ Windows /\ Records

\* Which failures the theorems are about: none in a window in which a sweep has
\* published what the recovery cannot repair, and fewer consecutive checkpoints
\* without a write than the clock can count.
Sheltered == Exposed = {} /\ IdleLimit + 2 <= ClockMod

\* Reducing a clock to its even modulus keeps its parity (checkpoint_selector.h).
LEMMA Parity ==
  ASSUME NEW x \in 0..ClockMod-1, ClockMod \in Nat \ {0}, ClockMod % 2 = 0
  PROVE  Inc(x) \in 0..ClockMod-1 /\ Inc(x) % 2 = (x + 1) % 2
<1>1. CASE x + 1 < ClockMod
  <2>1. (x + 1) % ClockMod = x + 1
    BY <1>1
  <2> QED
    BY <1>1, <2>1 DEF Inc
<1>2. CASE x + 1 = ClockMod
  <2>1. (x + 1) % ClockMod = 0
    BY <1>2
  <2> QED
    BY <1>2, <2>1 DEF Inc
<1> QED
  BY <1>1, <1>2

\* Two neighbours have different slots.
LEMMA Slots ==
  ASSUME NEW x \in Nat
  PROVE  x % 2 \in 0..1 /\ (x + 1) % 2 \in 0..1 /\ x % 2 # (x + 1) % 2 /\ (x + 2) % 2 = x % 2
  OBVIOUS

\* mpatch_core_restore makes the active clock follow the committed one, and its
\* slot the other one.
LEMMA CoreRestoreClocks ==
  ASSUME Clocks, CoreRestore, lclock' = lclock
  PROVE  /\ mlclock' \in [0..1 -> 0..ClockMod-1]
         /\ mlclock'[ActiveIdx'] = Inc(mlclock[RestoreIdx])
         /\ mlclock'[RestoreIdx'] = mlclock[RestoreIdx]
         /\ CommittedSlot' = CommittedSlot /\ CommittedSlot \in 0..1
         /\ ActiveSlot' \in 0..1 /\ ActiveSlot' # CommittedSlot
         /\ (Inc(mlclock[RestoreIdx]) + 1) % 2 = CommittedSlot
         /\ Inc(mlclock[RestoreIdx]) % 2 = ActiveSlot'
<1>1. /\ lclock \in Nat /\ ActiveIdx \in 0..1 /\ RestoreIdx \in 0..1 /\ ActiveIdx # RestoreIdx
      /\ ActiveIdx' = ActiveIdx /\ RestoreIdx' = RestoreIdx
  BY MPatchAssumption, Slots DEF Clocks, ActiveIdx, RestoreIdx
<1> DEFINE c == mlclock[RestoreIdx]
<1>2. c \in 0..ClockMod-1 /\ c \in Nat
  BY <1>1, MPatchAssumption DEF Clocks
<1>3. Inc(c) \in 0..ClockMod-1 /\ Inc(c) \in Nat /\ Inc(c) % 2 = (c + 1) % 2
  BY <1>2, MPatchAssumption, Parity
<1>4. mlclock' = [mlclock EXCEPT ![ActiveIdx] = Inc(c)]
  BY DEF CoreRestore
<1>5. /\ mlclock' \in [0..1 -> 0..ClockMod-1]
      /\ mlclock'[ActiveIdx] = Inc(c) /\ mlclock'[RestoreIdx] = c
  BY <1>1, <1>3, <1>4 DEF Clocks
<1>6. /\ c % 2 \in 0..1 /\ (c + 1) % 2 \in 0..1 /\ c % 2 # (c + 1) % 2
      /\ (Inc(c) + 1) % 2 = c % 2
  BY <1>2, <1>3
<1> HIDE DEF c
<1>7. CommittedSlot' = CommittedSlot /\ CommittedSlot = c % 2 /\ ActiveSlot' = Inc(c) % 2
  BY <1>1, <1>5 DEF CommittedSlot, ActiveSlot, c
<1> QED
  BY <1>1, <1>3, <1>5, <1>6, <1>7 DEF c

\* Where the active slot is.
LEMMA SlotsApart ==
  ASSUME Clocks
  PROVE  /\ ActiveSlot \in 0..1 /\ CommittedSlot \in 0..1
         /\ pc \notin {"boot", "post"} => (ActiveSlot = CommittedSlot <=> pc = "reload")
<1>1. lclock \in Nat /\ ActiveIdx \in 0..1 /\ RestoreIdx \in 0..1
  BY MPatchAssumption, Slots DEF Clocks, ActiveIdx, RestoreIdx
<1>2. /\ mlclock[ActiveIdx] \in 0..ClockMod-1 /\ mlclock[ActiveIdx] \in Nat
      /\ mlclock[RestoreIdx] \in 0..ClockMod-1 /\ mlclock[RestoreIdx] \in Nat
  BY <1>1, MPatchAssumption DEF Clocks
<1>3. Inc(mlclock[RestoreIdx]) % 2 = (mlclock[RestoreIdx] + 1) % 2
  BY <1>2, MPatchAssumption, Parity
<1> QED
  BY <1>2, <1>3, Slots DEF Clocks, ActiveSlot, CommittedSlot

\* Control holds before the first boot.
LEMMA ControlInit == Init => Control
<1> SUFFICES ASSUME Init PROVE Control
  OBVIOUS
<1>1. Clocks
  BY MPatchAssumption DEF Init, Clocks
<1>2. Modes /\ Windows /\ Records
  BY DEF Init, Modes, Windows, Records, Open, Deleting, Sweep, Deletes, Recovers
<1> QED
  BY <1>1, <1>2 DEF Control

\* Every step keeps it: the order of the handlers alone decides the clocks, the
\* modes, the open windows and the deletion record.
LEMMA ControlStep == Sheltered /\ Control /\ [Next]_vars => Control'
<1> SUFFICES ASSUME Sheltered, Clocks, Modes, Windows, Records, [Next]_vars PROVE Control'
  BY DEF Control
<1> USE DEF Sweep, Deletes, Recovers, Open, Deleting
<1>1. ASSUME Setup
      PROVE  Control'
  <2>1. Clocks'
    <3>1. Inc(0) = 1 /\ 0 \in 0..ClockMod-1 /\ 1 \in 0..ClockMod-1
      BY MPatchAssumption DEF Inc
    <3>2. ActiveIdx' = 0 /\ RestoreIdx' = 1 /\ pc' # "reload"
      BY <1>1 DEF Setup, ActiveIdx, RestoreIdx
    <3>3. mlclock' = [i \in 0..1 |-> IF i = 0 THEN 1 ELSE 0] /\ lclock' = 0
      BY <1>1 DEF Setup
    <3> QED
      BY <3>1, <3>2, <3>3 DEF Clocks
  <2>2. Modes'
    BY <1>1 DEF Modes, Setup, nvmVars, walkVars, ghosts
  <2>3. Windows'
    BY <1>1 DEF Modes, Windows, Setup, nvmVars, walkVars, ghosts
  <2>4. Records'
    BY <1>1 DEF Records, Setup, nvmVars, walkVars, ghosts
  <2> QED
    BY <2>1, <2>2, <2>3, <2>4 DEF Control
<1>2. ASSUME StageAlloc
      PROVE  Control'
  <2>1. Clocks'
    BY <1>2 DEF Clocks, ActiveIdx, RestoreIdx, StageAlloc, nvmVars, walkVars, ghosts
  <2>2. Modes'
    BY <1>2 DEF Modes, StageAlloc, nvmVars, walkVars, ghosts
  <2>3. Windows'
    BY <1>2 DEF Modes, Windows, StageAlloc, nvmVars, walkVars, ghosts
  <2>4. Records'
    BY <1>2 DEF Records, StageAlloc, nvmVars, walkVars, ghosts
  <2> QED
    BY <2>1, <2>2, <2>3, <2>4 DEF Control
<1>3. ASSUME StageLink
      PROVE  Control'
  <2>1. Clocks'
    BY <1>3 DEF Clocks, ActiveIdx, RestoreIdx, StageLink, nvmVars, walkVars, ghosts
  <2>2. Modes'
    BY <1>3 DEF Modes, StageLink, nvmVars, walkVars, ghosts
  <2>3. Windows'
    BY <1>3 DEF Modes, Windows, StageLink, nvmVars, walkVars, ghosts
  <2>4. Records'
    BY <1>3 DEF Records, StageLink, nvmVars, walkVars, ghosts
  <2> QED
    BY <2>1, <2>2, <2>3, <2>4 DEF Control
<1>4. ASSUME StageRetry
      PROVE  Control'
  <2>1. Clocks'
    BY <1>4 DEF Clocks, ActiveIdx, RestoreIdx, StageRetry, nvmVars, walkVars, ghosts, StartWalk
  <2>2. Modes'
    BY <1>4 DEF Modes, StageRetry, nvmVars, walkVars, ghosts, StartWalk
  <2>3. Windows'
    BY <1>4 DEF Modes, Windows, StageRetry, nvmVars, walkVars, ghosts, StartWalk
  <2>4. Records'
    BY <1>4 DEF Records, StageRetry, nvmVars, walkVars, ghosts, StartWalk
  <2> QED
    BY <2>1, <2>2, <2>3, <2>4 DEF Control
<1>5. ASSUME StageHang
      PROVE  Control'
  <2>1. Clocks'
    BY <1>5 DEF Clocks, ActiveIdx, RestoreIdx, StageHang, nvmVars, walkVars, ghosts
  <2>2. Modes'
    BY <1>5 DEF Modes, StageHang, nvmVars, walkVars, ghosts
  <2>3. Windows'
    BY <1>5 DEF Modes, Windows, StageHang, nvmVars, walkVars, ghosts
  <2>4. Records'
    BY <1>5 DEF Records, StageHang, nvmVars, walkVars, ghosts
  <2> QED
    BY <2>1, <2>2, <2>3, <2>4 DEF Control
<1>6. ASSUME StageDone
      PROVE  Control'
  <2>1. Clocks'
    BY <1>6 DEF Clocks, ActiveIdx, RestoreIdx, StageDone, nvmVars, walkVars, ghosts
  <2>2. Modes'
    BY <1>6 DEF Modes, StageDone, nvmVars, walkVars, ghosts
  <2>3. Windows'
    BY <1>6 DEF Modes, Windows, StageDone, nvmVars, walkVars, ghosts
  <2>4. Records'
    BY <1>6 DEF Records, StageDone, nvmVars, walkVars, ghosts
  <2> QED
    BY <2>1, <2>2, <2>3, <2>4 DEF Control
<1>7. ASSUME Commit
      PROVE  Control'
  <2>1. Clocks'
    <3>1. Inc(lclock) \in 0..ClockMod-1
      BY MPatchAssumption, Parity DEF Clocks
    <3> QED
      BY <1>7, <3>1 DEF Clocks, Commit
  <2>2. Modes'
    BY <1>7 DEF Modes, Commit, nvmVars, walkVars, ghosts
  <2>3. Windows'
    BY <1>7 DEF Modes, Windows, Commit, nvmVars, walkVars, ghosts
  <2>4. Records'
    BY <1>7 DEF Records, Commit, nvmVars, walkVars, ghosts
  <2> QED
    BY <2>1, <2>2, <2>3, <2>4 DEF Control
<1>8. ASSUME PostCheckpoint
      PROVE  Control'
  <2>1. Clocks'
    <3>1. CoreRestore /\ lclock' = lclock /\ pc' # "reload"
      BY <1>8 DEF PostCheckpoint
    <3> QED
      BY <3>1, CoreRestoreClocks DEF Clocks
  <2>2. Modes'
    BY <1>8 DEF Modes, PostCheckpoint, nvmVars, walkVars, ghosts, CoreRestore
  <2>3. Windows'
    BY <1>8 DEF Modes, Windows, PostCheckpoint, nvmVars, walkVars, ghosts, CoreRestore
  <2>4. Records'
    BY <1>8 DEF Records, PostCheckpoint, nvmVars, walkVars, ghosts, CoreRestore
  <2> QED
    BY <2>1, <2>2, <2>3, <2>4 DEF Control
<1>9. ASSUME WalkPast
      PROVE  Control'
  <2>1. Clocks'
    BY <1>9 DEF Clocks, ActiveIdx, RestoreIdx, WalkPast, nvmVars, walkVars, ghosts, Advance
  <2>2. Modes'
    BY <1>9 DEF Modes, WalkPast, nvmVars, walkVars, ghosts, Advance
  <2>3. Windows'
    BY <1>9 DEF Modes, Windows, WalkPast, nvmVars, walkVars, ghosts, Advance
  <2>4. Records'
    BY <1>9 DEF Records, WalkPast, nvmVars, walkVars, ghosts, Advance
  <2> QED
    BY <2>1, <2>2, <2>3, <2>4 DEF Control
<1>10. ASSUME FreePatch
      PROVE  Control'
  <2>1. Clocks'
    BY <1>10 DEF Clocks, ActiveIdx, RestoreIdx, FreePatch, nvmVars, walkVars, ghosts, Advance
  <2>2. Modes'
    BY <1>10 DEF Modes, FreePatch, nvmVars, walkVars, ghosts, Advance
  <2>3. Windows'
    BY <1>10 DEF Modes, Windows, FreePatch, nvmVars, walkVars, ghosts, Advance
  <2>4. Records'
    BY <1>10 DEF Records, FreePatch, nvmVars, walkVars, ghosts, Advance
  <2> QED
    BY <2>1, <2>2, <2>3, <2>4 DEF Control
<1>11. ASSUME EndFree
      PROVE  Control'
  <2>1. Clocks'
    BY <1>11 DEF Clocks, ActiveIdx, RestoreIdx, EndFree, nvmVars, walkVars, ghosts, StartWalk
  <2>2. Modes'
    BY <1>11 DEF Modes, EndFree, nvmVars, walkVars, ghosts, StartWalk
  <2>3. Windows'
    BY <1>11 DEF Modes, Windows, EndFree, nvmVars, walkVars, ghosts, StartWalk
  <2>4. Records'
    BY <1>11 DEF Records, EndFree, nvmVars, walkVars, ghosts, StartWalk
  <2> QED
    BY <2>1, <2>2, <2>3, <2>4 DEF Control
<1>12. ASSUME SweepSave
      PROVE  Control'
  <2>1. Clocks'
    BY <1>12 DEF Clocks, ActiveIdx, RestoreIdx, SweepSave, nvmVars, walkVars, ghosts
  <2>2. Modes'
    BY <1>12 DEF Modes, SweepSave, nvmVars, walkVars, ghosts
  <2>3. Windows'
    BY <1>12 DEF Modes, Windows, SweepSave, nvmVars, walkVars, ghosts
  <2>4. Records'
    BY <1>12 DEF Records, SweepSave, nvmVars, walkVars, ghosts
  <2> QED
    BY <2>1, <2>2, <2>3, <2>4 DEF Control
<1>13. ASSUME SweepPublish
      PROVE  Control'
  <2>1. Clocks'
    BY <1>13 DEF Clocks, ActiveIdx, RestoreIdx, CoreRestore, SweepPublish, nvmVars,
       walkVars, ghosts
  <2>2. Modes'
    BY <1>13 DEF Modes, SweepPublish, nvmVars, walkVars, ghosts
  <2>3. Windows'
    BY <1>13 DEF Modes, Windows, SweepPublish, nvmVars, walkVars, ghosts
  <2>4. Records'
    BY <1>13 DEF Records, SweepPublish, nvmVars, walkVars, ghosts
  <2> QED
    BY <2>1, <2>2, <2>3, <2>4 DEF Control
<1>14. ASSUME SweepReload
      PROVE  Control'
  <2>1. Clocks'
    <3>1. CoreRestore /\ lclock' = lclock /\ pc' # "reload"
      BY <1>14 DEF SweepReload
    <3> QED
      BY <3>1, CoreRestoreClocks DEF Clocks
  <2>2. Modes'
    BY <1>14 DEF Modes, SweepReload, nvmVars, walkVars, ghosts, StartWalk, CoreRestore
  <2>3. Windows'
    BY <1>14 DEF Modes, Windows, SweepReload, nvmVars, walkVars, ghosts, StartWalk, CoreRestore
  <2>4. Records'
    BY <1>14 DEF Records, SweepReload, nvmVars, walkVars, ghosts, StartWalk, CoreRestore
  <2> QED
    BY <2>1, <2>2, <2>3, <2>4 DEF Control
<1>15. ASSUME PrepareDelete
      PROVE  Control'
  <2>1. Clocks'
    BY <1>15 DEF Clocks, ActiveIdx, RestoreIdx, PrepareDelete, nvmVars, walkVars, ghosts
  <2>2. Modes'
    BY <1>15 DEF Modes, PrepareDelete, nvmVars, walkVars, ghosts
  <2>3. Windows'
    BY <1>15 DEF Modes, Windows, PrepareDelete, nvmVars, walkVars, ghosts
  <2>4. Records'
    BY <1>15 DEF Records, PrepareDelete, nvmVars, walkVars, ghosts
  <2> QED
    BY <2>1, <2>2, <2>3, <2>4 DEF Control
<1>16. ASSUME PerformDelete
      PROVE  Control'
  <2>1. Clocks'
    BY <1>16 DEF Clocks, ActiveIdx, RestoreIdx, PerformDelete, nvmVars, walkVars, ghosts
  <2>2. Modes'
    BY <1>16 DEF Modes, PerformDelete, nvmVars, walkVars, ghosts
  <2>3. Windows'
    BY <1>16 DEF Modes, Windows, PerformDelete, nvmVars, walkVars, ghosts
  <2>4. Records'
    BY <1>16 DEF Records, PerformDelete, nvmVars, walkVars, ghosts
  <2> QED
    BY <2>1, <2>2, <2>3, <2>4 DEF Control
<1>17. ASSUME CommitDelete
      PROVE  Control'
  <2>1. Clocks'
    BY <1>17 DEF Clocks, ActiveIdx, RestoreIdx, CommitDelete, nvmVars, walkVars, ghosts
  <2>2. Modes'
    BY <1>17 DEF Modes, CommitDelete, nvmVars, walkVars, ghosts
  <2>3. Windows'
    BY <1>17 DEF Modes, Windows, CommitDelete, nvmVars, walkVars, ghosts
  <2>4. Records'
    BY <1>17 DEF Records, CommitDelete, nvmVars, walkVars, ghosts
  <2> QED
    BY <2>1, <2>2, <2>3, <2>4 DEF Control
<1>18. ASSUME EndDelete
      PROVE  Control'
  <2>1. Clocks'
    BY <1>18 DEF Clocks, ActiveIdx, RestoreIdx, EndDelete, nvmVars, walkVars, ghosts,
       StartWalk, NoWalk
  <2>2. Modes'
    BY <1>18 DEF Modes, EndDelete, nvmVars, walkVars, ghosts, StartWalk, NoWalk
  <2>3. Windows'
    BY <1>18 DEF Modes, Windows, EndDelete, nvmVars, walkVars, ghosts, StartWalk, NoWalk
  <2>4. Records'
    BY <1>18 DEF Records, EndDelete, nvmVars, walkVars, ghosts, StartWalk, NoWalk
  <2> QED
    BY <2>1, <2>2, <2>3, <2>4 DEF Control
<1>19. ASSUME BeginRestore
      PROVE  Control'
  <2>1. Clocks'
    <3>1. CoreRestore /\ lclock' = lclock /\ pc' # "reload"
      BY <1>19 DEF BeginRestore
    <3> QED
      BY <3>1, CoreRestoreClocks DEF Clocks
  <2>2. Modes'
    BY <1>19 DEF Modes, BeginRestore, nvmVars, walkVars, ghosts, CoreRestore
  <2>3. Windows'
    BY <1>19 DEF Modes, Windows, BeginRestore, nvmVars, walkVars, ghosts, CoreRestore
  <2>4. Records'
    BY <1>19 DEF Records, BeginRestore, nvmVars, walkVars, ghosts, CoreRestore
  <2> QED
    BY <2>1, <2>2, <2>3, <2>4 DEF Control
<1>20. ASSUME RecoverDelete
      PROVE  Control'
  <2>1. Clocks'
    BY <1>20 DEF Clocks, ActiveIdx, RestoreIdx, RecoverDelete, nvmVars, walkVars, ghosts
  <2>2. Modes'
    BY <1>20 DEF Modes, RecoverDelete, nvmVars, walkVars, ghosts
  <2>3. Windows'
    BY <1>20 DEF Modes, Windows, RecoverDelete, nvmVars, walkVars, ghosts
  <2>4. Records'
    BY <1>20 DEF Records, RecoverDelete, nvmVars, walkVars, ghosts
  <2> QED
    BY <2>1, <2>2, <2>3, <2>4 DEF Control
<1>21. ASSUME RecoverCommit
      PROVE  Control'
  <2>1. Clocks'
    BY <1>21 DEF Clocks, ActiveIdx, RestoreIdx, RecoverCommit, nvmVars, walkVars, ghosts
  <2>2. Modes'
    BY <1>21 DEF Modes, RecoverCommit, nvmVars, walkVars, ghosts
  <2>3. Windows'
    BY <1>21 DEF Modes, Windows, RecoverCommit, nvmVars, walkVars, ghosts
  <2>4. Records'
    BY <1>21 DEF Records, RecoverCommit, nvmVars, walkVars, ghosts
  <2> QED
    BY <2>1, <2>2, <2>3, <2>4 DEF Control
<1>22. ASSUME RecoverSweep
      PROVE  Control'
  <2>1. Clocks'
    BY <1>22 DEF Clocks, ActiveIdx, RestoreIdx, RecoverSweep, nvmVars, walkVars, ghosts,
       StartWalk
  <2>2. Modes'
    BY <1>22 DEF Modes, RecoverSweep, nvmVars, walkVars, ghosts, StartWalk
  <2>3. Windows'
    BY <1>22 DEF Modes, Windows, RecoverSweep, nvmVars, walkVars, ghosts, StartWalk
  <2>4. Records'
    BY <1>22 DEF Records, RecoverSweep, nvmVars, walkVars, ghosts, StartWalk
  <2> QED
    BY <2>1, <2>2, <2>3, <2>4 DEF Control
<1>23. ASSUME EndApply
      PROVE  Control'
  <2>1. Clocks'
    BY <1>23 DEF Clocks, ActiveIdx, RestoreIdx, EndApply, nvmVars, walkVars, ghosts, NoWalk
  <2>2. Modes'
    BY <1>23 DEF Modes, EndApply, nvmVars, walkVars, ghosts, NoWalk
  <2>3. Windows'
    BY <1>23 DEF Modes, Windows, EndApply, nvmVars, walkVars, ghosts, NoWalk
  <2>4. Records'
    BY <1>23 DEF Records, EndApply, nvmVars, walkVars, ghosts, NoWalk
  <2> QED
    BY <2>1, <2>2, <2>3, <2>4 DEF Control
<1>24. ASSUME NEW r \in Region, NEW v \in Value, Write(r, v)
      PROVE  Control'
  <2>1. Clocks'
    BY <1>24 DEF Clocks, ActiveIdx, RestoreIdx, Write, nvmVars, walkVars, ghosts
  <2>2. Modes'
    BY <1>24 DEF Modes, Write, nvmVars, walkVars, ghosts
  <2>3. Windows'
    BY <1>24 DEF Modes, Windows, Write, nvmVars, walkVars, ghosts
  <2>4. Records'
    BY <1>24 DEF Records, Write, nvmVars, walkVars, ghosts
  <2> QED
    BY <2>1, <2>2, <2>3, <2>4 DEF Control
<1>25. ASSUME BeginCheckpoint
      PROVE  Control'
  <2>1. Clocks'
    BY <1>25 DEF Clocks, ActiveIdx, RestoreIdx, BeginCheckpoint, nvmVars, walkVars, ghosts
  <2>2. Modes'
    BY <1>25 DEF Modes, BeginCheckpoint, nvmVars, walkVars, ghosts
  <2>3. Windows'
    BY <1>25 DEF Modes, Windows, BeginCheckpoint, nvmVars, walkVars, ghosts
  <2>4. Records'
    BY <1>25 DEF Records, BeginCheckpoint, nvmVars, walkVars, ghosts
  <2> QED
    BY <2>1, <2>2, <2>3, <2>4 DEF Control
<1>26. ASSUME PowerFail
      PROVE  Control'
  <2>1. Clocks'
    BY <1>26 DEF Clocks, ActiveIdx, RestoreIdx, PowerFail, nvmVars, walkVars, ghosts, NoWalk
  <2>2. Modes'
    BY <1>26 DEF Modes, PowerFail, nvmVars, walkVars, ghosts, NoWalk
  <2>3. Windows'
    BY <1>26 DEF Sheltered, Survivable, Modes, Windows, PowerFail, nvmVars, walkVars,
       ghosts, NoWalk
  <2>4. Records'
    BY <1>26 DEF Records, PowerFail, nvmVars, walkVars, ghosts, NoWalk
  <2> QED
    BY <2>1, <2>2, <2>3, <2>4 DEF Control
<1>27. CASE UNCHANGED vars
  BY <1>27 DEF Control, Clocks, Modes, Windows, Records, ActiveIdx, RestoreIdx, vars,
     nvmVars, walkVars, ghosts
<1> QED
  BY <1>1, <1>2, <1>3, <1>4, <1>5, <1>6, <1>7, <1>8, <1>9, <1>10, <1>11, <1>12, <1>13,
     <1>14, <1>15, <1>16, <1>17, <1>18, <1>19, <1>20, <1>21, <1>22, <1>23, <1>24, <1>25,
     <1>26, <1>27 DEF Next, Progress

-----------------------------------------------------------------------------
(* The chain: which patches are staged, which are committed, which blocks  *)
(* are free.                                                               *)
(*   U      the staged patches, the front of the chain in the active slot  *)
(*   V      those of them that a sweep has published                       *)
(*   K      the patches of the last checkpoint, behind U and behind V      *)
(*   af cf  the free lists of alloc and of the committed allocator         *)

\* The clock was c when the newest committed patch was staged, and i checkpoints
\* staged nothing since then.
Behind(c, i) == lclock = c + i + 1 \/ lclock + ClockMod = c + i + 1

\* Staged patches carry the clock of the checkpoint in progress; the newest
\* committed one does not, unless as many checkpoints as the clock counts found
\* nothing to stage.
Places(rk, U, V, K) ==
  /\ U \subseteq Block /\ V \subseteq U /\ K \subseteq Block /\ U \cap K = {}
  /\ \A u \in U : patch[u].stage_clock = lclock
  /\ \A u \in U, k \in K : rk[k] < rk[u]
  /\ \A h \in K : (\A k \in K : rk[k] <= rk[h]) =>
       Behind(patch[h].stage_clock, idle)
  /\ pc \in {"post"} \cup Recovers => U = V
  /\ pc \in {"run", "apply", "post"} => U = {}
  /\ Open => V = {}
  /\ mode = "uncommitted" /\ ~Open => U = V
  /\ Deleting => U = V

\* What a restore would find; while the uncommitted patches are being removed,
\* only the committed ones and the free list.
Committed(rk, V, K, cf) ==
  /\ IF available THEN Holds(patch, rk, K, golden, Region) ELSE K = {}
  /\ FreeList(bliss[CommittedSlot], next_free, cf)
  /\ ~Open => /\ Linked(patch, rk, V \cup K, origin[CommittedSlot])
              /\ \A b \in Block : b \in V \/ b \in K \/ In(b, cf)
              /\ \A b \in V : ~In(b, cf)
  /\ pc \notin Recovers => \A b \in K : In(b, cf) <=> Deleting /\ b \in doomed

\* What the program works on.
Active(rk, U, K, af) ==
  pc \notin {"boot", "post"} =>
    /\ Linked(patch, rk, U \cup K, origin[ActiveSlot])
    /\ FreeList(alloc, next_free, af)
    /\ bliss[CommittedSlot].n_initialized_blocks <= alloc.n_initialized_blocks
    /\ \A b \in Block : b \in U \/ b \in K \/ In(b, af) \/ b = new

\* A patch in the chain is free only while a deletion is under way.
Claimed(U, K, af, cf) ==
  pc \notin {"boot", "post"} =>
    \A b \in U \cup K : In(b, af) <=> IF pc \in Recovers THEN b \in K /\ In(b, cf)
                                                         ELSE b \in doomed

\* What a step is about to publish is what was saved.
Saved == pc \in {"commit", "publish", "reload"} => bliss[ActiveSlot] = alloc

Linking(rk, U, K, af) ==
  pc = "link" =>
    /\ new \in Block /\ new \notin U /\ new \notin K /\ ~In(new, af)
    /\ \A b \in U \cup K : rk[b] < rk[new]
    /\ patch[new].stage_clock = lclock

Checkpointing == \/ pc \in {"run", "stage", "link", "hung", "commit"}
                 \/ pc \in Sweep /\ mode = "obsolete"

\* The chain shows the memory but for the regions that are still to be staged,
\* and each region was staged once.
Staging(rk, U, K) ==
  Checkpointing =>
    /\ Holds(patch, rk, (U \cup K) \cup ({new} \cap Block), ram, Region \ dirty)
    /\ \A u \in U \cup ({new} \cap Block) : patch[u].region \notin dirty
    /\ \A u, w \in U \cup ({new} \cap Block) : patch[u].region = patch[w].region => u = w
    /\ pc \in {"stage", "commit"} => U # {} \/ dirty # {} \/ idle < IdleLimit
    /\ pc \in {"stage", "hung"} /\ retry => Hidden(patch, rk, K) = {}

\* The sweep frees the victims the walk has passed, then deletes them all.
Dooming(rk, U, K) ==
  /\ pc = "free" => doomed = IF mode = "uncommitted" THEN Passed(U, rk, at)
                             ELSE Passed(Hidden(patch, rk, K), rk, at)
  /\ pc \in Sweep \ {"free"} => doomed = IF mode = "uncommitted" THEN U
                                         ELSE Hidden(patch, rk, K)

\* Where a walk is and what it has seen.
Walking(rk, U, K) ==
  /\ pc \in {"free", "delete", "modify", "apply"} => at = Nil \/ at \in U \/ at \in K
  /\ pc \in {"free", "delete", "modify", "clear", "apply"} =>
       /\ skip <=> Passed(K, rk, at) = {}
       /\ seen = Regions(patch, Passed(K, rk, at))
  /\ pc = "apply" => \A r \in seen : ram[r] = golden[r]

\* A deletion: prev is the link to the patch, doomed patches lie ahead.
Unlinking(rk, U, K) ==
  /\ pc = "modify" => at \in doomed
  /\ pc = "clear" => /\ at \in Block /\ at \notin U /\ at \notin K
                     /\ Newest(Older(U \cup K, rk, at), rk, patch[at].next)
  /\ pc \in {"delete", "modify", "clear"} =>
       IF Passed(U \cup K, rk, at) = {} THEN prev = <<"origin", ActiveSlot>>
       ELSE \E w \in Passed(U \cup K, rk, at) :
              prev = <<"next", w>> /\ \A c \in Passed(U \cup K, rk, at) : rk[w] <= rk[c]
  /\ pc \in {"delete", "modify", "clear"} /\ mode = "uncommitted" =>
       Passed(U \cup K, rk, at) = {}
  /\ pc \in {"delete", "modify", "clear"} /\ mode = "obsolete" =>
       Passed(K, rk, at) \cap doomed = {}
  /\ pc = "clear" /\ mode = "obsolete" =>
       \E w \in U \cup K : /\ del = {<<<<"next", w>>, patch[at].next>>}
                           /\ patch[w].next = patch[at].next

\* The record of an interrupted deletion: none, of one that was done, or of one
\* that the recovery is to do.
Pending(rk, V, K, cf) ==
  pc \in Recovers =>
    \/ del = {} /\ \A b \in K : ~In(b, cf)
    \/ \E w \in V \cup K : /\ del = {<<<<"next", w>>, patch[w].next>>}
                           /\ \A b \in K : ~In(b, cf)
    \/ /\ pc # "recovered"
       /\ \E w \in V \cup K, x \in Hidden(patch, rk, K) :
            /\ del = {<<<<"next", w>>, patch[x].next>>}
            /\ patch[w].next = x
            /\ \A b \in K : In(b, cf) <=> b = x

Chained(t, rk, U, V, K, af, cf) ==
  /\ Ordered(t, rk)
  /\ Places(rk, U, V, K)
  /\ Committed(rk, V, K, cf)
  /\ Active(rk, U, K, af)
  /\ Claimed(U, K, af, cf)
  /\ Saved
  /\ Linking(rk, U, K, af)
  /\ Staging(rk, U, K)
  /\ Dooming(rk, U, K)
  /\ Walking(rk, U, K)
  /\ Unlinking(rk, U, K)
  /\ Pending(rk, V, K, cf)

\* Before the first commit a boot starts from nothing.
Unformed == pc = "boot" /\ ~available

MPatchInv ==
  /\ TypeOK /\ Control
  /\ ~Unformed => \E t, rk, U, V, K, af, cf : Chained(t, rk, U, V, K, af, cf)

-----------------------------------------------------------------------------
(* Walking along a chain.                                                  *)

\* A walk starts with everything ahead.
LEMMA StartsAhead ==
  ASSUME NEW t, NEW rk, Ordered(t, rk), NEW S \in SUBSET Block, NEW first, Newest(S, rk, first)
  PROVE  /\ first = Nil \/ first \in S
         /\ \A T : T \subseteq S => Passed(T, rk, first) = {}
<1>1. \A c \in S : rk[c] \in Nat
  BY DEF Ordered
<1>2. CASE S = {}
  BY <1>2 DEF Newest, Passed
<1>3. CASE S # {}
  <2>1. first \in S /\ first # Nil /\ \A c \in S : rk[c] <= rk[first]
    BY <1>3, NilNoBlock DEF Newest
  <2> QED
    BY <1>1, <2>1 DEF Passed, Newer
<1> QED
  BY <1>2, <1>3

\* Following the link of b passes b.
LEMMA Follow ==
  ASSUME NEW t, NEW rk, Ordered(t, rk), NEW S \in SUBSET Block, NEW b \in Block, NEW n,
         Newest(Older(S, rk, b), rk, n)
  PROVE  /\ n = Nil \/ n \in S
         /\ \A T : T \subseteq S => Passed(T, rk, n) = Passed(T, rk, b) \cup ({b} \cap T)
<1>1. b # Nil /\ \A c \in S : rk[c] \in Nat /\ c \in Block
  BY NilNoBlock DEF Ordered
<1>2. \A c \in S : rk[c] = rk[b] => c = b
  BY DEF Ordered
<1>3. rk[b] \in Nat
  BY DEF Ordered
<1>4. CASE Older(S, rk, b) = {}
  <2>1. n = Nil /\ \A c \in S : c = b \/ rk[b] < rk[c]
    BY <1>1, <1>2, <1>3, <1>4 DEF Newest, Older
  <2> QED
    BY <1>1, <2>1 DEF Passed, Newer
<1>5. CASE Older(S, rk, b) # {}
  <2>1. n \in S /\ n # Nil /\ rk[n] < rk[b] /\ \A c \in S : rk[c] < rk[b] => rk[c] <= rk[n]
    BY <1>5, NilNoBlock DEF Newest, Older
  <2>2. \A c \in S : rk[n] < rk[c] <=> c = b \/ rk[b] < rk[c]
    BY <1>1, <1>2, <1>3, <2>1
  <2> QED
    BY <1>1, <2>1, <2>2 DEF Passed, Newer
<1> QED
  BY <1>4, <1>5

\* Of a chain in two parts, a walk has passed what it has passed of each.
LEMMA PassedParts ==
  ASSUME NEW rk, NEW b, NEW S, NEW T
  PROVE  Passed(S \cup T, rk, b) = Passed(S, rk, b) \cup Passed(T, rk, b)
BY DEF Passed, Newer

\* A clock that is at most IdleLimit checkpoints behind is not the current one,
\* and stays as far behind when both move.
LEMMA ClockBehind ==
  ASSUME Sheltered, lclock \in 0..ClockMod-1, NEW c \in 0..ClockMod-1, NEW i \in 0..IdleLimit,
         Behind(c, i)
  PROVE  c # lclock
BY MPatchAssumption DEF Sheltered, Behind

\* A commit puts every clock one checkpoint further behind (checkpoint.c:96).
LEMMA ClockMoves ==
  ASSUME lclock \in 0..ClockMod-1, lclock' = Inc(lclock), NEW c \in 0..ClockMod-1, NEW i \in Nat
  PROVE  /\ c = lclock => Behind(c, 0)'
         /\ Behind(c, i) /\ i + 2 <= ClockMod => Behind(c, i + 1)'
<1>1. ClockMod \in Nat \ {0}
  BY MPatchAssumption
<1>2. lclock' = IF lclock + 1 < ClockMod THEN lclock + 1 ELSE 0
  <2>1. CASE lclock + 1 < ClockMod
    BY <1>1, <2>1 DEF Inc
  <2>2. CASE lclock + 1 = ClockMod
    BY <1>1, <2>2 DEF Inc
  <2> QED
    BY <1>1, <2>1, <2>2
<1> QED
  BY <1>1, <1>2 DEF Behind

\* The sets of a chain, typed.
LEMMA Sets ==
  ASSUME NEW t, NEW rk, NEW U, NEW V, NEW K, NEW af, NEW cf, Chained(t, rk, U, V, K, af, cf)
  PROVE  /\ Ordered(t, rk) /\ U \in SUBSET Block /\ V \in SUBSET Block /\ K \in SUBSET Block
         /\ V \subseteq U /\ U \cap K = {}
         /\ U \cup K \in SUBSET Block /\ V \cup K \in SUBSET Block
         /\ \A b \in Block : rk[b] \in Nat
         /\ \A u \in U, k \in K : rk[k] < rk[u]
BY DEF Chained, Places, Ordered

\* Where a walk is, in terms of the chain: it takes exactly the staged patches
\* for uncommitted (mpatch.c:497), and exactly the hidden ones of the others for
\* obsolete (mpatch.c:519).
LEMMA AtPatch ==
  ASSUME Sheltered, TypeOK, NEW t, NEW rk, NEW U, NEW V, NEW K, NEW af, NEW cf,
         Chained(t, rk, U, V, K, af, cf), pc \in {"free", "delete", "apply"}
  PROVE  /\ at = Nil \/ (at \in Block /\ at \in U \cup K)
         /\ Uncommitted <=> at \in U
         /\ Obsolete /\ at # Nil <=> at \in Hidden(patch, rk, K)
         /\ at # Nil => Newest(Older(U \cup K, rk, at), rk, patch[at].next)
<1>1. /\ Ordered(t, rk) /\ U \in SUBSET Block /\ K \in SUBSET Block /\ U \cap K = {}
      /\ \A b \in Block : rk[b] \in Nat
      /\ \A u \in U, k \in K : rk[k] < rk[u]
  BY Sets
<1>2. /\ at = Nil \/ at \in U \/ at \in K
      /\ skip <=> Passed(K, rk, at) = {}
      /\ seen = Regions(patch, Passed(K, rk, at))
  BY DEF Chained, Walking
<1>3. Nil \notin U /\ Nil \notin K
  BY <1>1, NilNoBlock
<1>4. ASSUME at \in U
      PROVE  Uncommitted
  <2>1. Passed(K, rk, at) = {}
    BY <1>1, <1>3, <1>4 DEF Passed, Newer
  <2>2. patch[at].stage_clock = lclock
    BY <1>4 DEF Chained, Places
  <2> QED
    BY <1>2, <1>3, <1>4, <2>1, <2>2 DEF Uncommitted
<1>5. ASSUME at \in K, Uncommitted
      PROVE  FALSE
  <2>1. Passed(K, rk, at) = {} /\ patch[at].stage_clock = lclock
    BY <1>2, <1>5 DEF Uncommitted
  <2>2. \A k \in K : rk[k] <= rk[at]
    BY <1>1, <1>3, <1>5, <2>1 DEF Passed, Newer
  <2>3. Behind(patch[at].stage_clock, idle)
    BY <1>5, <2>2 DEF Chained, Places
  <2>4. /\ lclock \in 0..ClockMod-1 /\ idle \in 0..IdleLimit
        /\ patch[at].stage_clock \in 0..ClockMod-1
    BY <1>1, <1>5 DEF TypeOK, Patch
  <2> QED
    BY <2>1, <2>3, <2>4, ClockBehind
<1>6. Uncommitted <=> at \in U
  BY <1>2, <1>4, <1>5 DEF Uncommitted
<1>7. ASSUME at \in K
      PROVE  Obsolete <=> at \in Hidden(patch, rk, K)
  <2>1. Obsolete <=> patch[at].region \in Regions(patch, Newer(K, rk, at))
    BY <1>1, <1>2, <1>3, <1>6, <1>7 DEF Obsolete, Passed
  <2> QED
    BY <1>7, <2>1 DEF Regions, Newer, Hidden
<1>8. Obsolete /\ at # Nil <=> at \in Hidden(patch, rk, K)
  BY <1>1, <1>2, <1>3, <1>6, <1>7 DEF Obsolete, Hidden
<1>9. at # Nil => Newest(Older(U \cup K, rk, at), rk, patch[at].next)
  BY <1>2 DEF Chained, Active, Linked
<1>10. at = Nil \/ (at \in Block /\ at \in U \cup K)
  <2>1. at = Nil \/ at \in U \/ at \in K
    BY <1>2
  <2>2. U \subseteq Block /\ K \subseteq Block
    BY <1>1
  <2> QED
    BY <2>1, <2>2
<1> QED
  BY <1>6, <1>8, <1>9, <1>10, Zenon

\* One patch further, in a walk that is at b.
LEMMA StepOn ==
  ASSUME Sheltered, TypeOK, NEW t, NEW rk, NEW U, NEW V, NEW K, NEW af, NEW cf,
         Chained(t, rk, U, V, K, af, cf), pc \in {"free", "delete", "apply"}, at # Nil
  PROVE  /\ patch[at].next \in U \cup K \cup {Nil} /\ patch[at].next \in Index
         /\ \A T : T \subseteq U \cup K =>
              Passed(T, rk, patch[at].next) = Passed(T, rk, at) \cup ({at} \cap T)
<1>1. /\ Ordered(t, rk) /\ U \cup K \in SUBSET Block /\ at \in Block
      /\ Newest(Older(U \cup K, rk, at), rk, patch[at].next)
  BY AtPatch, Sets
<1> DEFINE S == U \cup K
           n == patch[at].next
<1>2. /\ n = Nil \/ n \in S
      /\ \A T : T \subseteq S => Passed(T, rk, n) = Passed(T, rk, at) \cup ({at} \cap T)
  <2>1. S \in SUBSET Block /\ Newest(Older(S, rk, at), rk, n) /\ Ordered(t, rk) /\ at \in Block
    BY <1>1
  <2> HIDE DEF S, n
  <2>2. n = Nil \/ n \in S
    BY <2>1, Follow
  <2>3. ASSUME NEW T, T \subseteq S
        PROVE  Passed(T, rk, n) = Passed(T, rk, at) \cup ({at} \cap T)
    BY <2>1, <2>3, Follow
  <2> QED
    BY <2>2, <2>3
<1> QED
  BY <1>1, <1>2, NilNoBlock

-----------------------------------------------------------------------------
(* Free lists and new patches.                                             *)

\* The tail of a list without repetition, and a list with one more block.
LEMMA TailMembers ==
  ASSUME NEW s \in Seq(Block), s # <<>>, Once(s)
  PROVE  /\ Tail(s) \in Seq(Block) /\ Once(Tail(s)) /\ s[1] \in Block
         /\ ~In(s[1], Tail(s))
         /\ \A b : In(b, s) <=> b = s[1] \/ In(b, Tail(s))
<1>1. Len(s) \in Nat /\ Len(s) # 0
  BY EmptyIffNoLength
<1>2. /\ Tail(s) \in Seq(Block) /\ Len(Tail(s)) = Len(s) - 1 /\ s[1] \in Block
      /\ \A i \in 1..Len(s)-1 : Tail(s)[i] = s[i+1]
  BY <1>1
<1>3. Once(Tail(s)) /\ ~In(s[1], Tail(s))
  BY <1>1, <1>2 DEF Once, In
<1>4. ASSUME NEW b, In(b, s), b # s[1]
      PROVE  In(b, Tail(s))
  <2>1. PICK i \in 1..Len(s) : s[i] = b
    BY <1>4 DEF In
  <2>2. i - 1 \in 1..Len(Tail(s)) /\ Tail(s)[i-1] = b
    BY <1>1, <1>2, <1>4, <2>1
  <2> QED
    BY <2>2 DEF In
<1>5. ASSUME NEW b, In(b, Tail(s))
      PROVE  In(b, s)
  <2>1. PICK i \in 1..Len(Tail(s)) : Tail(s)[i] = b
    BY <1>5 DEF In
  <2>2. i + 1 \in 1..Len(s) /\ s[i+1] = b
    BY <1>1, <1>2, <2>1
  <2> QED
    BY <2>2 DEF In
<1>6. In(s[1], s)
  BY <1>1 DEF In
<1> QED
  BY <1>2, <1>3, <1>4, <1>5, <1>6

\* A block put before a list is one more member.
LEMMA ConsMembers ==
  ASSUME NEW s \in Seq(Block), NEW f \in Block
  PROVE  \A b : In(b, <<f>> \o s) <=> b = f \/ In(b, s)
<1>1. /\ Len(s) \in Nat /\ Len(<<f>> \o s) = Len(s) + 1 /\ (<<f>> \o s)[1] = f
      /\ \A i \in 1..Len(s) : (<<f>> \o s)[i+1] = s[i]
  OBVIOUS
<1> DEFINE c == <<f>> \o s
<1> HIDE DEF c
<1>2. /\ Len(c) = Len(s) + 1 /\ c[1] = f /\ \A i \in 1..Len(s) : c[i+1] = s[i]
  BY <1>1 DEF c
<1>3. In(f, c)
  BY <1>1, <1>2 DEF In
<1>4. ASSUME NEW b, In(b, s)
      PROVE  In(b, c)
  <2>1. PICK i \in 1..Len(s) : s[i] = b
    BY <1>4 DEF In
  <2>2. i + 1 \in 1..Len(c) /\ c[i+1] = b
    BY <1>1, <1>2, <2>1
  <2> QED
    BY <2>2 DEF In
<1>5. ASSUME NEW b, In(b, c), b # f
      PROVE  In(b, s)
  <2>1. PICK i \in 1..Len(c) : c[i] = b
    BY <1>5 DEF In
  <2>2. i - 1 \in 1..Len(s) /\ c[(i-1)+1] = s[i-1] /\ (i-1)+1 = i
    BY <1>1, <1>2, <1>5, <2>1
  <2> QED
    BY <2>1, <2>2 DEF In
<1>6. \A b : In(b, c) <=> b = f \/ In(b, s)
  BY <1>3, <1>4, <1>5
<1> QED
  BY <1>6 DEF c

\* bliss_alloc_block on a free list, and on the links of another one.
LEMMA TakeBlock ==
  ASSUME NEW a \in Allocator, NEW nf \in Links, NEW s, FreeList(a, nf, s), a.n_free_blocks > 0
  PROVE  /\ s # <<>> /\ s \in Seq(Block) /\ Once(s) /\ a.next_free_block = s[1]
         /\ InitNext(a, nf) \in Links /\ Pop(a, nf) \in Allocator
         /\ FreeList(Pop(a, nf), InitNext(a, nf), Tail(s))
         /\ a.n_initialized_blocks <= Pop(a, nf).n_initialized_blocks
<1>1. s \in Seq(Block) /\ Once(s) /\ ListOf(a, nf, s) /\ Fresh(a, s)
  BY DEF FreeList
<1>2. s # <<>>
  BY <1>1, EmptyIffNoLength DEF ListOf
<1>3. /\ InitNext(a, nf) \in Links /\ Pop(a, nf) \in Allocator
      /\ a.next_free_block = s[1]
      /\ ListOf(Pop(a, nf), InitNext(a, nf), Tail(s))
      /\ Fresh(Pop(a, nf), Tail(s))
      /\ a.n_initialized_blocks <= Pop(a, nf).n_initialized_blocks
  BY <1>1, <1>2, TakeKeeps, Zenon
<1>4. Tail(s) \in Seq(Block) /\ Once(Tail(s))
  BY <1>1, <1>2, TailMembers
<1> QED
  BY <1>1, <1>2, <1>3, <1>4 DEF FreeList

\* Allocating keeps the free list of the committed copy.
LEMMA TakeBlockOther ==
  ASSUME NEW a \in Allocator, NEW nf \in Links, NEW c \in Allocator, NEW s, FreeList(c, nf, s),
         c.n_initialized_blocks <= a.n_initialized_blocks
  PROVE  FreeList(c, InitNext(a, nf), s)
BY TakeKeepsOther DEF FreeList

\* bliss_free_block, likewise.
LEMMA GiveBlock ==
  ASSUME NEW a \in Allocator, NEW nf \in Links, NEW s, FreeList(a, nf, s),
         NEW f \in Block, ~In(f, s)
  PROVE  /\ FreeNext(a, nf, f) \in Links /\ Push(a, f) \in Allocator
         /\ FreeList(Push(a, f), FreeNext(a, nf, f), <<f>> \o s)
         /\ Push(a, f).n_initialized_blocks = a.n_initialized_blocks
<1>1. /\ FreeNext(a, nf, f) \in Links /\ Push(a, f) \in Allocator
      /\ <<f>> \o s \in Seq(Block) /\ Once(<<f>> \o s)
      /\ ListOf(Push(a, f), FreeNext(a, nf, f), <<f>> \o s)
      /\ Fresh(Push(a, f), <<f>> \o s)
  BY FreeKeeps, Zenon DEF FreeList
<1>2. Push(a, f).n_initialized_blocks = a.n_initialized_blocks
  BY DEF Push
<1> QED
  BY <1>1, <1>2 DEF FreeList

\* Freeing keeps it too, when the block is not free in that copy.
LEMMA GiveBlockOther ==
  ASSUME NEW a \in Allocator, NEW nf \in Links, NEW c \in Allocator, NEW s, FreeList(c, nf, s),
         NEW f \in Block, ~In(f, s)
  PROVE  FreeList(c, FreeNext(a, nf, f), s)
BY FreeKeepsOther DEF FreeList

\* A new patch is ranked above all.
LEMMA Raise ==
  ASSUME NEW t, NEW rk, Ordered(t, rk), NEW b \in Block
  PROVE  \E rk2 : /\ Ordered(t + 1, rk2)
                  /\ \A c \in Block : c # b => rk2[c] = rk[c] /\ rk2[c] < rk2[b]
<1> DEFINE rk2 == [rk EXCEPT ![b] = t]
<1>1. rk2 \in [Block -> Nat] /\ \A c \in Block : rk2[c] = IF c = b THEN t ELSE rk[c]
  BY DEF Ordered
<1>2. Ordered(t + 1, rk2)
  BY <1>1 DEF Ordered
<1>3. \A c \in Block : c # b => rk2[c] = rk[c] /\ rk2[c] < rk2[b]
  BY <1>1 DEF Ordered
<1> HIDE DEF rk2
<1> QED
  BY <1>2, <1>3

\* What is shown and hidden depends on the patches of the chain alone.
LEMMA ShownFrame ==
  ASSUME NEW p, NEW q, NEW rk, NEW rk2, NEW S,
         \A b \in S : q[b].region = p[b].region /\ q[b].data = p[b].data /\ rk2[b] = rk[b]
  PROVE  /\ Hidden(q, rk2, S) = Hidden(p, rk, S)
         /\ \A mem, R : Holds(p, rk, S, mem, R) => Holds(q, rk2, S, mem, R)
<1>1. Hidden(q, rk2, S) = Hidden(p, rk, S)
  BY DEF Hidden
<1>2. ASSUME NEW mem, NEW R, Holds(p, rk, S, mem, R)
      PROVE  Holds(q, rk2, S, mem, R)
  <2> SUFFICES ASSUME NEW r \in R
               PROVE  \E b \in S : /\ q[b].region = r /\ q[b].data = mem[r]
                                   /\ \A c \in S : q[c].region = r => rk2[c] <= rk2[b]
    BY DEF Holds
  <2>1. PICK b \in S : /\ p[b].region = r /\ p[b].data = mem[r]
                       /\ \A c \in S : p[c].region = r => rk[c] <= rk[b]
    BY <1>2 DEF Holds
  <2> QED
    BY <2>1
<1> QED
  BY <1>1, <1>2

\* A patch on top shows its own region.
LEMMA ShowsMore ==
  ASSUME NEW t, NEW rk, Ordered(t, rk), NEW p, NEW S \in SUBSET Block, NEW b \in Block \ S,
         \A c \in S : rk[c] < rk[b],
         NEW mem, NEW R, Holds(p, rk, S, mem, R), p[b].data = mem[p[b].region]
  PROVE  Holds(p, rk, S \cup {b}, mem, R \cup {p[b].region})
<1> SUFFICES ASSUME NEW r \in R \cup {p[b].region}
             PROVE  \E c \in S \cup {b} : /\ p[c].region = r /\ p[c].data = mem[r]
                                          /\ \A d \in S \cup {b} : p[d].region = r => rk[d] <= rk[c]
  BY DEF Holds
<1>1. \A c \in S \cup {b} : rk[c] \in Nat
  BY DEF Ordered
<1>2. CASE r = p[b].region
  BY <1>1, <1>2
<1>3. CASE r # p[b].region
  <2>1. PICK c \in S : /\ p[c].region = r /\ p[c].data = mem[r]
                       /\ \A d \in S : p[d].region = r => rk[d] <= rk[c]
    BY <1>3 DEF Holds
  <2> QED
    BY <1>3, <2>1
<1> QED
  BY <1>2, <1>3

\* mpatch_core_restore copies the committed slot to the active one.
LEMMA CoreRestoreCopies ==
  ASSUME TypeOK, Control, CoreRestore, UNCHANGED <<lclock, bliss>>
  PROVE  /\ CommittedSlot' = CommittedSlot
         /\ origin'[ActiveSlot'] = origin[CommittedSlot]
         /\ origin'[CommittedSlot'] = origin[CommittedSlot]
         /\ alloc' = bliss[CommittedSlot] /\ bliss[CommittedSlot] \in Allocator
         /\ bliss'[CommittedSlot'] = bliss[CommittedSlot]
         /\ mlclock' \in [0..1 -> 0..ClockMod-1] /\ origin' \in [0..1 -> Index]
         /\ ActiveSlot' \in 0..1
<1> DEFINE c == Inc(mlclock[RestoreIdx])
<1>1. /\ mlclock' \in [0..1 -> 0..ClockMod-1]
      /\ CommittedSlot' = CommittedSlot /\ CommittedSlot \in 0..1
      /\ ActiveSlot' \in 0..1 /\ ActiveSlot' # CommittedSlot
      /\ (c + 1) % 2 = CommittedSlot /\ c % 2 = ActiveSlot'
  BY CoreRestoreClocks DEF Control
<1>2. alloc' = bliss[(c + 1) % 2] /\ origin' = [origin EXCEPT ![c % 2] = origin[(c + 1) % 2]]
  BY DEF CoreRestore
<1> HIDE DEF c
<1>3. /\ alloc' = bliss[CommittedSlot]
      /\ origin' = [origin EXCEPT ![ActiveSlot'] = origin[CommittedSlot]]
  BY <1>1, <1>2
<1>4. origin \in [0..1 -> Index] /\ bliss \in [0..1 -> Allocator] /\ bliss' = bliss
  BY DEF TypeOK
<1> QED
  BY <1>1, <1>3, <1>4

\* The newest patch of K stays the newest when a hidden one goes.
LEMMA NewestStays ==
  ASSUME NEW t, NEW rk, Ordered(t, rk), NEW p, NEW K \in SUBSET Block, NEW x \in Hidden(p, rk, K),
         NEW h \in K \ {x}, \A k \in K \ {x} : rk[k] <= rk[h]
  PROVE  \A k \in K : rk[k] <= rk[h]
<1>1. \A c \in K : rk[c] \in Nat
  BY DEF Ordered
<1>2. PICK y \in K : rk[x] < rk[y] /\ x \in K
  BY DEF Hidden
<1>3. y # x
  BY <1>1, <1>2
<1> QED
  BY <1>1, <1>2, <1>3

\* A recorded deletion of an obsolete patch is a change of the link to it.
LEMMA Predecessor ==
  ASSUME TypeOK, NEW t, NEW rk, NEW U, NEW V, NEW K, NEW af, NEW cf,
         Chained(t, rk, U, V, K, af, cf), pc = "modify", mode = "obsolete"
  PROVE  /\ at \in Hidden(patch, rk, K) /\ at \in K /\ at \in Block
         /\ \E w \in U \cup K : prev = <<"next", w>> /\ patch[w].next = at
<1>1. /\ Ordered(t, rk) /\ U \cup K \in SUBSET Block /\ K \in SUBSET Block
      /\ \A b \in Block : rk[b] \in Nat
  BY Sets
<1>2. at \in doomed /\ doomed = Hidden(patch, rk, K)
  BY DEF Chained, Unlinking, Dooming, Sweep
<1>3. at \in Hidden(patch, rk, K) /\ at \in K /\ at \in Block
  BY <1>1, <1>2 DEF Hidden
<1>4. Passed(U \cup K, rk, at) = Newer(U \cup K, rk, at)
  BY <1>3, NilNoBlock DEF Passed
<1>5. Newer(U \cup K, rk, at) # {}
  BY <1>3 DEF Hidden, Newer
<1>6. PICK w \in Newer(U \cup K, rk, at) :
        prev = <<"next", w>> /\ \A c \in Newer(U \cup K, rk, at) : rk[w] <= rk[c]
  BY <1>4, <1>5 DEF Chained, Unlinking
<1>7. w \in U \cup K /\ rk[at] < rk[w]
  BY <1>6 DEF Newer
<1>8. Newest(Older(U \cup K, rk, w), rk, patch[w].next)
  BY <1>7 DEF Chained, Active, Linked
<1>9. Newest(Older(U \cup K, rk, w), rk, at)
  <2>1. at \in Older(U \cup K, rk, w)
    BY <1>3, <1>7 DEF Older
  <2>2. ASSUME NEW c \in Older(U \cup K, rk, w)
        PROVE  rk[c] <= rk[at]
    BY <1>1, <1>3, <1>6, <1>7 DEF Older, Newer
  <2> QED
    BY <2>1, <2>2 DEF Newest
<1>10. patch[w].next = at
  <2>1. Older(U \cup K, rk, w) \in SUBSET Block
    BY <1>1 DEF Older
  <2> QED
    BY <1>1, <1>8, <1>9, <2>1, NewestUnique
<1> QED
  BY <1>3, <1>6, <1>7, <1>10

-----------------------------------------------------------------------------
(* Running and staging: steps that leave the chain as it is.               *)

\* The game writes a region.
LEMMA WriteStep ==
  ASSUME Sheltered, Control, Control', TypeOK, NEW t, NEW rk, NEW U, NEW V, NEW K, NEW af, NEW cf,
         Chained(t, rk, U, V, K, af, cf), NEW r \in Region, NEW v \in Value, Write(r, v)
  PROVE  TypeOK' /\ Chained(t, rk, U, V, K, af, cf)'
<1> USE DEF Sweep, Deletes, Recovers, Open, Deleting, Checkpointing
<1>1. /\ pc = "run"
      /\ ram' = [ram EXCEPT ![r] = v]
      /\ dirty' = dirty \cup {r}
      /\ UNCHANGED <<lclock, mlclock, origin, bliss, next_free, patch, del, available,
                     alloc, new, retry, mode, at, prev, skip, seen, pc, golden, idle,
                     doomed, window>>
  BY DEF Write, nvmVars, walkVars, ghosts
<1>2. ActiveSlot' = ActiveSlot /\ CommittedSlot' = CommittedSlot
  BY <1>1 DEF ActiveSlot, CommittedSlot, ActiveIdx, RestoreIdx
<1>3. TypeOK'
  <2>1. ram' \in Memory
    BY <1>1 DEF TypeOK, Memory
  <2>2. dirty' \subseteq Region
    BY <1>1 DEF TypeOK
  <2> QED
    BY <1>1, <2>1, <2>2 DEF TypeOK
<1>4. Ordered(t, rk)
  BY DEF Chained
<1>5. Places(rk, U, V, K)'
  BY <1>1, <1>2 DEF Chained, Control, Modes, Windows, Records, Places, Behind
<1>6. Committed(rk, V, K, cf)'
  BY <1>1, <1>2 DEF Chained, Control, Modes, Windows, Records, Committed
<1>7. Active(rk, U, K, af)'
  BY <1>1, <1>2 DEF Chained, Control, Modes, Windows, Records, Active
<1>8. Claimed(U, K, af, cf)'
  BY <1>1, <1>2 DEF Chained, Control, Modes, Windows, Records, Claimed
<1>9. Saved'
  BY <1>1, <1>2 DEF Chained, Control, Modes, Windows, Records, Saved
<1>10. Linking(rk, U, K, af)'
  BY <1>1, <1>2 DEF Chained, Control, Modes, Windows, Records, Linking
<1>11. Staging(rk, U, K)'
  <2>1. U = {} /\ new = Nil
    BY <1>1 DEF Chained, Places, Control, Modes
  <2>2. {new} \cap Block = {}
    BY <2>1, NilNoBlock
  <2>3. Holds(patch, rk, (U \cup K) \cup ({new} \cap Block), ram, Region \ dirty)
    BY <1>1 DEF Chained, Staging
  <2>4. \A q \in Region \ dirty' : q \in Region \ dirty /\ ram'[q] = ram[q]
    BY <1>1 DEF TypeOK, Memory
  <2>5. Holds(patch, rk, (U \cup K) \cup ({new} \cap Block), ram', Region \ dirty')
    BY <2>3, <2>4 DEF Holds
  <2> QED
    BY <1>1, <2>1, <2>2, <2>5 DEF Staging
<1>12. Dooming(rk, U, K)'
  BY <1>1, <1>2 DEF Chained, Control, Modes, Windows, Records, Dooming
<1>13. Walking(rk, U, K)'
  BY <1>1, <1>2 DEF Chained, Control, Modes, Windows, Records, Walking
<1>14. Unlinking(rk, U, K)'
  BY <1>1, <1>2 DEF Chained, Control, Modes, Windows, Records, Unlinking
<1>15. Pending(rk, V, K, cf)'
  BY <1>1, <1>2 DEF Chained, Control, Modes, Windows, Records, Pending
<1> QED
  BY <1>3, <1>4, <1>5, <1>6, <1>7, <1>8, <1>9,
     <1>10, <1>11, <1>12, <1>13, <1>14, <1>15 DEF Chained

\* A checkpoint begins.
LEMMA BeginCheckpointStep ==
  ASSUME Sheltered, Control, Control', TypeOK, NEW t, NEW rk, NEW U, NEW V, NEW K, NEW af, NEW cf,
         Chained(t, rk, U, V, K, af, cf), BeginCheckpoint
  PROVE  TypeOK' /\ Chained(t, rk, U, V, K, af, cf)'
<1> USE DEF Sweep, Deletes, Recovers, Open, Deleting, Checkpointing
<1>1. /\ pc = "run"
      /\ dirty = {} => idle < IdleLimit
      /\ pc' = "stage"
      /\ UNCHANGED <<lclock, mlclock, origin, bliss, next_free, patch, del, available,
                     alloc, ram, dirty, new, retry, mode, at, prev, skip, seen,
                     golden, idle, doomed, window>>
  BY DEF BeginCheckpoint, nvmVars, walkVars, ghosts
<1>2. ActiveSlot' = ActiveSlot /\ CommittedSlot' = CommittedSlot
  BY <1>1 DEF ActiveSlot, CommittedSlot, ActiveIdx, RestoreIdx
<1>3. TypeOK'
  BY <1>1 DEF TypeOK
<1>4. Ordered(t, rk)
  BY DEF Chained
<1>5. Places(rk, U, V, K)'
  BY <1>1, <1>2 DEF Chained, Control, Modes, Windows, Records, Places, Behind
<1>6. Committed(rk, V, K, cf)'
  BY <1>1, <1>2 DEF Chained, Control, Modes, Windows, Records, Committed
<1>7. Active(rk, U, K, af)'
  BY <1>1, <1>2 DEF Chained, Control, Modes, Windows, Records, Active
<1>8. Claimed(U, K, af, cf)'
  BY <1>1, <1>2 DEF Chained, Control, Modes, Windows, Records, Claimed
<1>9. Saved'
  BY <1>1, <1>2 DEF Chained, Control, Modes, Windows, Records, Saved
<1>10. Linking(rk, U, K, af)'
  BY <1>1, <1>2 DEF Chained, Control, Modes, Windows, Records, Linking
<1>11. Staging(rk, U, K)'
  BY <1>1, <1>2 DEF Chained, Control, Modes, Windows, Records, Staging
<1>12. Dooming(rk, U, K)'
  BY <1>1, <1>2 DEF Chained, Control, Modes, Windows, Records, Dooming
<1>13. Walking(rk, U, K)'
  BY <1>1, <1>2 DEF Chained, Control, Modes, Windows, Records, Walking
<1>14. Unlinking(rk, U, K)'
  BY <1>1, <1>2 DEF Chained, Control, Modes, Windows, Records, Unlinking
<1>15. Pending(rk, V, K, cf)'
  BY <1>1, <1>2 DEF Chained, Control, Modes, Windows, Records, Pending
<1> QED
  BY <1>3, <1>4, <1>5, <1>6, <1>7, <1>8, <1>9,
     <1>10, <1>11, <1>12, <1>13, <1>14, <1>15 DEF Chained

\* No block is left after the second try (mpatch.c:334).
LEMMA StageHangStep ==
  ASSUME Sheltered, Control, Control', TypeOK, NEW t, NEW rk, NEW U, NEW V, NEW K, NEW af, NEW cf,
         Chained(t, rk, U, V, K, af, cf), StageHang
  PROVE  TypeOK' /\ Chained(t, rk, U, V, K, af, cf)'
<1> USE DEF Sweep, Deletes, Recovers, Open, Deleting, Checkpointing
<1>1. /\ pc = "stage"
      /\ dirty # {}
      /\ retry
      /\ alloc.n_free_blocks = 0
      /\ pc' = "hung"
      /\ UNCHANGED <<lclock, mlclock, origin, bliss, next_free, patch, del, available,
                     alloc, ram, dirty, new, retry, mode, at, prev, skip, seen,
                     golden, idle, doomed, window>>
  BY DEF StageHang, nvmVars, walkVars, ghosts
<1>2. ActiveSlot' = ActiveSlot /\ CommittedSlot' = CommittedSlot
  BY <1>1 DEF ActiveSlot, CommittedSlot, ActiveIdx, RestoreIdx
<1>3. TypeOK'
  BY <1>1 DEF TypeOK
<1>4. Ordered(t, rk)
  BY DEF Chained
<1>5. Places(rk, U, V, K)'
  BY <1>1, <1>2 DEF Chained, Control, Modes, Windows, Records, Places, Behind
<1>6. Committed(rk, V, K, cf)'
  BY <1>1, <1>2 DEF Chained, Control, Modes, Windows, Records, Committed
<1>7. Active(rk, U, K, af)'
  BY <1>1, <1>2 DEF Chained, Control, Modes, Windows, Records, Active
<1>8. Claimed(U, K, af, cf)'
  BY <1>1, <1>2 DEF Chained, Control, Modes, Windows, Records, Claimed
<1>9. Saved'
  BY <1>1, <1>2 DEF Chained, Control, Modes, Windows, Records, Saved
<1>10. Linking(rk, U, K, af)'
  BY <1>1, <1>2 DEF Chained, Control, Modes, Windows, Records, Linking
<1>11. Staging(rk, U, K)'
  BY <1>1, <1>2 DEF Chained, Control, Modes, Windows, Records, Staging
<1>12. Dooming(rk, U, K)'
  BY <1>1, <1>2 DEF Chained, Control, Modes, Windows, Records, Dooming
<1>13. Walking(rk, U, K)'
  BY <1>1, <1>2 DEF Chained, Control, Modes, Windows, Records, Walking
<1>14. Unlinking(rk, U, K)'
  BY <1>1, <1>2 DEF Chained, Control, Modes, Windows, Records, Unlinking
<1>15. Pending(rk, V, K, cf)'
  BY <1>1, <1>2 DEF Chained, Control, Modes, Windows, Records, Pending
<1> QED
  BY <1>3, <1>4, <1>5, <1>6, <1>7, <1>8, <1>9,
     <1>10, <1>11, <1>12, <1>13, <1>14, <1>15 DEF Chained

\* No block is left: the sweep starts at the newest patch, with nothing passed
\* (mpatch.c:321).
LEMMA StageRetryStep ==
  ASSUME Sheltered, Control, Control', TypeOK, NEW t, NEW rk, NEW U, NEW V, NEW K, NEW af, NEW cf,
         Chained(t, rk, U, V, K, af, cf), StageRetry
  PROVE  TypeOK' /\ Chained(t, rk, U, V, K, af, cf)'
<1> USE DEF Sweep, Deletes, Recovers, Open, Deleting, Checkpointing
<1>1. /\ pc = "stage"
      /\ dirty # {}
      /\ retry' = TRUE
      /\ mode' = "obsolete"
      /\ pc' = "free"
      /\ at' = origin[ActiveSlot]
      /\ prev' = <<"origin", ActiveSlot>>
      /\ skip' = TRUE
      /\ seen' = {}
      /\ UNCHANGED <<lclock, mlclock, origin, bliss, next_free, patch, del, available,
                     alloc, ram, dirty, new, golden, idle, doomed, window>>
  BY DEF StageRetry, StartWalk, nvmVars, walkVars, ghosts
<1>2. ActiveSlot' = ActiveSlot /\ CommittedSlot' = CommittedSlot
  BY <1>1 DEF ActiveSlot, CommittedSlot, ActiveIdx, RestoreIdx
<1>3. ActiveSlot \in 0..1
  BY SlotsApart DEF Control
<1>4. /\ Ordered(t, rk) /\ U \cup K \in SUBSET Block /\ K \subseteq U \cup K
  BY Sets
<1>5. Newest(U \cup K, rk, at') /\ Hidden(patch, rk, K) \subseteq U \cup K
  BY <1>1 DEF Chained, Active, Linked, Hidden
<1>6. /\ at' = Nil \/ at' \in U \/ at' \in K
      /\ Passed(K, rk, at') = {} /\ Passed(Hidden(patch, rk, K), rk, at') = {}
  <2>1. at' = Nil \/ at' \in U \cup K
    BY <1>5, <1>4, StartsAhead
  <2>2. Passed(K, rk, at') = {}
    BY <1>5, <1>4, StartsAhead
  <2>3. Passed(Hidden(patch, rk, K), rk, at') = {}
    BY <1>5, <1>4, StartsAhead
  <2> QED
    BY <2>1, <2>2, <2>3
<1>7. TypeOK'
  <2>1. at' \in Index
    BY <1>1, <1>3 DEF TypeOK
  <2>2. prev' \in Pointer
    BY <1>1, <1>3, BlocksAssumption DEF Pointer, Index
  <2> QED
    BY <1>1, <2>1, <2>2 DEF TypeOK
<1>8. Ordered(t, rk)
  BY DEF Chained
<1>9. Places(rk, U, V, K)'
  BY <1>1, <1>2 DEF Chained, Control, Modes, Windows, Records, Places, Behind
<1>10. Committed(rk, V, K, cf)'
  BY <1>1, <1>2 DEF Chained, Control, Modes, Windows, Records, Committed
<1>11. Active(rk, U, K, af)'
  BY <1>1, <1>2 DEF Chained, Control, Modes, Windows, Records, Active
<1>12. Claimed(U, K, af, cf)'
  BY <1>1, <1>2 DEF Chained, Control, Modes, Windows, Records, Claimed
<1>13. Saved'
  BY <1>1, <1>2 DEF Chained, Control, Modes, Windows, Records, Saved
<1>14. Linking(rk, U, K, af)'
  BY <1>1, <1>2 DEF Chained, Control, Modes, Windows, Records, Linking
<1>15. Staging(rk, U, K)'
  BY <1>1, <1>2 DEF Chained, Control, Modes, Windows, Records, Staging
<1>16. Dooming(rk, U, K)'
  <2>1. doomed = {}
    BY <1>1 DEF Control, Windows
  <2> QED
    BY <1>1, <1>6, <2>1 DEF Dooming
<1>17. Walking(rk, U, K)'
  <2>1. Regions(patch, {}) = {}
    BY DEF Regions
  <2> QED
    BY <1>1, <1>6, <2>1 DEF Walking
<1>18. Unlinking(rk, U, K)'
  BY <1>1, <1>2 DEF Chained, Control, Modes, Windows, Records, Unlinking
<1>19. Pending(rk, V, K, cf)'
  BY <1>1, <1>2 DEF Chained, Control, Modes, Windows, Records, Pending
<1> QED
  BY <1>7, <1>8, <1>9, <1>10, <1>11, <1>12, <1>13,
     <1>14, <1>15, <1>16, <1>17, <1>18, <1>19 DEF Chained

\* Everything is staged: the allocator is saved in the active slot (mpatch.c:205).
LEMMA StageDoneStep ==
  ASSUME Sheltered, Control, Control', TypeOK, NEW t, NEW rk, NEW U, NEW V, NEW K, NEW af, NEW cf,
         Chained(t, rk, U, V, K, af, cf), StageDone
  PROVE  TypeOK' /\ Chained(t, rk, U, V, K, af, cf)'
<1> USE DEF Sweep, Deletes, Recovers, Open, Deleting, Checkpointing
<1>1. /\ pc = "stage"
      /\ dirty = {}
      /\ retry' = FALSE
      /\ bliss' = [bliss EXCEPT ![ActiveSlot] = alloc]
      /\ pc' = "commit"
      /\ UNCHANGED <<lclock, mlclock, origin, next_free, patch, del, available, alloc,
                     ram, dirty, new, mode, at, prev, skip, seen, golden, idle,
                     doomed, window>>
  BY DEF StageDone, nvmVars, walkVars, ghosts
<1>2. ActiveSlot' = ActiveSlot /\ CommittedSlot' = CommittedSlot
  BY <1>1 DEF ActiveSlot, CommittedSlot, ActiveIdx, RestoreIdx
<1>3. bliss'[CommittedSlot] = bliss[CommittedSlot] /\ bliss'[ActiveSlot] = alloc
  <2>1. ActiveSlot \in 0..1 /\ CommittedSlot \in 0..1 /\ ActiveSlot # CommittedSlot
    BY <1>1, SlotsApart DEF Control
  <2> QED
    BY <1>1, <2>1 DEF TypeOK
<1>4. TypeOK'
  BY <1>1 DEF TypeOK
<1>5. Ordered(t, rk)
  BY DEF Chained
<1>6. Places(rk, U, V, K)'
  BY <1>1, <1>2 DEF Chained, Control, Modes, Windows, Records, Places, Behind
<1>7. Committed(rk, V, K, cf)'
  BY <1>1, <1>2, <1>3 DEF Chained, Control, Modes, Windows, Committed
<1>8. Active(rk, U, K, af)'
  BY <1>1, <1>2, <1>3 DEF Chained, Control, Modes, Active
<1>9. Claimed(U, K, af, cf)'
  BY <1>1, <1>2 DEF Chained, Control, Modes, Windows, Records, Claimed
<1>10. Saved'
  BY <1>1, <1>2, <1>3 DEF Saved
<1>11. Linking(rk, U, K, af)'
  BY <1>1, <1>2 DEF Chained, Control, Modes, Windows, Records, Linking
<1>12. Staging(rk, U, K)'
  BY <1>1, <1>2 DEF Chained, Control, Modes, Windows, Records, Staging
<1>13. Dooming(rk, U, K)'
  BY <1>1, <1>2 DEF Chained, Control, Modes, Windows, Records, Dooming
<1>14. Walking(rk, U, K)'
  BY <1>1, <1>2 DEF Chained, Control, Modes, Windows, Records, Walking
<1>15. Unlinking(rk, U, K)'
  BY <1>1, <1>2 DEF Chained, Control, Modes, Windows, Records, Unlinking
<1>16. Pending(rk, V, K, cf)'
  BY <1>1, <1>2 DEF Chained, Control, Modes, Windows, Records, Pending
<1> QED
  BY <1>4, <1>5, <1>6, <1>7, <1>8, <1>9, <1>10,
     <1>11, <1>12, <1>13, <1>14, <1>15, <1>16 DEF Chained

\* The same, for what a sweep has freed.
LEMMA SweepSaveStep ==
  ASSUME Sheltered, Control, Control', TypeOK, NEW t, NEW rk, NEW U, NEW V, NEW K, NEW af, NEW cf,
         Chained(t, rk, U, V, K, af, cf), SweepSave
  PROVE  TypeOK' /\ Chained(t, rk, U, V, K, af, cf)'
<1> USE DEF Sweep, Deletes, Recovers, Open, Deleting, Checkpointing
<1>1. /\ pc = "save"
      /\ bliss' = [bliss EXCEPT ![ActiveSlot] = alloc]
      /\ pc' = "publish"
      /\ UNCHANGED <<lclock, mlclock, origin, next_free, patch, del, available, alloc,
                     ram, dirty, new, retry, mode, at, prev, skip, seen, golden, idle,
                     doomed, window>>
  BY DEF SweepSave, nvmVars, walkVars, ghosts
<1>2. ActiveSlot' = ActiveSlot /\ CommittedSlot' = CommittedSlot
  BY <1>1 DEF ActiveSlot, CommittedSlot, ActiveIdx, RestoreIdx
<1>3. bliss'[CommittedSlot] = bliss[CommittedSlot] /\ bliss'[ActiveSlot] = alloc
  <2>1. ActiveSlot \in 0..1 /\ CommittedSlot \in 0..1 /\ ActiveSlot # CommittedSlot
    BY <1>1, SlotsApart DEF Control
  <2> QED
    BY <1>1, <2>1 DEF TypeOK
<1>4. TypeOK'
  BY <1>1 DEF TypeOK
<1>5. Ordered(t, rk)
  BY DEF Chained
<1>6. Places(rk, U, V, K)'
  BY <1>1, <1>2 DEF Chained, Control, Modes, Windows, Records, Places, Behind
<1>7. Committed(rk, V, K, cf)'
  BY <1>1, <1>2, <1>3 DEF Chained, Control, Modes, Windows, Committed
<1>8. Active(rk, U, K, af)'
  BY <1>1, <1>2, <1>3 DEF Chained, Control, Modes, Active
<1>9. Claimed(U, K, af, cf)'
  BY <1>1, <1>2 DEF Chained, Control, Modes, Windows, Records, Claimed
<1>10. Saved'
  BY <1>1, <1>2, <1>3 DEF Saved
<1>11. Linking(rk, U, K, af)'
  BY <1>1, <1>2 DEF Chained, Control, Modes, Windows, Records, Linking
<1>12. Staging(rk, U, K)'
  BY <1>1, <1>2 DEF Chained, Control, Modes, Windows, Records, Staging
<1>13. Dooming(rk, U, K)'
  BY <1>1, <1>2 DEF Chained, Control, Modes, Windows, Records, Dooming
<1>14. Walking(rk, U, K)'
  BY <1>1, <1>2 DEF Chained, Control, Modes, Windows, Records, Walking
<1>15. Unlinking(rk, U, K)'
  BY <1>1, <1>2 DEF Chained, Control, Modes, Windows, Records, Unlinking
<1>16. Pending(rk, V, K, cf)'
  BY <1>1, <1>2 DEF Chained, Control, Modes, Windows, Records, Pending
<1> QED
  BY <1>4, <1>5, <1>6, <1>7, <1>8, <1>9, <1>10,
     <1>11, <1>12, <1>13, <1>14, <1>15, <1>16 DEF Chained

-----------------------------------------------------------------------------
(* The ends of the recovery, of a restore and of the two passes.           *)

\* The recovery's sweep starts at the newest patch (mpatch.c:716).
LEMMA RecoverSweepStep ==
  ASSUME Sheltered, Control, Control', TypeOK, NEW t, NEW rk, NEW U, NEW V, NEW K, NEW af, NEW cf,
         Chained(t, rk, U, V, K, af, cf), RecoverSweep
  PROVE  TypeOK' /\ Chained(t, rk, U, V, K, af, cf)'
<1> USE DEF Sweep, Deletes, Recovers, Open, Deleting, Checkpointing
<1>1. /\ pc = "recover"
      /\ pc' = "free"
      /\ del = {}
      /\ mode' = "uncommitted"
      /\ at' = origin[ActiveSlot]
      /\ prev' = <<"origin", ActiveSlot>>
      /\ skip' = TRUE
      /\ seen' = {}
      /\ UNCHANGED <<lclock, mlclock, origin, bliss, next_free, patch, del, available,
                     alloc, ram, dirty, new, retry, golden, idle, doomed, window>>
  BY DEF RecoverSweep, StartWalk, nvmVars, walkVars, ghosts
<1>2. ActiveSlot' = ActiveSlot /\ CommittedSlot' = CommittedSlot
  BY <1>1 DEF ActiveSlot, CommittedSlot, ActiveIdx, RestoreIdx
<1>3. /\ Ordered(t, rk) /\ U \cup K \in SUBSET Block /\ K \subseteq U \cup K /\ U \subseteq U \cup K
  BY Sets
<1>4. Newest(U \cup K, rk, origin[ActiveSlot])
  BY <1>1 DEF Chained, Active, Linked
<1>5. /\ origin[ActiveSlot] = Nil \/ origin[ActiveSlot] \in U \/ origin[ActiveSlot] \in K
      /\ Passed(K, rk, origin[ActiveSlot]) = {} /\ Passed(U, rk, origin[ActiveSlot]) = {}
  <2>1. origin[ActiveSlot] = Nil \/ origin[ActiveSlot] \in U \cup K
    BY <1>4, <1>3, StartsAhead
  <2>2. Passed(K, rk, origin[ActiveSlot]) = {}
    BY <1>4, <1>3, StartsAhead
  <2>3. Passed(U, rk, origin[ActiveSlot]) = {}
    BY <1>4, <1>3, StartsAhead
  <2> QED
    BY <2>1, <2>2, <2>3
<1>6. origin[ActiveSlot] \in Index /\ <<"origin", ActiveSlot>> \in Pointer
  <2>1. ActiveSlot \in 0..1
    BY SlotsApart DEF Control
  <2> QED
    BY <2>1, BlocksAssumption DEF TypeOK, Pointer, Index
<1>7. Regions(patch, {}) = {}
  BY DEF Regions
<1>8. doomed = {} /\ \A b \in K : ~In(b, cf)
  BY <1>1 DEF Chained, Pending, Control, Windows
<1>9. TypeOK'
  BY <1>1, <1>6 DEF TypeOK
<1>10. Ordered(t, rk)
  BY DEF Chained
<1>11. Places(rk, U, V, K)'
  BY <1>1, <1>2 DEF Chained, Control, Modes, Windows, Records, Places, Behind
<1>12. Committed(rk, V, K, cf)'
  BY <1>1, <1>2, <1>8 DEF Chained, Committed
<1>13. Active(rk, U, K, af)'
  BY <1>1, <1>2 DEF Chained, Control, Modes, Windows, Records, Active
<1>14. Claimed(U, K, af, cf)'
  BY <1>1, <1>8 DEF Chained, Claimed
<1>15. Saved'
  BY <1>1, <1>2 DEF Chained, Control, Modes, Windows, Records, Saved
<1>16. Linking(rk, U, K, af)'
  BY <1>1, <1>2 DEF Chained, Control, Modes, Windows, Records, Linking
<1>17. Staging(rk, U, K)'
  BY <1>1, <1>2 DEF Chained, Control, Modes, Windows, Records, Staging
<1>18. Dooming(rk, U, K)'
  BY <1>1, <1>8, <1>5 DEF Dooming
<1>19. Walking(rk, U, K)'
  BY <1>1, <1>5, <1>7 DEF Walking
<1>20. Unlinking(rk, U, K)'
  BY <1>1, <1>2 DEF Chained, Control, Modes, Windows, Records, Unlinking
<1>21. Pending(rk, V, K, cf)'
  BY <1>1, <1>2 DEF Chained, Control, Modes, Windows, Records, Pending
<1> QED
  BY <1>9, <1>10, <1>11, <1>12, <1>13, <1>14, <1>15,
     <1>16, <1>17, <1>18, <1>19, <1>20, <1>21 DEF Chained

\* The record of the repeated deletion is dropped (mpatch.c:478).
LEMMA RecoverCommitStep ==
  ASSUME Sheltered, Control, Control', TypeOK, NEW t, NEW rk, NEW U, NEW V, NEW K, NEW af, NEW cf,
         Chained(t, rk, U, V, K, af, cf), RecoverCommit
  PROVE  TypeOK' /\ Chained(t, rk, U, V, K, af, cf)'
<1> USE DEF Sweep, Deletes, Recovers, Open, Deleting, Checkpointing
<1>1. /\ pc = "recovered"
      /\ pc' = "recover"
      /\ del' = {}
      /\ UNCHANGED <<lclock, mlclock, origin, bliss, next_free, patch, available,
                     alloc, ram, dirty, new, retry, mode, at, prev, skip, seen,
                     golden, idle, doomed, window>>
  BY DEF RecoverCommit, nvmVars, walkVars, ghosts
<1>2. ActiveSlot' = ActiveSlot /\ CommittedSlot' = CommittedSlot
  BY <1>1 DEF ActiveSlot, CommittedSlot, ActiveIdx, RestoreIdx
<1>3. TypeOK'
  BY <1>1 DEF TypeOK
<1>4. Ordered(t, rk)
  BY DEF Chained
<1>5. Places(rk, U, V, K)'
  BY <1>1, <1>2 DEF Chained, Control, Modes, Windows, Records, Places, Behind
<1>6. Committed(rk, V, K, cf)'
  BY <1>1, <1>2 DEF Chained, Control, Modes, Windows, Records, Committed
<1>7. Active(rk, U, K, af)'
  BY <1>1, <1>2 DEF Chained, Control, Modes, Windows, Records, Active
<1>8. Claimed(U, K, af, cf)'
  BY <1>1, <1>2 DEF Chained, Control, Modes, Windows, Records, Claimed
<1>9. Saved'
  BY <1>1, <1>2 DEF Chained, Control, Modes, Windows, Records, Saved
<1>10. Linking(rk, U, K, af)'
  BY <1>1, <1>2 DEF Chained, Control, Modes, Windows, Records, Linking
<1>11. Staging(rk, U, K)'
  BY <1>1, <1>2 DEF Chained, Control, Modes, Windows, Records, Staging
<1>12. Dooming(rk, U, K)'
  BY <1>1, <1>2 DEF Chained, Control, Modes, Windows, Records, Dooming
<1>13. Walking(rk, U, K)'
  BY <1>1, <1>2 DEF Chained, Control, Modes, Windows, Records, Walking
<1>14. Unlinking(rk, U, K)'
  BY <1>1, <1>2 DEF Chained, Control, Modes, Windows, Records, Unlinking
<1>15. Pending(rk, V, K, cf)'
  BY <1>1, <1>2 DEF Chained, Control, Modes, Windows, Records, Pending
<1> QED
  BY <1>3, <1>4, <1>5, <1>6, <1>7, <1>8, <1>9,
     <1>10, <1>11, <1>12, <1>13, <1>14, <1>15 DEF Chained

\* Memory is restored: every region was seen, because every region has a
\* committed patch (mpatch.c:707).
LEMMA EndApplyStep ==
  ASSUME Sheltered, Control, Control', TypeOK, NEW t, NEW rk, NEW U, NEW V, NEW K, NEW af, NEW cf,
         Chained(t, rk, U, V, K, af, cf), EndApply
  PROVE  TypeOK' /\ Chained(t, rk, U, V, K, af, cf)'
<1> USE DEF Sweep, Deletes, Recovers, Open, Deleting, Checkpointing
<1>1. /\ pc = "apply"
      /\ pc' = "run"
      /\ at = Nil
      /\ at' = Nil
      /\ prev' = <<"origin", 0>>
      /\ skip' = TRUE
      /\ seen' = {}
      /\ UNCHANGED <<lclock, mlclock, origin, bliss, next_free, patch, del, available,
                     alloc, ram, dirty, new, retry, mode, golden, idle, doomed, window>>
  BY DEF EndApply, NoWalk, nvmVars, walkVars, ghosts
<1>2. ActiveSlot' = ActiveSlot /\ CommittedSlot' = CommittedSlot
  BY <1>1 DEF ActiveSlot, CommittedSlot, ActiveIdx, RestoreIdx
<1>3. TypeOK'
  <2>1. prev' \in Pointer
    BY <1>1, BlocksAssumption DEF Pointer, Index
  <2> QED
    BY <1>1, <2>1 DEF TypeOK
<1>4. Ordered(t, rk)
  BY DEF Chained
<1>5. Places(rk, U, V, K)'
  BY <1>1, <1>2 DEF Chained, Control, Modes, Windows, Records, Places, Behind
<1>6. Committed(rk, V, K, cf)'
  BY <1>1, <1>2 DEF Chained, Control, Modes, Windows, Records, Committed
<1>7. Active(rk, U, K, af)'
  BY <1>1, <1>2 DEF Chained, Control, Modes, Windows, Records, Active
<1>8. Claimed(U, K, af, cf)'
  BY <1>1, <1>2 DEF Chained, Control, Modes, Windows, Records, Claimed
<1>9. Saved'
  BY <1>1, <1>2 DEF Chained, Control, Modes, Windows, Records, Saved
<1>10. Linking(rk, U, K, af)'
  BY <1>1, <1>2 DEF Chained, Control, Modes, Windows, Records, Linking
<1>11. Staging(rk, U, K)'
  <2>1. U = {} /\ new = Nil /\ dirty = {} /\ available
    BY <1>1 DEF Chained, Places, Control, Modes
  <2>2. {new} \cap Block = {}
    BY <2>1, NilNoBlock
  <2>3. Holds(patch, rk, K, golden, Region) /\ \A r \in Regions(patch, K) : ram[r] = golden[r]
    BY <1>1, <2>1 DEF Chained, Committed, Walking, Passed
  <2>4. Holds(patch, rk, K, ram, Region)
    BY <2>3 DEF Holds, Regions
  <2>5. (U \cup K) \cup ({new} \cap Block) = K /\ Region \ dirty = Region
    BY <2>1, <2>2
  <2>6. Holds(patch, rk, (U \cup K) \cup ({new} \cap Block), ram, Region \ dirty)
    BY <2>4, <2>5
  <2> QED
    BY <1>1, <2>1, <2>2, <2>6 DEF Staging
<1>12. Dooming(rk, U, K)'
  BY <1>1, <1>2 DEF Chained, Control, Modes, Windows, Records, Dooming
<1>13. Walking(rk, U, K)'
  BY <1>1, <1>2 DEF Chained, Control, Modes, Windows, Records, Walking
<1>14. Unlinking(rk, U, K)'
  BY <1>1, <1>2 DEF Chained, Control, Modes, Windows, Records, Unlinking
<1>15. Pending(rk, V, K, cf)'
  BY <1>1, <1>2 DEF Chained, Control, Modes, Windows, Records, Pending
<1> QED
  BY <1>3, <1>4, <1>5, <1>6, <1>7, <1>8, <1>9,
     <1>10, <1>11, <1>12, <1>13, <1>14, <1>15 DEF Chained

\* Pass one is over: what the sweep is to free, it has freed.  The recovery goes on
\* to restore memory when that is nothing (mpatch.c:724).
LEMMA EndFreeStep ==
  ASSUME Sheltered, Control, Control', TypeOK, NEW t, NEW rk, NEW U, NEW V, NEW K, NEW af, NEW cf,
         Chained(t, rk, U, V, K, af, cf), EndFree
  PROVE  TypeOK' /\ Chained(t, rk, U, V, K, af, cf)'
<1> USE DEF Sweep, Deletes, Recovers, Open, Deleting, Checkpointing
<1>1. /\ pc = "free"
      /\ WalkEnds
      /\ \/ /\ mode = "uncommitted" /\ doomed = {}
            /\ mode' = "obsolete" /\ pc' = "apply"
            /\ at' = origin[ActiveSlot] /\ prev' = <<"origin", ActiveSlot>>
            /\ skip' = TRUE /\ seen' = {}
         \/ /\ mode = "uncommitted" => doomed # {}
            /\ pc' = "save"
            /\ UNCHANGED <<mode, at, prev, skip, seen>>
      /\ UNCHANGED <<lclock, mlclock, origin, bliss, next_free, patch, del, available,
                     alloc, ram, dirty, new, retry, golden, idle, doomed, window>>
  BY DEF EndFree, StartWalk, walkVars, nvmVars, walkVars, ghosts
<1>2. ActiveSlot' = ActiveSlot /\ CommittedSlot' = CommittedSlot
  BY <1>1 DEF ActiveSlot, CommittedSlot, ActiveIdx, RestoreIdx
<1>3. /\ Ordered(t, rk) /\ U \cup K \in SUBSET Block /\ K \subseteq U \cup K /\ U \subseteq U \cup K
  BY Sets
<1>4. Newest(U \cup K, rk, origin[ActiveSlot])
  BY <1>1 DEF Chained, Active, Linked
<1>5. /\ origin[ActiveSlot] = Nil \/ origin[ActiveSlot] \in U \/ origin[ActiveSlot] \in K
      /\ Passed(K, rk, origin[ActiveSlot]) = {} /\ Passed(U, rk, origin[ActiveSlot]) = {}
  <2>1. origin[ActiveSlot] = Nil \/ origin[ActiveSlot] \in U \cup K
    BY <1>4, <1>3, StartsAhead
  <2>2. Passed(K, rk, origin[ActiveSlot]) = {}
    BY <1>4, <1>3, StartsAhead
  <2>3. Passed(U, rk, origin[ActiveSlot]) = {}
    BY <1>4, <1>3, StartsAhead
  <2> QED
    BY <2>1, <2>2, <2>3
<1>6. origin[ActiveSlot] \in Index /\ <<"origin", ActiveSlot>> \in Pointer
  <2>1. ActiveSlot \in 0..1
    BY SlotsApart DEF Control
  <2> QED
    BY <2>1, BlocksAssumption DEF TypeOK, Pointer, Index
<1>7. Regions(patch, {}) = {}
  BY DEF Regions
<1>8. /\ at = Nil \/ (at \in Block /\ at \in U \cup K)
      /\ Uncommitted <=> at \in U
  BY <1>1, AtPatch
<1>9. doomed = IF mode = "uncommitted" THEN U ELSE Hidden(patch, rk, K)
  <2>1. CASE mode = "uncommitted"
    <3>1. Passed(U, rk, at) = U
      <4>1. at = Nil \/ (at # Nil /\ at \in K)
        BY <1>1, <1>8, <2>1 DEF WalkEnds
      <4>2. at \in K => \A u \in U : rk[at] < rk[u]
        BY Sets
      <4> QED
        BY <4>1, <4>2 DEF Passed, Newer
    <3> QED
      BY <1>1, <2>1, <3>1 DEF Chained, Dooming
  <2>2. CASE mode # "uncommitted"
    BY <1>1, <2>2 DEF Chained, Dooming, WalkEnds, Passed
  <2> QED
    BY <2>1, <2>2
<1>10. mode = "uncommitted" => available /\ ~Open /\ dirty = {} /\ ~retry
  BY <1>1 DEF Control, Modes, Windows
<1>11. new = Nil
  BY <1>1 DEF Control, Modes
<1>12. TypeOK'
  BY <1>1, <1>6 DEF TypeOK
<1>13. Ordered(t, rk)
  BY DEF Chained
<1>14. Places(rk, U, V, K)'
  BY <1>1, <1>9, <1>10 DEF Chained, Places, Behind
<1>15. Committed(rk, V, K, cf)'
  BY <1>1, <1>2 DEF Chained, Control, Modes, Windows, Records, Committed
<1>16. Active(rk, U, K, af)'
  BY <1>1, <1>2 DEF Chained, Control, Modes, Windows, Records, Active
<1>17. Claimed(U, K, af, cf)'
  BY <1>1 DEF Chained, Claimed
<1>18. Saved'
  BY <1>1 DEF Saved
<1>19. Linking(rk, U, K, af)'
  BY <1>1 DEF Linking
<1>20. Staging(rk, U, K)'
  BY <1>1 DEF Chained, Staging
<1>21. Dooming(rk, U, K)'
  BY <1>1, <1>9 DEF Dooming
<1>22. Walking(rk, U, K)'
  BY <1>1, <1>5, <1>7 DEF Walking
<1>23. Unlinking(rk, U, K)'
  BY <1>1 DEF Unlinking
<1>24. Pending(rk, V, K, cf)'
  BY <1>1 DEF Pending
<1> QED
  BY <1>12, <1>13, <1>14, <1>15, <1>16, <1>17, <1>18,
     <1>19, <1>20, <1>21, <1>22, <1>23, <1>24 DEF Chained

\* Pass two is over: the chain holds no patch that is free, and after a sweep of
\* obsolete patches none that is hidden; after a recovery none is staged.
LEMMA EndDeleteStep ==
  ASSUME Sheltered, Control, Control', TypeOK, NEW t, NEW rk, NEW U, NEW V, NEW K, NEW af, NEW cf,
         Chained(t, rk, U, V, K, af, cf), EndDelete
  PROVE  TypeOK' /\ Chained(t, rk, U, V, K, af, cf)'
<1> USE DEF Sweep, Deletes, Recovers, Open, Deleting, Checkpointing
<1>1. /\ pc = "delete"
      /\ WalkEnds
      /\ doomed' = {}
      /\ window' = window \ {"obsolete"}
      /\ \/ /\ mode = "obsolete" /\ mode' = mode /\ pc' = "stage"
            /\ at' = Nil /\ prev' = <<"origin", 0>> /\ skip' = TRUE /\ seen' = {}
         \/ /\ mode # "obsolete" /\ mode' = "obsolete" /\ pc' = "apply"
            /\ at' = origin[ActiveSlot] /\ prev' = <<"origin", ActiveSlot>>
            /\ skip' = TRUE /\ seen' = {}
      /\ UNCHANGED <<lclock, mlclock, origin, bliss, next_free, patch, del, available,
                     alloc, ram, dirty, new, retry, golden, idle>>
  BY DEF EndDelete, StartWalk, NoWalk, nvmVars, walkVars, ghosts
<1>2. ActiveSlot' = ActiveSlot /\ CommittedSlot' = CommittedSlot
  BY <1>1 DEF ActiveSlot, CommittedSlot, ActiveIdx, RestoreIdx
<1>3. /\ Ordered(t, rk) /\ U \cup K \in SUBSET Block /\ K \subseteq U \cup K /\ U \subseteq U \cup K
  BY Sets
<1>4. Newest(U \cup K, rk, origin[ActiveSlot])
  BY <1>1 DEF Chained, Active, Linked
<1>5. /\ origin[ActiveSlot] = Nil \/ origin[ActiveSlot] \in U \/ origin[ActiveSlot] \in K
      /\ Passed(K, rk, origin[ActiveSlot]) = {} /\ Passed(U, rk, origin[ActiveSlot]) = {}
  <2>1. origin[ActiveSlot] = Nil \/ origin[ActiveSlot] \in U \cup K
    BY <1>4, <1>3, StartsAhead
  <2>2. Passed(K, rk, origin[ActiveSlot]) = {}
    BY <1>4, <1>3, StartsAhead
  <2>3. Passed(U, rk, origin[ActiveSlot]) = {}
    BY <1>4, <1>3, StartsAhead
  <2> QED
    BY <2>1, <2>2, <2>3
<1>6. origin[ActiveSlot] \in Index /\ <<"origin", ActiveSlot>> \in Pointer
  <2>1. ActiveSlot \in 0..1
    BY SlotsApart DEF Control
  <2> QED
    BY <2>1, BlocksAssumption DEF TypeOK, Pointer, Index
<1>7. Regions(patch, {}) = {}
  BY DEF Regions
<1>8. /\ at = Nil \/ (at \in Block /\ at \in U \cup K)
      /\ Uncommitted <=> at \in U
  BY <1>1, AtPatch
<1>9. /\ mode \in {"obsolete", "uncommitted"} /\ doomed \subseteq Block
      /\ mode = "uncommitted" => available /\ dirty = {} /\ ~retry
      /\ mode = "obsolete" => dirty # {} /\ ~Open
      /\ new = Nil /\ del = {}
  BY <1>1 DEF Control, Modes, Windows, Records, TypeOK
<1>10. doomed = IF mode = "uncommitted" THEN U ELSE Hidden(patch, rk, K)
  BY <1>1 DEF Chained, Dooming
<1>11. doomed = {}
  <2>1. CASE mode = "uncommitted"
    <3>1. Passed(U \cup K, rk, at) = {}
      BY <1>1, <2>1 DEF Chained, Unlinking
    <3>2. at = Nil \/ (at # Nil /\ at \in K)
      BY <1>1, <1>8, <2>1 DEF WalkEnds
    <3>3. at \in K => \A u \in U : rk[at] < rk[u]
      BY Sets
    <3>4. U = {}
      BY <3>1, <3>2, <3>3 DEF Passed, Newer
    <3> QED
      BY <1>10, <2>1, <3>4
  <2>2. CASE mode = "obsolete"
    <3>1. at = Nil /\ Passed(K, rk, at) \cap doomed = {}
      BY <1>1, <2>2 DEF Chained, Unlinking, WalkEnds
    <3> QED
      BY <1>10, <2>2, <3>1 DEF Passed, Hidden
  <2> QED
    BY <1>9, <2>1, <2>2
<1>12. Open' <=> Open
  BY <1>1
<1>13. TypeOK'
  <2>1. Nil \in Index /\ <<"origin", 0>> \in Pointer
    BY BlocksAssumption DEF Pointer, Index, Nil
  <2> QED
    BY <1>1, <1>6, <2>1 DEF TypeOK
<1>14. Ordered(t, rk)
  BY DEF Chained
<1>15. Places(rk, U, V, K)'
  BY <1>1, <1>10, <1>11, <1>9 DEF Chained, Places, Behind
<1>16. Committed(rk, V, K, cf)'
  BY <1>1, <1>2, <1>11, <1>9 DEF Chained, Committed
<1>17. Active(rk, U, K, af)'
  BY <1>1, <1>2 DEF Chained, Control, Modes, Windows, Records, Active
<1>18. Claimed(U, K, af, cf)'
  BY <1>1, <1>11 DEF Chained, Claimed
<1>19. Saved'
  BY <1>1 DEF Saved
<1>20. Linking(rk, U, K, af)'
  BY <1>1 DEF Linking
<1>21. Staging(rk, U, K)'
  BY <1>1, <1>10, <1>11, <1>9 DEF Chained, Staging
<1>22. Dooming(rk, U, K)'
  BY <1>1 DEF Dooming
<1>23. Walking(rk, U, K)'
  BY <1>1, <1>5, <1>7 DEF Walking
<1>24. Unlinking(rk, U, K)'
  BY <1>1 DEF Unlinking
<1>25. Pending(rk, V, K, cf)'
  BY <1>1 DEF Pending
<1> QED
  BY <1>13, <1>14, <1>15, <1>16, <1>17, <1>18, <1>19,
     <1>20, <1>21, <1>22, <1>23, <1>24, <1>25 DEF Chained

-----------------------------------------------------------------------------
(* The walk and the record of a deletion.                                  *)

\* The deletion is recorded (mpatch.c:463).
LEMMA PrepareDeleteStep ==
  ASSUME Sheltered, Control, Control', TypeOK, NEW t, NEW rk, NEW U, NEW V, NEW K, NEW af, NEW cf,
         Chained(t, rk, U, V, K, af, cf), PrepareDelete
  PROVE  TypeOK' /\ Chained(t, rk, U, V, K, af, cf)'
<1> USE DEF Sweep, Deletes, Recovers, Open, Deleting, Checkpointing
<1>1. /\ pc = "delete"
      /\ pc' = "modify"
      /\ ~WalkEnds
      /\ Victim
      /\ del' = {<<prev, patch[at].next>>}
      /\ UNCHANGED <<lclock, mlclock, origin, bliss, next_free, patch, available,
                     alloc, ram, dirty, new, retry, mode, at, prev, skip, seen,
                     golden, idle, doomed, window>>
  BY DEF PrepareDelete, nvmVars, walkVars, ghosts
<1>2. ActiveSlot' = ActiveSlot /\ CommittedSlot' = CommittedSlot
  BY <1>1 DEF ActiveSlot, CommittedSlot, ActiveIdx, RestoreIdx
<1>3. /\ at # Nil /\ at \in Block
      /\ Uncommitted <=> at \in U
      /\ (Obsolete /\ at # Nil) <=> at \in Hidden(patch, rk, K)
  BY <1>1, AtPatch DEF WalkEnds
<1>4. at \in doomed
  <2>1. doomed = IF mode = "uncommitted" THEN U ELSE Hidden(patch, rk, K)
    BY <1>1 DEF Chained, Dooming
  <2> QED
    BY <1>1, <1>3, <2>1 DEF Victim
<1>5. TypeOK'
  <2>1. patch[at].next \in Index /\ prev \in Pointer
    BY <1>3 DEF TypeOK, Patch
  <2>2. del' \subseteq Pointer \X Index
    BY <1>1, <2>1
  <2> QED
    BY <1>1, <2>2 DEF TypeOK
<1>6. Ordered(t, rk)
  BY DEF Chained
<1>7. Places(rk, U, V, K)'
  BY <1>1, <1>2 DEF Chained, Control, Modes, Windows, Records, Places, Behind
<1>8. Committed(rk, V, K, cf)'
  BY <1>1, <1>2 DEF Chained, Control, Modes, Windows, Records, Committed
<1>9. Active(rk, U, K, af)'
  BY <1>1, <1>2 DEF Chained, Control, Modes, Windows, Records, Active
<1>10. Claimed(U, K, af, cf)'
  BY <1>1, <1>2 DEF Chained, Control, Modes, Windows, Records, Claimed
<1>11. Saved'
  BY <1>1, <1>2 DEF Chained, Control, Modes, Windows, Records, Saved
<1>12. Linking(rk, U, K, af)'
  BY <1>1, <1>2 DEF Chained, Control, Modes, Windows, Records, Linking
<1>13. Staging(rk, U, K)'
  BY <1>1, <1>2 DEF Chained, Control, Modes, Windows, Records, Staging
<1>14. Dooming(rk, U, K)'
  BY <1>1, <1>2 DEF Chained, Control, Modes, Windows, Records, Dooming
<1>15. Walking(rk, U, K)'
  BY <1>1, <1>2 DEF Chained, Control, Modes, Windows, Records, Walking
<1>16. Unlinking(rk, U, K)'
  BY <1>1, <1>2, <1>4 DEF Chained, Unlinking
<1>17. Pending(rk, V, K, cf)'
  BY <1>1, <1>2 DEF Chained, Control, Modes, Windows, Records, Pending
<1> QED
  BY <1>5, <1>6, <1>7, <1>8, <1>9, <1>10, <1>11,
     <1>12, <1>13, <1>14, <1>15, <1>16, <1>17 DEF Chained

\* The deletion is done: the walk goes on behind the patch that was taken out
\* (mpatch.c:478).
LEMMA CommitDeleteStep ==
  ASSUME Sheltered, Control, Control', TypeOK, NEW t, NEW rk, NEW U, NEW V, NEW K, NEW af, NEW cf,
         Chained(t, rk, U, V, K, af, cf), CommitDelete
  PROVE  TypeOK' /\ Chained(t, rk, U, V, K, af, cf)'
<1> USE DEF Sweep, Deletes, Recovers, Open, Deleting, Checkpointing
<1>1. /\ pc = "clear"
      /\ pc' = "delete"
      /\ del' = {}
      /\ at' = patch[at].next
      /\ UNCHANGED <<lclock, mlclock, origin, bliss, next_free, patch, available,
                     alloc, ram, dirty, new, retry, mode, prev, skip, seen, golden,
                     idle, doomed, window>>
  BY DEF CommitDelete, nvmVars, walkVars, ghosts
<1>2. ActiveSlot' = ActiveSlot /\ CommittedSlot' = CommittedSlot
  BY <1>1 DEF ActiveSlot, CommittedSlot, ActiveIdx, RestoreIdx
<1>3. Ordered(t, rk) /\ U \cup K \in SUBSET Block
  BY Sets
<1>4. /\ at \in Block /\ at \notin U /\ at \notin K
      /\ Newest(Older(U \cup K, rk, at), rk, patch[at].next)
  BY <1>1 DEF Chained, Unlinking
<1>5. at' = Nil \/ at' \in U \/ at' \in K
  BY <1>1, <1>4, <1>3, Follow
<1>6. ASSUME NEW T, T \subseteq U \cup K
     PROVE  Passed(T, rk, at') = Passed(T, rk, at)
  <2>1. Passed(T, rk, patch[at].next) = Passed(T, rk, at) \cup ({at} \cap T)
    BY <1>4, <1>3, <1>6, Follow
  <2> QED
    BY <1>1, <1>4, <1>6, <2>1
<1>7. Passed(K, rk, at') = Passed(K, rk, at) /\ Passed(U \cup K, rk, at') = Passed(U \cup K, rk, at)
  BY <1>6
<1>8. TypeOK'
  <2>1. at' \in Index
    BY <1>1, <1>4 DEF TypeOK, Patch
  <2> QED
    BY <1>1, <2>1 DEF TypeOK
<1>9. Ordered(t, rk)
  BY DEF Chained
<1>10. Places(rk, U, V, K)'
  BY <1>1, <1>2 DEF Chained, Control, Modes, Windows, Records, Places, Behind
<1>11. Committed(rk, V, K, cf)'
  BY <1>1, <1>2 DEF Chained, Control, Modes, Windows, Records, Committed
<1>12. Active(rk, U, K, af)'
  BY <1>1, <1>2 DEF Chained, Control, Modes, Windows, Records, Active
<1>13. Claimed(U, K, af, cf)'
  BY <1>1, <1>2 DEF Chained, Control, Modes, Windows, Records, Claimed
<1>14. Saved'
  BY <1>1, <1>2 DEF Chained, Control, Modes, Windows, Records, Saved
<1>15. Linking(rk, U, K, af)'
  BY <1>1, <1>2 DEF Chained, Control, Modes, Windows, Records, Linking
<1>16. Staging(rk, U, K)'
  BY <1>1, <1>2 DEF Chained, Control, Modes, Windows, Records, Staging
<1>17. Dooming(rk, U, K)'
  BY <1>1, <1>2 DEF Chained, Control, Modes, Windows, Records, Dooming
<1>18. Walking(rk, U, K)'
  BY <1>1, <1>5, <1>7 DEF Chained, Walking
<1>19. Unlinking(rk, U, K)'
  BY <1>1, <1>2, <1>7 DEF Chained, Unlinking
<1>20. Pending(rk, V, K, cf)'
  BY <1>1, <1>2 DEF Chained, Control, Modes, Windows, Records, Pending
<1> QED
  BY <1>8, <1>9, <1>10, <1>11, <1>12, <1>13, <1>14,
     <1>15, <1>16, <1>17, <1>18, <1>19, <1>20 DEF Chained

\* The walk leaves a patch behind; while memory is restored, it applies the newest
\* committed patch of a region (mpatch.c:519).
LEMMA WalkPastStep ==
  ASSUME Sheltered, Control, Control', TypeOK, NEW t, NEW rk, NEW U, NEW V, NEW K, NEW af, NEW cf,
         Chained(t, rk, U, V, K, af, cf), WalkPast
  PROVE  TypeOK' /\ Chained(t, rk, U, V, K, af, cf)'
<1> USE DEF Sweep, Deletes, Recovers, Open, Deleting, Checkpointing
<1>1. /\ pc \in {"free", "delete", "apply"}
      /\ ~WalkEnds
      /\ ~Victim \/ pc = "apply"
      /\ at' = patch[at].next
      /\ prev' = <<"next", at>>
      /\ skip' = Uncommitted
      /\ seen' = seen \cup (IF Shows THEN {patch[at].region} ELSE {})
      /\ ram' = IF pc = "apply" /\ Shows
               THEN [ram EXCEPT ![patch[at].region] = patch[at].data] ELSE ram
      /\ UNCHANGED <<lclock, mlclock, origin, bliss, next_free, patch, del, available,
                     alloc, dirty, new, retry, mode, pc, golden, idle, doomed, window>>
  BY DEF WalkPast, Advance, nvmVars, walkVars, ghosts
<1>2. ActiveSlot' = ActiveSlot /\ CommittedSlot' = CommittedSlot
  BY <1>1 DEF ActiveSlot, CommittedSlot, ActiveIdx, RestoreIdx
<1>3. /\ Ordered(t, rk) /\ U \in SUBSET Block /\ K \in SUBSET Block /\ U \cap K = {}
      /\ \A b \in Block : rk[b] \in Nat
      /\ \A u \in U, k \in K : rk[k] < rk[u]
  BY Sets
<1>4. /\ at # Nil /\ at \in Block /\ at \in U \cup K
      /\ Uncommitted <=> at \in U
      /\ (Obsolete /\ at # Nil) <=> at \in Hidden(patch, rk, K)
  BY <1>1, AtPatch DEF WalkEnds
<1>5. Shows <=> at \in K /\ at \notin Hidden(patch, rk, K)
  BY <1>3, <1>4 DEF Shows, Obsolete
<1>6. Hidden(patch, rk, K) \subseteq K
  BY DEF Hidden
<1>7. /\ at' \in U \cup K \cup {Nil} /\ at' \in Index
      /\ Passed(K, rk, at') = Passed(K, rk, at) \cup ({at} \cap K)
      /\ Passed(U, rk, at') = Passed(U, rk, at) \cup ({at} \cap U)
      /\ Passed(U \cup K, rk, at') = Passed(U \cup K, rk, at) \cup {at}
      /\ Passed(Hidden(patch, rk, K), rk, at') =
           Passed(Hidden(patch, rk, K), rk, at) \cup ({at} \cap Hidden(patch, rk, K))
  <2>1. patch[at].next \in U \cup K \cup {Nil} /\ patch[at].next \in Index
    BY <1>1, <1>4, StepOn
  <2>2. ASSUME NEW T, T \subseteq U \cup K
        PROVE  Passed(T, rk, at') = Passed(T, rk, at) \cup ({at} \cap T)
    BY <1>1, <1>4, <2>2, StepOn
  <2>3. Passed(K, rk, at') = Passed(K, rk, at) \cup ({at} \cap K)
    BY <2>2
  <2>4. Passed(U, rk, at') = Passed(U, rk, at) \cup ({at} \cap U)
    BY <2>2
  <2>5. Passed(U \cup K, rk, at') = Passed(U \cup K, rk, at) \cup {at}
    BY <1>4, <2>2
  <2>6. Passed(Hidden(patch, rk, K), rk, at') =
          Passed(Hidden(patch, rk, K), rk, at) \cup ({at} \cap Hidden(patch, rk, K))
    BY <1>6, <2>2
  <2> QED
    BY <1>1, <2>1, <2>3, <2>4, <2>5, <2>6
<1>8. /\ pc = "apply" => mode = "obsolete" /\ available
      /\ mode \in {"obsolete", "uncommitted"}
  BY <1>1 DEF Control, Modes
<1>9. pc # "apply" => mode = "obsolete" /\ at \notin Hidden(patch, rk, K)
  BY <1>1, <1>4, <1>8 DEF WalkEnds, Victim
<1>10. patch[at] \in Patch
  BY <1>4 DEF TypeOK
<1>11. skip' <=> Passed(K, rk, at') = {}
  <2>1. at \in U => Passed(K, rk, at) = {}
    BY <1>4, <1>3 DEF Passed, Newer
  <2>2. at \in U <=> Passed(K, rk, at') = {}
    BY <1>4, <1>7, <1>3, <2>1
  <2>3. skip' <=> Uncommitted
    BY <1>1
  <2> QED
    BY <1>4, <2>2, <2>3
<1>12. seen' = Regions(patch, Passed(K, rk, at'))
  <2>1. seen = Regions(patch, Passed(K, rk, at))
    BY <1>1 DEF Chained, Walking
  <2>2. CASE at \in U
    <3>1. seen' = seen /\ Passed(K, rk, at') = Passed(K, rk, at)
      BY <1>7, <1>1, <1>5, <1>3, <2>2
    <3> QED
      BY <2>1, <3>1
  <2>3. CASE at \in K
    <3>1. Regions(patch, Passed(K, rk, at')) = seen \cup {patch[at].region}
      BY <1>7, <2>1, <2>3 DEF Regions
    <3>2. at \in Hidden(patch, rk, K) => patch[at].region \in seen
      BY <1>4 DEF Obsolete
    <3> QED
      BY <1>1, <1>5, <2>3, <3>1, <3>2
  <2> QED
    BY <1>4, <2>2, <2>3
<1>13. pc = "apply" => \A r \in seen' : ram'[r] = golden[r]
  <2> SUFFICES ASSUME pc = "apply", NEW r \in seen' PROVE ram'[r] = golden[r]
    OBVIOUS
  <2>1. r \in seen => ram[r] = golden[r]
    BY DEF Chained, Walking
  <2>2. CASE ~Shows
    BY <1>1, <2>1, <2>2
  <2>3. CASE Shows
    <3>1. patch[at].region \in Region /\ ram \in Memory /\ patch[at].region \notin seen
      BY <1>10, <2>3 DEF Patch, TypeOK, Shows
    <3>2. \A q \in Region : ram'[q] = IF q = patch[at].region THEN patch[at].data ELSE ram[q]
      BY <1>1, <2>3, <3>1 DEF Memory
    <3>3. patch[at].data = golden[patch[at].region]
      <4>1. PICK b \in K : /\ patch[b].region = patch[at].region
                           /\ patch[b].data = golden[patch[at].region]
                           /\ \A c \in K : patch[c].region = patch[at].region => rk[c] <= rk[b]
        BY <1>8, <3>1 DEF Chained, Committed, Holds
      <4>2. at \in K /\ rk[at] <= rk[b]
        BY <1>5, <2>3, <4>1
      <4>3. ~(rk[at] < rk[b])
        BY <1>5, <2>3, <4>1, <4>2 DEF Hidden
      <4>4. at = b
        BY <1>3, <4>2, <4>3 DEF Ordered
      <4> QED
        BY <4>1, <4>4
    <3>4. r = patch[at].region \/ (r \in seen /\ r \in Region)
      BY <1>1, <2>3 DEF TypeOK
    <3> QED
      BY <2>1, <3>1, <3>2, <3>3, <3>4
  <2> QED
    BY <2>2, <2>3
<1>14. TypeOK'
  <2>1. prev' \in Pointer
    BY <1>4, <1>1, BlocksAssumption DEF Pointer, Index, Block
  <2>2. skip' \in BOOLEAN
    BY <1>1 DEF Uncommitted, TypeOK
  <2>3. seen' \subseteq Region /\ ram' \in Memory
    BY <1>1, <1>10 DEF TypeOK, Patch, Memory
  <2> QED
    BY <1>7, <1>1, <2>1, <2>2, <2>3 DEF TypeOK
<1>15. Ordered(t, rk)
  BY DEF Chained
<1>16. Places(rk, U, V, K)'
  BY <1>1, <1>2 DEF Chained, Control, Modes, Windows, Records, Places, Behind
<1>17. Committed(rk, V, K, cf)'
  BY <1>1, <1>2 DEF Chained, Control, Modes, Windows, Records, Committed
<1>18. Active(rk, U, K, af)'
  BY <1>1, <1>2 DEF Chained, Control, Modes, Windows, Records, Active
<1>19. Claimed(U, K, af, cf)'
  BY <1>1, <1>2 DEF Chained, Control, Modes, Windows, Records, Claimed
<1>20. Saved'
  BY <1>1, <1>2 DEF Chained, Control, Modes, Windows, Records, Saved
<1>21. Linking(rk, U, K, af)'
  BY <1>1, <1>2 DEF Chained, Control, Modes, Windows, Records, Linking
<1>22. Staging(rk, U, K)'
  BY <1>9, <1>1 DEF Chained, Staging
<1>23. Dooming(rk, U, K)'
  BY <1>7, <1>9, <1>1, <1>3 DEF Chained, Dooming
<1>24. Walking(rk, U, K)'
  BY <1>7, <1>1, <1>11, <1>12, <1>13 DEF Walking
<1>25. Unlinking(rk, U, K)'
  <2> SUFFICES ASSUME pc = "delete" PROVE Unlinking(rk, U, K)'
    BY <1>1 DEF Unlinking
  <2>1. at \in Passed(U \cup K, rk, at')
    BY <1>7
  <2>2. \A c \in Passed(U \cup K, rk, at') : rk[at] <= rk[c]
    BY <1>4, <1>7, <1>3 DEF Passed, Newer
  <2>3. Passed(K, rk, at') \cap doomed = {}
    <3>1. Passed(K, rk, at) \cap doomed = {} /\ doomed = Hidden(patch, rk, K)
      BY <1>9 DEF Chained, Unlinking, Dooming
    <3> QED
      BY <1>7, <1>9, <3>1
  <2>4. pc' = "delete" /\ mode' = "obsolete" /\ doomed' = doomed
    BY <1>9, <1>1
  <2> QED
    BY <1>1, <2>1, <2>2, <2>3, <2>4 DEF Unlinking
<1>26. Pending(rk, V, K, cf)'
  BY <1>1, <1>2 DEF Chained, Control, Modes, Windows, Records, Pending
<1> QED
  BY <1>14, <1>15, <1>16, <1>17, <1>18, <1>19, <1>20,
     <1>21, <1>22, <1>23, <1>24, <1>25, <1>26 DEF Chained

-----------------------------------------------------------------------------
(* Staging a patch.                                                        *)

\* A block is taken and filled in (mpatch.c:346): the free list loses it, and it
\* will be the newest patch.
LEMMA StageAllocStep ==
  ASSUME Sheltered, Control, Control', TypeOK, NEW t, NEW rk, NEW U, NEW V, NEW K, NEW af, NEW cf,
         Chained(t, rk, U, V, K, af, cf), StageAlloc
  PROVE  TypeOK' /\ \E t2, rk2, U2, V2, K2, af2, cf2 :
                     Chained(t2, rk2, U2, V2, K2, af2, cf2)'
<1> USE DEF Sweep, Deletes, Recovers, Open, Deleting, Checkpointing
<1>1. /\ pc = "stage"
      /\ dirty # {}
      /\ alloc.n_free_blocks > 0
      /\ \E r \in dirty :
           /\ patch' = [patch EXCEPT ![alloc.next_free_block] =
                          [next |-> Nil, stage_clock |-> lclock, region |-> r, data |-> ram[r]]]
           /\ dirty' = dirty \ {r}
      /\ new' = alloc.next_free_block
      /\ next_free' = InitNext(alloc, next_free)
      /\ alloc' = Pop(alloc, next_free)
      /\ retry' = FALSE
      /\ pc' = "link"
      /\ UNCHANGED <<lclock, mlclock, origin, bliss, del, available, ram, mode, at,
                     prev, skip, seen, golden, idle, doomed, window>>
  BY DEF StageAlloc, nvmVars, walkVars, ghosts
<1>2. ActiveSlot' = ActiveSlot /\ CommittedSlot' = CommittedSlot
  BY <1>1 DEF ActiveSlot, CommittedSlot, ActiveIdx, RestoreIdx
<1>3. /\ Ordered(t, rk) /\ U \in SUBSET Block /\ K \in SUBSET Block /\ V \subseteq U
      /\ \A b \in Block : rk[b] \in Nat
  BY Sets
<1>4. doomed = {} /\ mode = "obsolete" /\ new = Nil
  BY <1>1 DEF Control, Modes, Windows
<1>5. /\ alloc \in Allocator /\ next_free \in Links /\ bliss[CommittedSlot] \in Allocator
      /\ FreeList(alloc, next_free, af) /\ FreeList(bliss[CommittedSlot], next_free, cf)
      /\ bliss[CommittedSlot].n_initialized_blocks <= alloc.n_initialized_blocks
  <2>1. CommittedSlot \in 0..1
    BY SlotsApart DEF Control
  <2> QED
    BY <1>1, <2>1 DEF TypeOK, Links, Chained, Active, Committed
<1>6. /\ af # <<>> /\ af \in Seq(Block) /\ Once(af) /\ alloc.next_free_block = af[1]
      /\ next_free' \in Links /\ alloc' \in Allocator
      /\ FreeList(alloc', next_free', Tail(af))
      /\ alloc.n_initialized_blocks <= alloc'.n_initialized_blocks
  BY <1>1, <1>5, TakeBlock
<1>7. PICK h : h = new'
  OBVIOUS
<1>8. /\ h \in Block /\ h = af[1] /\ ~In(h, Tail(af))
      /\ \A b : In(b, af) <=> b = h \/ In(b, Tail(af))
  BY <1>1, <1>7, <1>6, TailMembers
<1>9. h \notin U /\ h \notin K
  BY <1>1, <1>4, <1>8 DEF Chained, Claimed
<1>10. PICK rk2 : /\ Ordered(t + 1, rk2)
                  /\ \A c \in Block : c # h => rk2[c] = rk[c] /\ rk2[c] < rk2[h]
  BY <1>8, <1>3, Raise
<1>11. PICK r \in dirty : /\ patch' = [patch EXCEPT ![h] =
                              [next |-> Nil, stage_clock |-> lclock, region |-> r, data |-> ram[r]]]
                          /\ dirty' = dirty \ {r}
  BY <1>1, <1>7
<1>12. /\ patch' \in [Block -> Patch]
       /\ \A c \in Block : c # h => patch'[c] = patch[c]
       /\ patch'[h].region = r /\ patch'[h].data = ram[r] /\ patch'[h].stage_clock = lclock
       /\ r \in Region
  <2>1. [next |-> Nil, stage_clock |-> lclock, region |-> r, data |-> ram[r]] \in Patch
    BY NilNoBlock DEF TypeOK, Patch, Memory
  <2> QED
    BY <1>11, <1>8, <2>1 DEF TypeOK
<1>13. \A c \in U \cup K : c \in Block /\ patch'[c] = patch[c] /\ rk2[c] = rk[c] /\ rk2[c] < rk2[h]
  BY <1>12, <1>9, <1>10, <1>3
<1>14. TypeOK'
  <2>1. /\ next_free' \in [Block -> 0..NBlocks] /\ patch' \in [Block -> Patch]
        /\ alloc' \in Allocator /\ dirty' \subseteq Region /\ new' \in Index
    <3>1. new' \in Index
      BY <1>7, <1>8, NilNoBlock
    <3>2. dirty' \subseteq Region
      BY <1>11, <1>1 DEF TypeOK
    <3> QED
      BY <1>12, <1>6, <3>1, <3>2 DEF Links
  <2>2. /\ UNCHANGED <<lclock, mlclock, origin, bliss, del, available, ram, mode, at,
                       prev, skip, seen, golden, idle, doomed, window>>
        /\ retry' = FALSE /\ pc' = "link"
    BY <1>1
  <2> QED
    BY <1>1, <2>1, <2>2 DEF TypeOK
<1>15. Places(rk2, U, V, K)'
  BY <1>13, <1>1, <1>4, <1>3 DEF Chained, Places, Behind
<1>16. Committed(rk2, V, K, cf)'
  <2>1. Holds(patch, rk, K, golden, Region) => Holds(patch', rk2, K, golden, Region)
    BY <1>13, ShownFrame
  <2>2. FreeList(bliss[CommittedSlot], next_free', cf)
    BY <1>1, <1>5, TakeBlockOther
  <2>3. Linked(patch, rk, V \cup K, origin[CommittedSlot]) =>
          Linked(patch', rk2, V \cup K, origin[CommittedSlot])
    BY <1>13, <1>3, LinkedFrame
  <2> QED
    BY <1>1, <1>2, <2>1, <2>2, <2>3 DEF Chained, Committed
<1>17. Active(rk2, U, K, Tail(af))'
  <2>1. Linked(patch', rk2, U \cup K, origin[ActiveSlot])
    <3>1. Linked(patch, rk, U \cup K, origin[ActiveSlot])
      BY <1>1 DEF Chained, Active
    <3> QED
      BY <1>13, <1>3, <3>1, LinkedFrame
  <2>2. \A b \in Block : b \in U \/ b \in K \/ In(b, af)
    BY <1>1, <1>4, NilNoBlock DEF Chained, Active
  <2>3. bliss[CommittedSlot].n_initialized_blocks <= alloc'.n_initialized_blocks
    BY <1>6, <1>5 DEF Allocator
  <2> QED
    BY <1>1, <1>7, <1>6, <1>8, <1>2, <2>1, <2>2, <2>3 DEF Active
<1>18. Claimed(U, K, Tail(af), cf)'
  BY <1>1, <1>4, <1>8 DEF Chained, Claimed
<1>19. Saved'
  BY <1>1 DEF Saved
<1>20. Linking(rk2, U, K, Tail(af))'
  BY <1>13, <1>12, <1>1, <1>7, <1>8, <1>9 DEF Linking
<1>21. Staging(rk2, U, K)'
  <2>1. {new} \cap Block = {} /\ {new'} \cap Block = {h}
    BY <1>4, <1>7, <1>8, NilNoBlock
  <2>2. /\ Holds(patch, rk, (U \cup K) \cup ({new} \cap Block), ram, Region \ dirty)
        /\ \A u \in U : patch[u].region \notin dirty
        /\ \A u, w \in U : patch[u].region = patch[w].region => u = w
    BY <1>1 DEF Chained, Staging
  <2>3. Holds(patch, rk, U \cup K, ram, Region \ dirty)
    <3>1. (U \cup K) \cup ({new} \cap Block) = U \cup K
      BY <2>1
    <3> QED
      BY <2>2, <3>1
  <2>4. Holds(patch', rk2, U \cup K, ram, Region \ dirty)
    BY <1>13, <2>3, ShownFrame
  <2>5. Holds(patch', rk2, (U \cup K) \cup {h}, ram, (Region \ dirty) \cup {r})
    <3>1. /\ U \cup K \in SUBSET Block /\ h \in Block \ (U \cup K)
          /\ \A c \in U \cup K : rk2[c] < rk2[h]
      BY <1>13, <1>8, <1>9, <1>3
    <3>2. Ordered(t + 1, rk2) /\ patch'[h].region = r /\ patch'[h].data = ram[patch'[h].region]
      BY <1>12, <1>10
    <3>3. Holds(patch', rk2, (U \cup K) \cup {h}, ram, (Region \ dirty) \cup {patch'[h].region})
      BY <2>4, <3>1, <3>2, ShowsMore
    <3> QED
      BY <3>2, <3>3
  <2>6. (Region \ dirty) \cup {r} = Region \ dirty'
    <3>1. dirty' = dirty \ {r} /\ r \in Region
      BY <1>11, <1>12
    <3> QED
      BY <3>1
  <2>7. Holds(patch', rk2, (U \cup K) \cup ({new'} \cap Block), ram', Region \ dirty')
    BY <1>1, <2>1, <2>5, <2>6
  <2>8. \A u \in U \cup {h} : patch'[u].region \notin dirty'
    BY <1>13, <1>11, <1>12, <2>2
  <2>9. \A u, w \in U \cup {h} : patch'[u].region = patch'[w].region => u = w
    BY <1>13, <1>11, <1>12, <2>2
  <2> QED
    BY <1>1, <2>1, <2>7, <2>8, <2>9 DEF Staging
<1>22. Dooming(rk2, U, K)'
  BY <1>1 DEF Dooming
<1>23. Walking(rk2, U, K)'
  BY <1>1 DEF Walking
<1>24. Unlinking(rk2, U, K)'
  BY <1>1 DEF Unlinking
<1>25. Pending(rk2, V, K, cf)'
  BY <1>1 DEF Pending
<1>26. Chained(t + 1, rk2, U, V, K, Tail(af), cf)'
  BY <1>10, <1>15, <1>16, <1>17, <1>18, <1>19, <1>20,
     <1>21, <1>22, <1>23, <1>24, <1>25 DEF Chained
<1> QED
  BY <1>14, <1>26

\* The patch is put before the newest one (mpatch.c:66).
LEMMA StageLinkStep ==
  ASSUME Sheltered, Control, Control', TypeOK, NEW t, NEW rk, NEW U, NEW V, NEW K, NEW af, NEW cf,
         Chained(t, rk, U, V, K, af, cf), StageLink
  PROVE  TypeOK' /\ \E t2, rk2, U2, V2, K2, af2, cf2 :
                     Chained(t2, rk2, U2, V2, K2, af2, cf2)'
<1> USE DEF Sweep, Deletes, Recovers, Open, Deleting, Checkpointing
<1>1. /\ pc = "link"
      /\ patch' = [patch EXCEPT ![new].next = origin[ActiveSlot]]
      /\ origin' = [origin EXCEPT ![ActiveSlot] = new]
      /\ new' = Nil
      /\ pc' = "stage"
      /\ UNCHANGED <<lclock, mlclock, bliss, next_free, del, available, alloc, ram,
                     dirty, retry, mode, at, prev, skip, seen, golden, idle, doomed,
                     window>>
  BY DEF StageLink, nvmVars, walkVars, ghosts
<1>2. ActiveSlot' = ActiveSlot /\ CommittedSlot' = CommittedSlot
  BY <1>1 DEF ActiveSlot, CommittedSlot, ActiveIdx, RestoreIdx
<1>3. /\ Ordered(t, rk) /\ U \in SUBSET Block /\ K \in SUBSET Block /\ V \subseteq U
      /\ U \cup K \in SUBSET Block /\ V \cup K \in SUBSET Block
  BY Sets
<1>4. doomed = {} /\ mode = "obsolete" /\ ~retry
  BY <1>1 DEF Control, Modes, Windows
<1>5. PICK h : h = new
  OBVIOUS
<1>6. /\ h \in Block /\ h \notin U /\ h \notin K /\ ~In(h, af)
      /\ \A b \in U \cup K : rk[b] < rk[h]
      /\ patch[h].stage_clock = lclock
  BY <1>1, <1>5 DEF Chained, Linking
<1>7. PICK U2 : U2 = U \cup {h}
  OBVIOUS
<1>8. ActiveSlot \in 0..1 /\ CommittedSlot \in 0..1 /\ ActiveSlot # CommittedSlot
  BY <1>1, SlotsApart DEF Control
<1>9. PICK first : first = origin[ActiveSlot]
  OBVIOUS
<1>10. Relinked(patch, patch', h, first)
  <2>1. patch \in [Block -> Patch] /\ first \in Index
    BY <1>8, <1>9 DEF TypeOK
  <2> QED
    BY <1>1, <1>5, <1>9, <1>6, <2>1, Relink
<1>11. /\ patch' \in [Block -> Patch]
       /\ \A c \in Block : /\ c # h => patch'[c].next = patch[c].next
                           /\ patch'[c].stage_clock = patch[c].stage_clock
                           /\ patch'[c].region = patch[c].region /\ patch'[c].data = patch[c].data
  BY <1>10 DEF Relinked
<1>12. /\ origin' \in [0..1 -> Index] /\ origin'[ActiveSlot] = h
       /\ origin'[CommittedSlot] = origin[CommittedSlot]
  BY <1>8, <1>1, <1>5, <1>6, NilNoBlock DEF TypeOK
<1>13. TypeOK'
  BY <1>11, <1>1, <1>12, NilNoBlock DEF TypeOK
<1>14. Ordered(t, rk)
  BY DEF Chained
<1>15. Places(rk, U2, V, K)'
  BY <1>11, <1>1, <1>4, <1>6, <1>7, <1>3 DEF Chained, Places, Behind
<1>16. Committed(rk, V, K, cf)'
  <2>1. Holds(patch, rk, K, golden, Region) => Holds(patch', rk, K, golden, Region)
    <3>1. \A c \in K : patch'[c].region = patch[c].region /\ patch'[c].data = patch[c].data
      BY <1>11, <1>3
    <3> QED
      BY <3>1, ShownFrame
  <2>2. Linked(patch, rk, V \cup K, origin[CommittedSlot]) =>
          Linked(patch', rk, V \cup K, origin[CommittedSlot])
    <3>1. \A b \in V \cup K : patch'[b].next = patch[b].next
      BY <1>11, <1>6, <1>3
    <3> QED
      BY <1>3, <3>1, LinkedFrame
  <2> QED
    BY <1>1, <1>4, <1>12, <1>2, <2>1, <2>2 DEF Chained, Committed
<1>17. Active(rk, U2, K, af)'
  <2>1. Linked(patch, rk, U \cup K, first)
    BY <1>1, <1>9 DEF Chained, Active
  <2>2. Linked(patch', rk, (U \cup K) \cup {h}, h)
    <3>1. h \in Block \ (U \cup K)
      BY <1>6
    <3> QED
      BY <1>6, <1>10, <1>3, <2>1, <3>1, Prepend
  <2>3. (U \cup K) \cup {h} = U2 \cup K
    BY <1>7
  <2>4. Linked(patch', rk, U2 \cup K, origin'[ActiveSlot])
    BY <1>12, <2>2, <2>3
  <2> QED
    BY <1>1, <1>5, <1>2, <1>7, <2>4 DEF Chained, Active
<1>18. Claimed(U2, K, af, cf)'
  BY <1>1, <1>4, <1>6, <1>7 DEF Chained, Claimed
<1>19. Saved'
  BY <1>1 DEF Saved
<1>20. Linking(rk, U2, K, af)'
  BY <1>1 DEF Linking
<1>21. Staging(rk, U2, K)'
  <2>1. {new} \cap Block = {h} /\ {new'} \cap Block = {}
    BY <1>1, <1>5, <1>6, NilNoBlock
  <2>2. /\ Holds(patch, rk, (U \cup K) \cup ({new} \cap Block), ram, Region \ dirty)
        /\ \A u \in U \cup {h} : patch[u].region \notin dirty
        /\ \A u, w \in U \cup {h} : patch[u].region = patch[w].region => u = w
    BY <1>1, <2>1 DEF Chained, Staging
  <2>3. Holds(patch, rk, U2 \cup K, ram, Region \ dirty)
    <3>1. (U \cup K) \cup ({new} \cap Block) = U2 \cup K
      BY <1>7, <2>1
    <3> QED
      BY <2>2, <3>1
  <2>4. Holds(patch', rk, U2 \cup K, ram, Region \ dirty)
    <3>1. U2 \cup K \subseteq Block
      BY <1>6, <1>7, <1>3
    <3>2. \A c \in U2 \cup K : patch'[c].region = patch[c].region /\ patch'[c].data = patch[c].data
      BY <1>11, <3>1
    <3> QED
      BY <2>3, <3>2, ShownFrame
  <2>5. (U2 \cup K) \cup ({new'} \cap Block) = U2 \cup K /\ U2 \cup ({new'} \cap Block) = U2
    BY <2>1
  <2>6. Holds(patch', rk, (U2 \cup K) \cup ({new'} \cap Block), ram', Region \ dirty')
    BY <1>1, <2>4, <2>5
  <2>7. \A u \in U2 : patch'[u].region = patch[u].region
    <3>1. U2 \subseteq Block
      BY <1>6, <1>7, <1>3
    <3> QED
      BY <1>11, <3>1
  <2> QED
    BY <1>1, <1>4, <1>7, <2>2, <2>5, <2>6, <2>7 DEF Staging
<1>22. Dooming(rk, U2, K)'
  BY <1>1 DEF Dooming
<1>23. Walking(rk, U2, K)'
  BY <1>1 DEF Walking
<1>24. Unlinking(rk, U2, K)'
  BY <1>1 DEF Unlinking
<1>25. Pending(rk, V, K, cf)'
  BY <1>1 DEF Pending
<1>26. Chained(t, rk, U2, V, K, af, cf)'
  BY <1>14, <1>15, <1>16, <1>17, <1>18, <1>19, <1>20,
     <1>21, <1>22, <1>23, <1>24, <1>25 DEF Chained
<1> QED
  BY <1>13, <1>26

-----------------------------------------------------------------------------
(* Commits, restores and freeing a patch.                                  *)

\* The clock moves (checkpoint.c:96): what was staged is committed, and the active
\* slot is the committed one.
LEMMA CommitStep ==
  ASSUME Sheltered, Control, Control', TypeOK, NEW t, NEW rk, NEW U, NEW V, NEW K, NEW af, NEW cf,
         Chained(t, rk, U, V, K, af, cf), Commit
  PROVE  TypeOK' /\ \E t2, rk2, U2, V2, K2, af2, cf2 :
                     Chained(t2, rk2, U2, V2, K2, af2, cf2)'
<1> USE DEF Sweep, Deletes, Recovers, Open, Deleting, Checkpointing
<1>1. /\ pc = "commit"
      /\ lclock' = Inc(lclock)
      /\ available' = TRUE
      /\ golden' = ram
      /\ idle' = IF Staged THEN 0 ELSE idle + 1
      /\ window' = window \ {"uncommitted"}
      /\ pc' = "post"
      /\ UNCHANGED <<mlclock, origin, bliss, next_free, patch, del, alloc, ram, dirty,
                     new, retry, mode, at, prev, skip, seen, doomed>>
  BY DEF Commit, nvmVars, walkVars, ghosts
<1>2. CommittedSlot' = ActiveSlot
  <2>1. lclock' \in 0..ClockMod-1 /\ (lclock' + 1) % 2 = lclock % 2
    <3>1. lclock \in 0..ClockMod-1 /\ lclock \in Nat
      BY MPatchAssumption DEF TypeOK
    <3>2. Inc(lclock) \in 0..ClockMod-1 /\ Inc(lclock) % 2 = (lclock + 1) % 2 /\ Inc(lclock) \in Nat
      BY <3>1, Parity, MPatchAssumption
    <3>3. \A x \in Nat, y \in Nat : y % 2 = (x + 1) % 2 => (y + 1) % 2 = x % 2
      OBVIOUS
    <3> QED
      BY <1>1, <3>1, <3>2, <3>3
  <2> QED
    BY <1>1, <2>1 DEF CommittedSlot, ActiveSlot, RestoreIdx, ActiveIdx
<1>3. /\ Ordered(t, rk) /\ U \in SUBSET Block /\ K \in SUBSET Block /\ U \cap K = {}
      /\ \A b \in Block : rk[b] \in Nat
      /\ \A u \in U, k \in K : rk[k] < rk[u]
  BY Sets
<1>4. dirty = {} /\ doomed = {} /\ new = Nil /\ mode = "obsolete" /\ ~Open'
  BY <1>1 DEF Control, Modes, Windows
<1>5. PICK K2 : K2 = U \cup K
  OBVIOUS
<1>6. Staged <=> U # {}
  <2>1. Newest(U \cup K, rk, origin[ActiveSlot])
    BY <1>1 DEF Chained, Active, Linked
  <2> DEFINE first == origin[ActiveSlot]
  <2>2. CASE U # {}
    <3>1. first \in U \cup K /\ \A c \in U \cup K : rk[c] <= rk[first]
      BY <2>1, <2>2 DEF Newest
    <3>2. first \in U /\ first # Nil
      BY <1>3, <2>2, <3>1, NilNoBlock
    <3> QED
      BY <2>2, <3>2 DEF Staged, Chained, Places
  <2>3. CASE U = {} /\ K = {}
    BY <2>1, <2>3 DEF Newest, Staged
  <2>4. CASE U = {} /\ K # {}
    <3>1. first \in K /\ \A c \in K : rk[c] <= rk[first]
      BY <2>1, <2>4 DEF Newest
    <3>2. Behind(patch[first].stage_clock, idle)
      BY <3>1 DEF Chained, Places
    <3>3. /\ lclock \in 0..ClockMod-1 /\ idle \in 0..IdleLimit
          /\ patch[first].stage_clock \in 0..ClockMod-1
      BY <1>3, <3>1 DEF TypeOK, Patch
    <3> QED
      BY <2>4, <3>2, <3>3, ClockBehind DEF Staged
  <2> QED
    BY <2>2, <2>3, <2>4
<1>7. TypeOK'
  <2>1. idle' \in 0..IdleLimit
    <3>1. U # {} \/ idle < IdleLimit
      BY <1>1, <1>4 DEF Chained, Staging
    <3> QED
      BY <1>1, <1>6, <3>1, MPatchAssumption DEF TypeOK
  <2>2. lclock' \in 0..ClockMod-1
    BY <1>1, Parity, MPatchAssumption DEF TypeOK
  <2> QED
    BY <1>1, <2>1, <2>2 DEF TypeOK
<1>8. Ordered(t, rk)
  BY DEF Chained
<1>9. Places(rk, {}, {}, K2)'
  <2>1. \A h \in K2 : (\A k \in K2 : rk[k] <= rk[h]) => Behind(patch[h].stage_clock, idle)'
    <3> SUFFICES ASSUME NEW h \in K2, \A k \in K2 : rk[k] <= rk[h]
                 PROVE  Behind(patch[h].stage_clock, idle)'
      OBVIOUS
    <3>1. h \in Block /\ patch[h].stage_clock \in 0..ClockMod-1
      BY <1>5, <1>3 DEF TypeOK, Patch
    <3>2. lclock \in 0..ClockMod-1 /\ idle \in 0..IdleLimit /\ idle + 2 <= ClockMod
      BY MPatchAssumption DEF TypeOK, Sheltered
    <3>3. CASE U # {}
      <4>1. h \in U
        BY <1>5, <1>3, <3>3
      <4>2. patch[h].stage_clock = lclock /\ idle' = 0
        BY <1>1, <1>6, <3>3, <4>1 DEF Chained, Places
      <4> QED
        BY <1>1, <3>1, <3>2, <4>2, ClockMoves DEF Behind
    <3>4. CASE U = {}
      <4>1. Behind(patch[h].stage_clock, idle) /\ idle' = idle + 1
        BY <1>1, <1>5, <1>6, <3>4 DEF Chained, Places
      <4> QED
        BY <1>1, <3>1, <3>2, <4>1, ClockMoves DEF Behind
    <3> QED
      BY <3>3, <3>4
  <2> QED
    BY <1>1, <1>4, <1>5, <1>3, <2>1 DEF Places, Behind
<1>10. Committed(rk, {}, K2, af)'
  <2>1. Holds(patch, rk, K2, ram, Region)
    <3>1. Holds(patch, rk, (U \cup K) \cup ({new} \cap Block), ram, Region \ dirty)
      BY <1>1 DEF Chained, Staging
    <3>2. (U \cup K) \cup ({new} \cap Block) = K2 /\ Region \ dirty = Region
      BY <1>4, <1>5, NilNoBlock
    <3> QED
      BY <3>1, <3>2
  <2>2. /\ Linked(patch, rk, {} \cup K2, origin[ActiveSlot])
        /\ FreeList(bliss[ActiveSlot], next_free, af)
        /\ \A b \in Block : b \in K2 \/ In(b, af)
    <3>1. {} \cup K2 = U \cup K
      BY <1>5
    <3> QED
      BY <1>1, <1>4, <1>5, <3>1, NilNoBlock DEF Chained, Active, Saved
  <2>3. \A b \in K2 : ~In(b, af)
    BY <1>1, <1>4, <1>5 DEF Chained, Claimed
  <2> QED
    BY <1>1, <1>4, <1>2, <2>1, <2>2, <2>3 DEF Committed
<1>11. Active(rk, {}, K2, af)'
  BY <1>1 DEF Active
<1>12. Claimed({}, K2, af, af)'
  BY <1>1 DEF Claimed
<1>13. Saved'
  BY <1>1 DEF Saved
<1>14. Linking(rk, {}, K2, af)'
  BY <1>1 DEF Linking
<1>15. Staging(rk, {}, K2)'
  BY <1>1 DEF Staging
<1>16. Dooming(rk, {}, K2)'
  BY <1>1 DEF Dooming
<1>17. Walking(rk, {}, K2)'
  BY <1>1 DEF Walking
<1>18. Unlinking(rk, {}, K2)'
  BY <1>1 DEF Unlinking
<1>19. Pending(rk, {}, K2, af)'
  BY <1>1 DEF Pending
<1>20. Chained(t, rk, {}, {}, K2, af, af)'
  BY <1>8, <1>9, <1>10, <1>11, <1>12, <1>13, <1>14,
     <1>15, <1>16, <1>17, <1>18, <1>19 DEF Chained
<1> QED
  BY <1>7, <1>20

\* The active slot is made anew from the committed one (mpatch.c:231).
LEMMA PostCheckpointStep ==
  ASSUME Sheltered, Control, Control', TypeOK, NEW t, NEW rk, NEW U, NEW V, NEW K, NEW af, NEW cf,
         Chained(t, rk, U, V, K, af, cf), PostCheckpoint
  PROVE  TypeOK' /\ \E t2, rk2, U2, V2, K2, af2, cf2 :
                     Chained(t2, rk2, U2, V2, K2, af2, cf2)'
<1> USE DEF Sweep, Deletes, Recovers, Open, Deleting, Checkpointing
<1>1. /\ pc = "post"
      /\ CoreRestore
      /\ pc' = "run"
      /\ UNCHANGED <<lclock, bliss, next_free, patch, del, available, ram, dirty, new,
                     retry, mode, at, prev, skip, seen, golden, idle, doomed, window>>
  BY DEF PostCheckpoint, nvmVars, walkVars, ghosts
<1>2. /\ CommittedSlot' = CommittedSlot
      /\ origin'[ActiveSlot'] = origin[CommittedSlot]
      /\ origin'[CommittedSlot'] = origin[CommittedSlot]
      /\ alloc' = bliss[CommittedSlot] /\ bliss[CommittedSlot] \in Allocator
      /\ bliss'[CommittedSlot'] = bliss[CommittedSlot]
      /\ mlclock' \in [0..1 -> 0..ClockMod-1] /\ origin' \in [0..1 -> Index]
      /\ ActiveSlot' \in 0..1
  BY <1>1, CoreRestoreCopies
<1>3. /\ dirty = {} /\ doomed = {} /\ new = Nil /\ ~Open /\ mode = "obsolete" /\ ~retry
      /\ available /\ golden = ram /\ U = {} /\ V = {}
  BY <1>1 DEF Control, Modes, Windows, Chained, Places
<1>4. TypeOK'
  BY <1>1, <1>2 DEF TypeOK
<1>5. Ordered(t, rk)
  BY DEF Chained
<1>6. Places(rk, U, V, K)'
  BY <1>1, <1>2 DEF Chained, Control, Modes, Windows, Places, Behind
<1>7. Committed(rk, V, K, cf)'
  BY <1>1, <1>2, <1>3 DEF Chained, Committed
<1>8. Active(rk, U, K, cf)'
  <2>1. bliss[CommittedSlot].n_initialized_blocks <= bliss[CommittedSlot].n_initialized_blocks
    BY <1>2 DEF Allocator
  <2> QED
    BY <1>1, <1>2, <1>3, <2>1 DEF Chained, Committed, Active
<1>9. Claimed(U, K, cf, cf)'
  BY <1>1, <1>3 DEF Chained, Committed, Claimed
<1>10. Saved'
  BY <1>1 DEF Saved
<1>11. Linking(rk, U, K, cf)'
  BY <1>1 DEF Linking
<1>12. Staging(rk, U, K)'
  <2>1. {new} \cap Block = {}
    BY <1>3, NilNoBlock
  <2>2. (U \cup K) \cup ({new} \cap Block) = K /\ Region \ dirty = Region
    BY <1>3, <2>1
  <2>3. Holds(patch, rk, (U \cup K) \cup ({new} \cap Block), ram, Region \ dirty)
    BY <1>3, <2>2 DEF Chained, Committed
  <2> QED
    BY <1>1, <1>3, <2>1, <2>3 DEF Staging
<1>13. Dooming(rk, U, K)'
  BY <1>1 DEF Dooming
<1>14. Walking(rk, U, K)'
  BY <1>1 DEF Walking
<1>15. Unlinking(rk, U, K)'
  BY <1>1 DEF Unlinking
<1>16. Pending(rk, V, K, cf)'
  BY <1>1 DEF Chained, Control, Modes, Windows, Records, Pending
<1>17. Chained(t, rk, U, V, K, cf, cf)'
  BY <1>5, <1>6, <1>7, <1>8, <1>9, <1>10, <1>11,
     <1>12, <1>13, <1>14, <1>15, <1>16 DEF Chained
<1> QED
  BY <1>4, <1>17

\* A boot continues from the committed slot (mpatch.c:231).
LEMMA BeginRestoreStep ==
  ASSUME Sheltered, Control, Control', TypeOK, NEW t, NEW rk, NEW U, NEW V, NEW K, NEW af, NEW cf,
         Chained(t, rk, U, V, K, af, cf), BeginRestore
  PROVE  TypeOK' /\ \E t2, rk2, U2, V2, K2, af2, cf2 :
                     Chained(t2, rk2, U2, V2, K2, af2, cf2)'
<1> USE DEF Sweep, Deletes, Recovers, Open, Deleting, Checkpointing
<1>1. /\ pc = "boot"
      /\ available
      /\ CoreRestore
      /\ pc' = "recover"
      /\ UNCHANGED <<lclock, bliss, next_free, patch, del, available, ram, dirty, new,
                     retry, mode, at, prev, skip, seen, golden, idle, doomed, window>>
  BY DEF BeginRestore, nvmVars, walkVars, ghosts
<1>2. /\ CommittedSlot' = CommittedSlot
      /\ origin'[ActiveSlot'] = origin[CommittedSlot]
      /\ origin'[CommittedSlot'] = origin[CommittedSlot]
      /\ alloc' = bliss[CommittedSlot] /\ bliss[CommittedSlot] \in Allocator
      /\ bliss'[CommittedSlot'] = bliss[CommittedSlot]
      /\ mlclock' \in [0..1 -> 0..ClockMod-1] /\ origin' \in [0..1 -> Index]
      /\ ActiveSlot' \in 0..1
  BY <1>1, CoreRestoreCopies
<1>3. /\ dirty = {} /\ doomed = {} /\ new = Nil /\ ~Open /\ mode = "obsolete" /\ ~retry
      /\ U = V /\ V \cap K = {}
  BY <1>1 DEF Control, Modes, Windows, Chained, Places
<1>4. TypeOK'
  BY <1>1, <1>2 DEF TypeOK
<1>5. Ordered(t, rk)
  BY DEF Chained
<1>6. Places(rk, U, V, K)'
  BY <1>1, <1>2 DEF Chained, Control, Modes, Windows, Places, Behind
<1>7. Committed(rk, V, K, cf)'
  BY <1>1, <1>2, <1>3 DEF Chained, Committed
<1>8. Active(rk, U, K, cf)'
  <2>1. bliss[CommittedSlot].n_initialized_blocks <= bliss[CommittedSlot].n_initialized_blocks
    BY <1>2 DEF Allocator
  <2> QED
    BY <1>1, <1>2, <1>3, <2>1 DEF Chained, Committed, Active
<1>9. Claimed(U, K, cf, cf)'
  BY <1>1, <1>3 DEF Chained, Places, Committed, Claimed
<1>10. Saved'
  BY <1>1 DEF Saved
<1>11. Linking(rk, U, K, cf)'
  BY <1>1 DEF Linking
<1>12. Staging(rk, U, K)'
  BY <1>1 DEF Staging
<1>13. Dooming(rk, U, K)'
  BY <1>1 DEF Dooming
<1>14. Walking(rk, U, K)'
  BY <1>1 DEF Walking
<1>15. Unlinking(rk, U, K)'
  BY <1>1 DEF Unlinking
<1>16. Pending(rk, V, K, cf)'
  BY <1>1 DEF Chained, Control, Modes, Windows, Records, Pending
<1>17. Chained(t, rk, U, V, K, cf, cf)'
  BY <1>5, <1>6, <1>7, <1>8, <1>9, <1>10, <1>11,
     <1>12, <1>13, <1>14, <1>15, <1>16 DEF Chained
<1> QED
  BY <1>4, <1>17

\* A patch is freed (mpatch.c:426): it is on the free list of the program, and
\* stays in the chain.
LEMMA FreePatchStep ==
  ASSUME Sheltered, Control, Control', TypeOK, NEW t, NEW rk, NEW U, NEW V, NEW K, NEW af, NEW cf,
         Chained(t, rk, U, V, K, af, cf), FreePatch
  PROVE  TypeOK' /\ \E t2, rk2, U2, V2, K2, af2, cf2 :
                     Chained(t2, rk2, U2, V2, K2, af2, cf2)'
<1> USE DEF Sweep, Deletes, Recovers, Open, Deleting, Checkpointing
<1>1. /\ pc = "free"
      /\ ~WalkEnds
      /\ Victim
      /\ next_free' = FreeNext(alloc, next_free, at)
      /\ alloc' = Push(alloc, at)
      /\ doomed' = doomed \cup {at}
      /\ at' = patch[at].next
      /\ prev' = <<"next", at>>
      /\ skip' = Uncommitted
      /\ seen' = seen \cup {}
      /\ UNCHANGED <<lclock, mlclock, origin, bliss, patch, del, available, ram,
                     dirty, new, retry, mode, pc, golden, idle, window>>
  BY DEF FreePatch, Advance, nvmVars, walkVars, ghosts
<1>2. ActiveSlot' = ActiveSlot /\ CommittedSlot' = CommittedSlot
  BY <1>1 DEF ActiveSlot, CommittedSlot, ActiveIdx, RestoreIdx
<1>3. /\ Ordered(t, rk) /\ U \in SUBSET Block /\ K \in SUBSET Block /\ U \cap K = {}
      /\ \A b \in Block : rk[b] \in Nat
      /\ \A u \in U, k \in K : rk[k] < rk[u]
  BY Sets
<1>4. PICK h : h = at
  OBVIOUS
<1>5. /\ h # Nil /\ h \in Block /\ h \in U \cup K
      /\ Uncommitted <=> h \in U
      /\ (Obsolete /\ at # Nil) <=> h \in Hidden(patch, rk, K)
  BY <1>1, <1>4, AtPatch DEF WalkEnds
<1>6. Hidden(patch, rk, K) \subseteq K
  BY DEF Hidden
<1>7. /\ mode = "uncommitted" => h \in U
      /\ mode # "uncommitted" => h \in Hidden(patch, rk, K)
  BY <1>5, <1>1, <1>4 DEF Victim
<1>8. /\ at' \in U \cup K \cup {Nil} /\ at' \in Index
      /\ Passed(K, rk, at') = Passed(K, rk, h) \cup ({h} \cap K)
      /\ Passed(U, rk, at') = Passed(U, rk, h) \cup ({h} \cap U)
      /\ Passed(Hidden(patch, rk, K), rk, at') =
           Passed(Hidden(patch, rk, K), rk, h) \cup ({h} \cap Hidden(patch, rk, K))
  <2>1. patch[at].next \in U \cup K \cup {Nil} /\ patch[at].next \in Index
    BY <1>5, <1>1, <1>4, StepOn
  <2>2. ASSUME NEW T, T \subseteq U \cup K
        PROVE  Passed(T, rk, at') = Passed(T, rk, h) \cup ({h} \cap T)
    BY <1>5, <1>1, <1>4, <2>2, StepOn
  <2>3. Passed(K, rk, at') = Passed(K, rk, h) \cup ({h} \cap K)
    BY <2>2
  <2>4. Passed(U, rk, at') = Passed(U, rk, h) \cup ({h} \cap U)
    BY <2>2
  <2>5. Passed(Hidden(patch, rk, K), rk, at') =
          Passed(Hidden(patch, rk, K), rk, h) \cup ({h} \cap Hidden(patch, rk, K))
    BY <1>6, <2>2
  <2> QED
    BY <1>1, <2>1, <2>3, <2>4, <2>5
<1>9. h \notin doomed
  <2>1. doomed = IF mode = "uncommitted" THEN Passed(U, rk, h)
                 ELSE Passed(Hidden(patch, rk, K), rk, h)
    BY <1>1, <1>4 DEF Chained, Dooming
  <2>2. h \notin Passed(U, rk, h) /\ h \notin Passed(Hidden(patch, rk, K), rk, h)
    BY <1>5, <1>3 DEF Passed, Newer
  <2> QED
    BY <2>1, <2>2
<1>10. ~In(h, af) /\ ~In(h, cf)
  <2>1. ~In(h, af)
    BY <1>5, <1>9, <1>1 DEF Chained, Claimed
  <2>2. CASE mode = "uncommitted"
    <3>1. h \in V /\ ~Open
      BY <1>7, <1>1, <2>2 DEF Chained, Places, Control, Windows
    <3> QED
      BY <1>5, <2>1, <3>1 DEF Chained, Committed
  <2>3. CASE mode # "uncommitted"
    <3>1. h \in K
      BY <1>7, <1>6, <2>3
    <3> QED
      BY <1>1, <2>1, <3>1 DEF Chained, Committed
  <2> QED
    BY <2>2, <2>3
<1>11. PICK af2 : af2 = <<h>> \o af
  OBVIOUS
<1>12. /\ next_free' \in Links /\ alloc' \in Allocator
       /\ FreeList(alloc', next_free', af2)
       /\ alloc'.n_initialized_blocks = alloc.n_initialized_blocks
       /\ FreeList(bliss[CommittedSlot], next_free', cf)
  <2>1. /\ alloc \in Allocator /\ next_free \in Links /\ bliss[CommittedSlot] \in Allocator
        /\ FreeList(alloc, next_free, af) /\ FreeList(bliss[CommittedSlot], next_free, cf)
    <3>1. CommittedSlot \in 0..1
      BY SlotsApart DEF Control
    <3> QED
      BY <1>1, <3>1 DEF TypeOK, Links, Chained, Active, Committed
  <2>2. /\ next_free' \in Links /\ alloc' \in Allocator
        /\ FreeList(alloc', next_free', af2)
        /\ alloc'.n_initialized_blocks = alloc.n_initialized_blocks
    BY <1>5, <1>1, <1>4, <1>11, <1>10, <2>1, GiveBlock
  <2>3. FreeList(bliss[CommittedSlot], next_free', cf)
    BY <1>5, <1>1, <1>4, <1>10, <2>1, GiveBlockOther
  <2> QED
    BY <2>2, <2>3
<1>13. \A b : In(b, af2) <=> b = h \/ In(b, af)
  <2>1. af \in Seq(Block)
    BY <1>1 DEF Chained, Active, FreeList
  <2> QED
    BY <1>5, <1>11, <2>1, ConsMembers
<1>14. TypeOK'
  <2>1. prev' \in Pointer
    BY <1>5, <1>1, <1>4, BlocksAssumption DEF Pointer, Index, Block
  <2>2. skip' \in BOOLEAN /\ seen' = seen
    BY <1>1 DEF Uncommitted, TypeOK
  <2> QED
    BY <1>5, <1>8, <1>1, <1>4, <1>12, <2>1, <2>2 DEF TypeOK, Links
<1>15. Ordered(t, rk)
  BY DEF Chained
<1>16. Places(rk, U, V, K)'
  BY <1>1, <1>2 DEF Chained, Control, Modes, Windows, Records, Places, Behind
<1>17. Committed(rk, V, K, cf)'
  BY <1>1, <1>2, <1>12 DEF Chained, Committed
<1>18. Active(rk, U, K, af2)'
  BY <1>1, <1>2, <1>12, <1>13 DEF Chained, Active
<1>19. Claimed(U, K, af2, cf)'
  BY <1>1, <1>13, <1>4 DEF Chained, Claimed
<1>20. Saved'
  BY <1>1 DEF Saved
<1>21. Linking(rk, U, K, af2)'
  BY <1>1 DEF Linking
<1>22. Staging(rk, U, K)'
  BY <1>1 DEF Chained, Staging
<1>23. Dooming(rk, U, K)'
  <2>1. doomed = IF mode = "uncommitted" THEN Passed(U, rk, h)
                 ELSE Passed(Hidden(patch, rk, K), rk, h)
    BY <1>1, <1>4 DEF Chained, Dooming
  <2> QED
    BY <1>1, <1>4, <1>8, <1>7, <2>1 DEF Dooming
<1>24. Walking(rk, U, K)'
  <2>1. skip' <=> Passed(K, rk, at') = {}
    <3>1. h \in U => Passed(K, rk, h) = {}
      BY <1>5, <1>3 DEF Passed, Newer
    <3>2. h \in U <=> Passed(K, rk, at') = {}
      BY <1>5, <1>8, <1>3, <3>1
    <3>3. skip' <=> Uncommitted
      BY <1>1
    <3> QED
      BY <1>5, <3>2, <3>3
  <2>2. seen' = Regions(patch, Passed(K, rk, at'))
    <3>1. seen = Regions(patch, Passed(K, rk, h)) /\ seen' = seen
      BY <1>1, <1>4 DEF Chained, Walking
    <3>2. CASE h \in U
      <4>1. Passed(K, rk, at') = Passed(K, rk, h)
        BY <1>8, <1>3, <3>2
      <4> QED
        BY <3>1, <4>1
    <3>3. CASE h \in K
      <4>1. patch[h].region \in seen
        BY <1>5, <1>7, <1>4, <1>3, <3>3 DEF Obsolete
      <4> QED
        BY <1>8, <3>1, <3>3, <4>1 DEF Regions
    <3> QED
      BY <1>5, <3>2, <3>3
  <2>3. at' = Nil \/ at' \in U \/ at' \in K
    BY <1>8
  <2> QED
    BY <1>1, <2>1, <2>2, <2>3 DEF Walking
<1>25. Unlinking(rk, U, K)'
  BY <1>1 DEF Unlinking
<1>26. Pending(rk, V, K, cf)'
  BY <1>1 DEF Pending
<1>27. Chained(t, rk, U, V, K, af2, cf)'
  BY <1>15, <1>16, <1>17, <1>18, <1>19, <1>20, <1>21,
     <1>22, <1>23, <1>24, <1>25, <1>26 DEF Chained
<1> QED
  BY <1>14, <1>27

-----------------------------------------------------------------------------
(* Publishing a sweep.                                                     *)

\* The clock of the restore moves (mpatch.c:210): what the program works on is
\* committed, for obsolete patches with the staged ones.
LEMMA SweepPublishStep ==
  ASSUME Sheltered, Control, Control', TypeOK, NEW t, NEW rk, NEW U, NEW V, NEW K, NEW af, NEW cf,
         Chained(t, rk, U, V, K, af, cf), SweepPublish
  PROVE  TypeOK' /\ \E t2, rk2, U2, V2, K2, af2, cf2 :
                     Chained(t2, rk2, U2, V2, K2, af2, cf2)'
<1> USE DEF Sweep, Deletes, Recovers, Open, Deleting, Checkpointing
<1>1. /\ pc = "publish"
      /\ mlclock' = [mlclock EXCEPT ![RestoreIdx] = Inc(mlclock[RestoreIdx])]
      /\ window' = (window \ {"uncommitted"}) \cup (IF doomed = {} THEN {} ELSE {mode})
      /\ pc' = "reload"
      /\ UNCHANGED <<lclock, origin, bliss, next_free, patch, del, available, alloc,
                     ram, dirty, new, retry, mode, at, prev, skip, seen, golden, idle,
                     doomed>>
  BY DEF SweepPublish, nvmVars, walkVars, ghosts
<1>2. CommittedSlot' = ActiveSlot /\ ActiveSlot' = ActiveSlot
  <2>1. /\ ActiveIdx \in 0..1 /\ RestoreIdx \in 0..1 /\ ActiveIdx # RestoreIdx
        /\ ActiveIdx' = ActiveIdx /\ RestoreIdx' = RestoreIdx
    <3>1. lclock \in Nat
      BY MPatchAssumption DEF TypeOK
    <3> QED
      BY <1>1, <3>1, Slots DEF ActiveIdx, RestoreIdx
  <2>2. mlclock[ActiveIdx] = Inc(mlclock[RestoreIdx])
    BY <1>1 DEF Control, Clocks
  <2>3. mlclock'[ActiveIdx] = mlclock[ActiveIdx] /\ mlclock'[RestoreIdx] = mlclock[ActiveIdx]
    BY <1>1, <2>1, <2>2 DEF TypeOK
  <2> QED
    BY <2>1, <2>3 DEF ActiveSlot, CommittedSlot
<1>3. /\ U \in SUBSET Block /\ V \subseteq U /\ K \in SUBSET Block /\ U \cap K = {}
  BY Sets
<1>4. /\ mode \in {"obsolete", "uncommitted"} /\ new = Nil
      /\ mode = "uncommitted" => doomed # {}
  BY <1>1 DEF Control, Modes, Windows
<1>5. /\ mode = "uncommitted" => doomed = U
      /\ mode = "obsolete" => doomed \subseteq K
  BY <1>1 DEF Chained, Dooming, Hidden
<1>6. PICK V2 : V2 = IF mode = "uncommitted" THEN {} ELSE U
  OBVIOUS
<1>7. TypeOK'
  BY <1>1 DEF TypeOK, Control, Clocks, Windows
<1>8. Ordered(t, rk)
  BY DEF Chained
<1>9. Places(rk, U, V2, K)'
  BY <1>1, <1>4, <1>6, <1>3 DEF Chained, Places, Behind
<1>10. Committed(rk, V2, K, af)'
  <2>1. mode = "obsolete" => V2 = U
    BY <1>4, <1>6
  <2>2. /\ Linked(patch, rk, U \cup K, origin[ActiveSlot])
        /\ FreeList(bliss[ActiveSlot], next_free, af)
        /\ \A b \in Block : b \in U \/ b \in K \/ In(b, af)
    BY <1>1, <1>4, NilNoBlock DEF Chained, Active, Saved
  <2>3. \A b \in U \cup K : In(b, af) <=> b \in doomed
    BY <1>1 DEF Chained, Claimed
  <2>4. mode = "obsolete" => \A b \in U : ~In(b, af)
    BY <1>5, <1>3, <2>3
  <2>5. \A b \in K : In(b, af) <=> Deleting' /\ b \in doomed
    BY <1>5, <1>1, <1>4, <1>3, <2>3
  <2>6. IF available THEN Holds(patch, rk, K, golden, Region) ELSE K = {}
    BY <1>1 DEF Chained, Committed
  <2>7. ~Open' <=> mode = "obsolete"
    BY <1>1, <1>4
  <2> QED
    BY <1>2, <1>1, <2>1, <2>2, <2>4, <2>5, <2>6, <2>7 DEF Committed
<1>11. Active(rk, U, K, af)'
  <2>1. bliss[ActiveSlot] = alloc /\ alloc.n_initialized_blocks <= alloc.n_initialized_blocks
    BY <1>1 DEF Chained, Saved, TypeOK, Allocator
  <2> QED
    BY <1>2, <1>1, <2>1 DEF Chained, Active
<1>12. Claimed(U, K, af, af)'
  BY <1>1 DEF Chained, Claimed
<1>13. Saved'
  BY <1>2, <1>1 DEF Chained, Saved
<1>14. Linking(rk, U, K, af)'
  BY <1>1 DEF Linking
<1>15. Staging(rk, U, K)'
  BY <1>1 DEF Chained, Staging
<1>16. Dooming(rk, U, K)'
  BY <1>1 DEF Chained, Dooming
<1>17. Walking(rk, U, K)'
  BY <1>1 DEF Walking
<1>18. Unlinking(rk, U, K)'
  BY <1>1 DEF Unlinking
<1>19. Pending(rk, V2, K, af)'
  BY <1>1 DEF Pending
<1>20. Chained(t, rk, U, V2, K, af, af)'
  BY <1>8, <1>9, <1>10, <1>11, <1>12, <1>13, <1>14,
     <1>15, <1>16, <1>17, <1>18, <1>19 DEF Chained
<1> QED
  BY <1>7, <1>20

\* The active slot is made anew (mpatch.c:231), and pass two starts at the newest
\* patch.
LEMMA SweepReloadStep ==
  ASSUME Sheltered, Control, Control', TypeOK, NEW t, NEW rk, NEW U, NEW V, NEW K, NEW af, NEW cf,
         Chained(t, rk, U, V, K, af, cf), SweepReload
  PROVE  TypeOK' /\ Chained(t, rk, U, V, K, af, cf)'
<1> USE DEF Sweep, Deletes, Recovers, Open, Deleting, Checkpointing
<1>1. /\ pc = "reload"
      /\ pc' = "delete"
      /\ CoreRestore
      /\ at' = origin'[ActiveSlot']
      /\ prev' = <<"origin", ActiveSlot'>>
      /\ skip' = TRUE
      /\ seen' = {}
      /\ UNCHANGED <<lclock, bliss, next_free, patch, del, available, ram, dirty, new,
                     retry, mode, golden, idle, doomed, window>>
  BY DEF SweepReload, StartWalk, nvmVars, walkVars, ghosts
<1>2. /\ CommittedSlot' = CommittedSlot
      /\ origin'[ActiveSlot'] = origin[CommittedSlot]
      /\ origin'[CommittedSlot'] = origin[CommittedSlot]
      /\ alloc' = bliss[CommittedSlot] /\ bliss[CommittedSlot] \in Allocator
      /\ bliss'[CommittedSlot'] = bliss[CommittedSlot]
      /\ mlclock' \in [0..1 -> 0..ClockMod-1] /\ origin' \in [0..1 -> Index]
      /\ ActiveSlot' \in 0..1
  BY <1>1, CoreRestoreCopies
<1>3. /\ ActiveSlot = CommittedSlot
      /\ alloc' = alloc /\ origin'[ActiveSlot'] = origin[ActiveSlot]
  <2>1. ActiveSlot = CommittedSlot
    BY <1>1, SlotsApart DEF Control
  <2> QED
    BY <1>2, <1>1, <2>1 DEF Chained, Saved
<1>4. mode = "obsolete" => U = V
  BY <1>1 DEF Chained, Places
<1>5. Ordered(t, rk) /\ U \cup K \in SUBSET Block
  BY Sets
<1>6. Newest(U \cup K, rk, at')
  BY <1>3, <1>1 DEF Chained, Active, Linked
<1>7. /\ at' = Nil \/ at' \in U \/ at' \in K
      /\ Passed(K, rk, at') = {} /\ Passed(U \cup K, rk, at') = {}
  <2>1. at' = Nil \/ at' \in U \cup K
    BY <1>6, <1>5, StartsAhead
  <2>2. Passed(K, rk, at') = {}
    BY <1>6, <1>5, StartsAhead
  <2>3. Passed(U \cup K, rk, at') = {}
    BY <1>6, <1>5, StartsAhead
  <2> QED
    BY <2>1, <2>2, <2>3
<1>8. Regions(patch, {}) = {}
  BY DEF Regions
<1>9. TypeOK'
  <2>1. prev' \in Pointer /\ at' \in Index
    BY <1>2, <1>1, BlocksAssumption DEF Pointer, Index
  <2> QED
    BY <1>2, <1>1, <2>1 DEF TypeOK
<1>10. Ordered(t, rk)
  BY DEF Chained
<1>11. Places(rk, U, V, K)'
  BY <1>1, <1>2, <1>4 DEF Chained, Places, Behind
<1>12. Committed(rk, V, K, cf)'
  BY <1>1, <1>2 DEF Chained, Committed
<1>13. Active(rk, U, K, af)'
  BY <1>1, <1>2, <1>3 DEF Chained, Active
<1>14. Claimed(U, K, af, cf)'
  BY <1>1 DEF Chained, Claimed
<1>15. Saved'
  BY <1>1 DEF Saved
<1>16. Linking(rk, U, K, af)'
  BY <1>1 DEF Linking
<1>17. Staging(rk, U, K)'
  BY <1>1 DEF Chained, Staging
<1>18. Dooming(rk, U, K)'
  BY <1>1 DEF Chained, Dooming
<1>19. Walking(rk, U, K)'
  BY <1>1, <1>7, <1>8 DEF Walking
<1>20. Unlinking(rk, U, K)'
  BY <1>1, <1>7 DEF Unlinking
<1>21. Pending(rk, V, K, cf)'
  BY <1>1 DEF Pending
<1> QED
  BY <1>9, <1>10, <1>11, <1>12, <1>13, <1>14, <1>15,
     <1>16, <1>17, <1>18, <1>19, <1>20, <1>21 DEF Chained

-----------------------------------------------------------------------------
(* Taking a patch out of the chain.                                        *)

\* The patch is taken out of the chain (mpatch.c:470).
LEMMA PerformDeleteStep ==
  ASSUME Sheltered, Control, Control', TypeOK, NEW t, NEW rk, NEW U, NEW V, NEW K, NEW af, NEW cf,
         Chained(t, rk, U, V, K, af, cf), PerformDelete
  PROVE  TypeOK' /\ \E t2, rk2, U2, V2, K2, af2, cf2 :
                     Chained(t2, rk2, U2, V2, K2, af2, cf2)'
<1> USE DEF Sweep, Deletes, Recovers, Open, Deleting, Checkpointing
<1>1. /\ pc = "modify"
      /\ pc' = "clear"
      /\ Unlink
      /\ doomed' = doomed \ {at}
      /\ UNCHANGED <<lclock, mlclock, bliss, next_free, del, available, alloc, ram,
                     dirty, new, retry, mode, at, prev, skip, seen, golden, idle,
                     window>>
  BY DEF PerformDelete, nvmVars, walkVars, ghosts
<1>2. ActiveSlot' = ActiveSlot /\ CommittedSlot' = CommittedSlot
  BY <1>1 DEF ActiveSlot, CommittedSlot, ActiveIdx, RestoreIdx
<1>3. PICK h : h = at
  OBVIOUS
<1>4. PICK U2, K2 : U2 = U \ {h} /\ K2 = K \ {h}
  OBVIOUS
<1>5. /\ Ordered(t, rk) /\ U \in SUBSET Block /\ V \subseteq U /\ K \in SUBSET Block /\ U \cap K = {}
      /\ U \cup K \in SUBSET Block /\ V \cup K \in SUBSET Block
      /\ K \in SUBSET K /\ K \in SUBSET (U \cup K) /\ K \in SUBSET (V \cup K)
      /\ \A b \in Block : rk[b] \in Nat
      /\ \A u \in U, k \in K : rk[k] < rk[u]
  BY Sets
<1>6. mode \in {"obsolete", "uncommitted"} /\ new = Nil
  BY <1>1 DEF Control, Modes
<1>7. ActiveSlot \in 0..1 /\ CommittedSlot \in 0..1 /\ ActiveSlot # CommittedSlot
  BY <1>1, SlotsApart DEF Control
<1>8. /\ h \in Block /\ h # Nil /\ h \in doomed /\ h \in U \cup K
      /\ mode = "uncommitted" => doomed = U /\ h \in U /\ h \notin K /\ V = {} /\ Open
      /\ mode = "obsolete" => /\ doomed = Hidden(patch, rk, K) /\ h \in Hidden(patch, rk, K)
                              /\ h \in K /\ h \notin U /\ U = V /\ ~Open
  <2>1. h \in doomed
    BY <1>1, <1>3 DEF Chained, Unlinking
  <2>2. mode = "uncommitted" => doomed = U /\ V = {} /\ Open
    BY <1>1 DEF Chained, Dooming, Places, Control, Windows
  <2>3. mode = "obsolete" => doomed = Hidden(patch, rk, K) /\ U = V /\ ~Open
    BY <1>1 DEF Chained, Dooming, Places, Control, Windows
  <2>4. Hidden(patch, rk, K) \subseteq K
    BY DEF Hidden
  <2> QED
    BY <1>6, <1>5, <2>1, <2>2, <2>3, <2>4, NilNoBlock
<1>9. /\ del = {<<prev, patch[h].next>>} /\ patch \in [Block -> Patch] /\ patch[h].next \in Index
      /\ origin \in [0..1 -> Index]
  BY <1>1, <1>3, <1>8 DEF Control, Records, TypeOK, Patch
<1>10. mode = "uncommitted" =>
         /\ patch' = patch /\ origin' = [origin EXCEPT ![ActiveSlot] = patch[h].next]
         /\ Linked(patch, rk, U \cup K, h)
  <2> SUFFICES ASSUME mode = "uncommitted"
               PROVE  /\ patch' = patch /\ origin' = [origin EXCEPT ![ActiveSlot] = patch[h].next]
                      /\ Linked(patch, rk, U \cup K, h)
    OBVIOUS
  <2>1. Passed(U \cup K, rk, h) = {} /\ prev = <<"origin", ActiveSlot>>
    BY <1>1, <1>3 DEF Chained, Unlinking
  <2>2. patch' = patch /\ origin' = [origin EXCEPT ![ActiveSlot] = patch[h].next]
    BY <1>9, <1>1, <2>1 DEF Unlink
  <2>3. Linked(patch, rk, U \cup K, origin[ActiveSlot])
    BY <1>1 DEF Chained, Active
  <2>4. Newest(U \cup K, rk, h)
    BY <1>8, <1>5, <2>1 DEF Newest, Passed, Newer
  <2>5. Newest(U \cup K, rk, origin[ActiveSlot])
    BY <2>3 DEF Linked
  <2>6. origin[ActiveSlot] = h
    BY <1>5, <2>4, <2>5, NewestUnique
  <2> QED
    BY <2>2, <2>3, <2>6
<1>11. mode = "obsolete" =>
         /\ origin' = origin
         /\ \E w \in U \cup K : /\ w # h /\ patch[w].next = h
                                /\ Relinked(patch, patch', w, patch[h].next)
                                /\ patch'[w].next = patch[h].next
                                /\ del = {<<<<"next", w>>, patch[h].next>>}
  <2> SUFFICES ASSUME mode = "obsolete"
               PROVE  /\ origin' = origin
                      /\ \E w \in U \cup K : /\ w # h /\ patch[w].next = h
                                             /\ Relinked(patch, patch', w, patch[h].next)
                                             /\ patch'[w].next = patch[h].next
                                             /\ del = {<<<<"next", w>>, patch[h].next>>}
    OBVIOUS
  <2>1. PICK w \in U \cup K : prev = <<"next", w>> /\ patch[w].next = h
    BY <1>1, <1>3, Predecessor
  <2>2. origin' = origin /\ patch' = [patch EXCEPT ![w].next = patch[h].next]
    BY <1>9, <1>1, <2>1 DEF Unlink
  <2>3. w \in Block
    BY <1>5
  <2>4. Relinked(patch, patch', w, patch[h].next)
    BY <1>9, <2>2, <2>3, Relink
  <2>5. w # h
    <3>1. Linked(patch, rk, U \cup K, origin[ActiveSlot])
      BY <1>1 DEF Chained, Active
    <3>2. U \cup K \in SUBSET Block /\ Ordered(t, rk) /\ h \in U \cup K
      BY <1>5, <1>8
    <3> HIDE DEF Linked, Relinked, Ordered
    <3> QED
      BY <2>1, <2>4, <3>1, <3>2, UnlinkMiddle
  <2>6. patch'[w].next = patch[h].next
    BY <2>4 DEF Relinked
  <2> QED
    BY <1>9, <2>1, <2>2, <2>4, <2>5, <2>6
<1>12. /\ patch' \in [Block -> Patch] /\ origin' \in [0..1 -> Index]
       /\ \A c \in Block : /\ patch'[c].stage_clock = patch[c].stage_clock
                           /\ patch'[c].region = patch[c].region /\ patch'[c].data = patch[c].data
  <2>1. CASE mode = "uncommitted"
    BY <1>7, <1>9, <1>10, <2>1
  <2>2. CASE mode = "obsolete"
    BY <1>9, <1>11, <2>2 DEF Relinked
  <2> QED
    BY <1>6, <2>1, <2>2
<1>13. patch'[h].next = patch[h].next
  <2>1. CASE mode = "uncommitted"
    BY <1>10, <2>1
  <2>2. CASE mode = "obsolete"
    BY <1>8, <1>11, <2>2 DEF Relinked
  <2> QED
    BY <1>6, <2>1, <2>2
<1>14. Linked(patch', rk, (U \cup K) \ {h}, origin'[ActiveSlot])
  <2>1. CASE mode = "uncommitted"
    <3>1. origin'[ActiveSlot] = patch[h].next
      BY <1>7, <1>9, <1>10, <2>1
    <3> QED
      BY <1>8, <1>10, <1>5, <2>1, <3>1, UnlinkFirst
  <2>2. CASE mode = "obsolete"
    <3>1. Linked(patch, rk, U \cup K, origin[ActiveSlot])
      BY <1>1 DEF Chained, Active
    <3>2. Linked(patch', rk, (U \cup K) \ {h}, origin[ActiveSlot])
      BY <1>8, <1>11, <1>5, <2>2, <3>1, UnlinkMiddle
    <3> QED
      BY <1>11, <2>2, <3>2
  <2> QED
    BY <1>6, <2>1, <2>2
<1>15. Passed(K2, rk, at) = Passed(K, rk, at) /\ Passed(U2 \cup K2, rk, at) = Passed(U \cup K, rk, at)
  BY <1>3, <1>8, <1>4, <1>5 DEF Passed, Newer
<1>16. TypeOK'
  <2>1. doomed' \subseteq Block
    BY <1>1 DEF TypeOK
  <2> QED
    BY <1>12, <1>1, <2>1 DEF TypeOK
<1>17. Ordered(t, rk)
  BY DEF Chained
<1>18. Places(rk, U2, V, K2)'
  <2>1. \A k \in K2 : (\A c \in K2 : rk[c] <= rk[k]) => Behind(patch'[k].stage_clock, idle)
    <3> SUFFICES ASSUME NEW k \in K2, \A c \in K2 : rk[c] <= rk[k]
                 PROVE  Behind(patch'[k].stage_clock, idle)
      OBVIOUS
    <3>1. k \in K /\ \A c \in K : rk[c] <= rk[k]
      <4>1. CASE mode = "uncommitted"
        BY <1>8, <1>4, <1>5, <4>1
      <4>2. CASE mode = "obsolete"
        BY <1>8, <1>4, <1>5, <4>2, NewestStays
      <4> QED
        BY <1>6, <4>1, <4>2
    <3>2. patch'[k].stage_clock = patch[k].stage_clock
      BY <1>12, <1>5, <3>1
    <3> QED
      BY <3>1, <3>2 DEF Chained, Places
  <2>2. \A u \in U2 : patch'[u].stage_clock = lclock
    <3>1. \A u \in U2 : u \in U /\ u \in Block
      BY <1>4, <1>5
    <3> QED
      BY <1>12, <3>1 DEF Chained, Places
  <2>3. V \subseteq U2 /\ (Deleting => U2 = V)
    BY <1>6, <1>8, <1>4, <1>5
  <2> QED
    BY <1>1, <1>6, <1>8, <1>4, <1>5, <2>1, <2>2, <2>3 DEF Places, Behind
<1>19. Committed(rk, V, K2, cf)'
  <2>1. CASE mode = "uncommitted"
    BY <1>1, <1>6, <1>8, <1>10, <1>2, <1>4, <1>5, <2>1 DEF Chained, Committed
  <2>2. CASE mode = "obsolete"
    <3>1. IF available THEN Holds(patch', rk, K2, golden, Region) ELSE K2 = {}
      <4>1. Holds(patch, rk, K, golden, Region) => Holds(patch', rk, K2, golden, Region)
        BY <1>8, <1>11, <1>4, <1>5, <2>2, WithoutHidden
      <4> QED
        BY <1>4, <4>1 DEF Chained, Committed
    <3>2. Linked(patch', rk, V \cup K2, origin'[CommittedSlot])
      <4>1. Linked(patch, rk, V \cup K, origin[CommittedSlot])
        BY <1>8, <2>2 DEF Chained, Committed
      <4>2. Linked(patch', rk, (V \cup K) \ {h}, origin[CommittedSlot])
        BY <1>8, <1>11, <1>5, <2>2, <4>1, UnlinkMiddle
      <4>3. (V \cup K) \ {h} = V \cup K2
        BY <1>8, <1>4, <1>5, <2>2
      <4> QED
        BY <1>11, <2>2, <4>2, <4>3
    <3>3. \A b \in K : In(b, cf) <=> b \in doomed
      BY <1>1, <2>2 DEF Chained, Committed
    <3>4. \A b \in Block : b \in V \/ b \in K2 \/ In(b, cf)
      <4>1. \A b \in Block : b \in V \/ b \in K \/ In(b, cf)
        BY <1>8, <2>2 DEF Chained, Committed
      <4> QED
        BY <1>8, <1>4, <2>2, <3>3, <4>1
    <3>5. \A b \in K2 : In(b, cf) <=> b \in doomed'
      BY <1>1, <1>3, <1>4, <3>3
    <3> QED
      BY <1>1, <1>8, <1>2, <2>2, <3>1, <3>2, <3>4, <3>5 DEF Chained, Committed
  <2> QED
    BY <1>6, <2>1, <2>2
<1>20. Active(rk, U2, K2, af)'
  <2>1. (U \cup K) \ {h} = U2 \cup K2
    BY <1>4
  <2>2. In(h, af)
    BY <1>1, <1>8 DEF Chained, Claimed
  <2> QED
    BY <1>1, <1>14, <1>2, <1>4, <2>1, <2>2 DEF Chained, Active
<1>21. Claimed(U2, K2, af, cf)'
  BY <1>1, <1>3, <1>4 DEF Chained, Claimed
<1>22. Saved'
  BY <1>1 DEF Saved
<1>23. Linking(rk, U2, K2, af)'
  BY <1>1 DEF Linking
<1>24. Staging(rk, U2, K2)'
  <2> SUFFICES ASSUME mode = "obsolete" PROVE Staging(rk, U2, K2)'
    BY <1>1 DEF Staging
  <2>1. {new} \cap Block = {}
    BY <1>6, NilNoBlock
  <2>2. /\ Holds(patch, rk, (U \cup K) \cup ({new} \cap Block), ram, Region \ dirty)
        /\ \A u \in U \cup ({new} \cap Block) : patch[u].region \notin dirty
        /\ \A u, w \in U \cup ({new} \cap Block) : patch[u].region = patch[w].region => u = w
    BY <1>1 DEF Chained, Staging
  <2>3. (U \cup K) \cup ({new} \cap Block) = U \cup K /\ U \cup ({new} \cap Block) = U /\ U2 = U
    BY <1>8, <1>4, <1>5, <2>1
  <2>4. Holds(patch, rk, U \cup K, ram, Region \ dirty)
    BY <2>2, <2>3
  <2>5. Holds(patch', rk, (U \cup K) \ {h}, ram, Region \ dirty)
    BY <1>8, <1>11, <1>5, <2>4, WithoutHidden
  <2>6. (U \cup K) \ {h} = (U2 \cup K2) \cup ({new} \cap Block)
    BY <1>4, <2>1
  <2>7. Holds(patch', rk, (U2 \cup K2) \cup ({new} \cap Block), ram, Region \ dirty)
    BY <2>5, <2>6
  <2>8. \A u \in U : patch'[u].region = patch[u].region
    BY <1>12, <1>5
  <2> QED
    BY <1>1, <2>1, <2>2, <2>3, <2>7, <2>8 DEF Staging
<1>25. Dooming(rk, U2, K2)'
  <2>1. mode = "obsolete" => Hidden(patch', rk, K2) = Hidden(patch, rk, K) \ {h}
    <3> SUFFICES ASSUME mode = "obsolete"
                 PROVE  Hidden(patch', rk, K2) = Hidden(patch, rk, K) \ {h}
      OBVIOUS
    <3>1. PICK w : Relinked(patch, patch', w, patch[h].next)
      BY <1>11
    <3>2. h \in Hidden(patch, rk, K)
      BY <1>8
    <3>3. Hidden(patch', rk, K \ {h}) = Hidden(patch, rk, K) \ {h}
      BY <1>5, <3>1, <3>2, HiddenStay
    <3> QED
      BY <1>4, <3>3
  <2> QED
    BY <1>1, <1>6, <1>3, <1>8, <1>4, <2>1 DEF Dooming
<1>26. Walking(rk, U2, K2)'
  <2>1. skip <=> Passed(K, rk, at) = {}
    BY <1>1 DEF Chained, Walking
  <2>2. seen = Regions(patch, Passed(K, rk, at))
    BY <1>1 DEF Chained, Walking
  <2>3. Regions(patch', Passed(K, rk, at)) = Regions(patch, Passed(K, rk, at))
    <3>1. Passed(K, rk, at) \subseteq Block
      BY <1>5 DEF Passed, Newer
    <3> QED
      BY <1>12, <3>1 DEF Regions
  <2> QED
    BY <1>1, <1>15, <2>1, <2>2, <2>3 DEF Walking
<1>27. Unlinking(rk, U2, K2)'
  <2>1. Newest(Older(U2 \cup K2, rk, h), rk, patch'[h].next)
    <3>1. Older(U2 \cup K2, rk, h) = Older(U \cup K, rk, h)
      BY <1>8, <1>4, <1>5 DEF Older
    <3>2. Newest(Older(U \cup K, rk, h), rk, patch[h].next)
      BY <1>1, <1>8 DEF Chained, Active, Linked
    <3> QED
      BY <1>13, <3>1, <3>2
  <2>2. h \in Block /\ h \notin U2 /\ h \notin K2
    BY <1>8, <1>4
  <2>3. mode = "obsolete" =>
          \E w \in U2 \cup K2 : /\ del = {<<<<"next", w>>, patch'[h].next>>}
                                /\ patch'[w].next = patch'[h].next
    BY <1>13, <1>11, <1>4
  <2>4. IF Passed(U \cup K, rk, at) = {} THEN prev = <<"origin", ActiveSlot>>
        ELSE \E w \in Passed(U \cup K, rk, at) :
               prev = <<"next", w>> /\ \A c \in Passed(U \cup K, rk, at) : rk[w] <= rk[c]
    BY <1>1 DEF Chained, Unlinking
  <2>5. mode = "uncommitted" => Passed(U \cup K, rk, at) = {}
    BY <1>1 DEF Chained, Unlinking
  <2>6. mode = "obsolete" => Passed(K, rk, at) \cap doomed = {}
    BY <1>1 DEF Chained, Unlinking
  <2>7. mode = "obsolete" => Passed(K2, rk, at) \cap doomed' = {}
    BY <1>1, <1>15, <2>6
  <2> QED
    BY <1>1, <1>3, <1>15, <1>2, <2>1, <2>2, <2>3, <2>4, <2>5, <2>7 DEF Unlinking
<1>28. Pending(rk, V, K2, cf)'
  BY <1>1 DEF Pending
<1>29. Chained(t, rk, U2, V, K2, af, cf)'
  BY <1>17, <1>18, <1>19, <1>20, <1>21, <1>22, <1>23,
     <1>24, <1>25, <1>26, <1>27, <1>28 DEF Chained
<1> QED
  BY <1>16, <1>29

\* The interrupted deletion is repeated (mpatch.c:486): it was done before, or it
\* takes the patch out now.
LEMMA RecoverDeleteStep ==
  ASSUME Sheltered, Control, Control', TypeOK, NEW t, NEW rk, NEW U, NEW V, NEW K, NEW af, NEW cf,
         Chained(t, rk, U, V, K, af, cf), RecoverDelete
  PROVE  TypeOK' /\ \E t2, rk2, U2, V2, K2, af2, cf2 :
                     Chained(t2, rk2, U2, V2, K2, af2, cf2)'
<1> USE DEF Sweep, Deletes, Recovers, Open, Deleting, Checkpointing
<1>1. /\ pc = "recover"
      /\ pc' = "recovered"
      /\ del # {}
      /\ Unlink
      /\ UNCHANGED <<lclock, mlclock, bliss, next_free, del, available, alloc, ram,
                     dirty, new, retry, mode, at, prev, skip, seen, golden, idle,
                     doomed, window>>
  BY DEF RecoverDelete, nvmVars, walkVars, ghosts
<1>2. ActiveSlot' = ActiveSlot /\ CommittedSlot' = CommittedSlot
  BY <1>1 DEF ActiveSlot, CommittedSlot, ActiveIdx, RestoreIdx
<1>3. /\ Ordered(t, rk) /\ U \in SUBSET Block /\ V \subseteq U /\ K \in SUBSET Block /\ U \cap K = {}
      /\ U \cup K \in SUBSET Block /\ K \in SUBSET K
      /\ \A b \in Block : rk[b] \in Nat
      /\ \A u \in U, k \in K : rk[k] < rk[u]
  BY Sets
<1>4. mode = "obsolete" /\ ~Open /\ U = V
  BY <1>1 DEF Control, Modes, Windows, Chained, Places
<1>5. patch \in [Block -> Patch] /\ origin \in [0..1 -> Index]
  BY DEF TypeOK
<1>6. PICK w \in V \cup K, n \in Index : /\ del = {<<<<"next", w>>, n>>}
                                         /\ \/ n = patch[w].next /\ \A b \in K : ~In(b, cf)
                                            \/ \E x \in Hidden(patch, rk, K) :
                                                 /\ n = patch[x].next /\ patch[w].next = x
                                                 /\ \A b \in K : In(b, cf) <=> b = x
  <2>1. \A c \in V \cup K : patch[c].next \in Index
    BY <1>5, <1>3 DEF Patch
  <2>2. Hidden(patch, rk, K) \subseteq V \cup K
    BY DEF Hidden
  <2> QED
    BY <1>1, <2>1, <2>2 DEF Chained, Pending
<1>7. origin' = origin /\ Relinked(patch, patch', w, n)
  <2>1. origin' = origin /\ patch' = [patch EXCEPT ![w].next = n]
    BY <1>1, <1>6 DEF Unlink
  <2>2. w \in Block
    BY <1>3
  <2> QED
    BY <1>5, <2>1, <2>2, Relink
<1>8. /\ patch' \in [Block -> Patch]
      /\ \A c \in Block : /\ patch'[c].stage_clock = patch[c].stage_clock
                          /\ patch'[c].region = patch[c].region /\ patch'[c].data = patch[c].data
  BY <1>7 DEF Relinked
<1>9. PICK K2 : /\ K2 \subseteq K /\ \A b \in K \ K2 : In(b, cf)
                /\ \A b \in K2 : ~In(b, cf)
                /\ \A first : Linked(patch, rk, U \cup K, first) => Linked(patch', rk, U \cup K2, first)
                /\ \A mem, R : Holds(patch, rk, K, mem, R) => Holds(patch', rk, K2, mem, R)
                /\ \A h \in K2 : (\A k \in K2 : rk[k] <= rk[h]) => \A k \in K : rk[k] <= rk[h]
                /\ \E v \in V \cup K2 : del = {<<<<"next", v>>, patch'[v].next>>}
  <2>1. CASE n = patch[w].next /\ \A b \in K : ~In(b, cf)
    <3>1. \A c \in U \cup K : patch'[c].next = patch[c].next
      BY <1>7, <1>3, <2>1 DEF Relinked
    <3>2. \A first : Linked(patch, rk, U \cup K, first) => Linked(patch', rk, U \cup K, first)
      BY <1>3, <3>1, LinkedFrame
    <3>3. \A mem, R : Holds(patch, rk, K, mem, R) => Holds(patch', rk, K, mem, R)
      BY <1>8, <1>3, ShownFrame
    <3>4. del = {<<<<"next", w>>, patch'[w].next>>}
      BY <1>4, <1>6, <2>1, <3>1
    <3> QED
      BY <2>1, <3>2, <3>3, <3>4
  <2>2. ASSUME NEW x \in Hidden(patch, rk, K), n = patch[x].next, patch[w].next = x,
               \A b \in K : In(b, cf) <=> b = x
        PROVE  \E K2 : /\ K2 \subseteq K /\ \A b \in K \ K2 : In(b, cf)
                       /\ \A b \in K2 : ~In(b, cf)
                       /\ \A first : Linked(patch, rk, U \cup K, first) =>
                                       Linked(patch', rk, U \cup K2, first)
                       /\ \A mem, R : Holds(patch, rk, K, mem, R) => Holds(patch', rk, K2, mem, R)
                       /\ \A h \in K2 : (\A k \in K2 : rk[k] <= rk[h]) =>
                                          \A k \in K : rk[k] <= rk[h]
                       /\ \E v \in V \cup K2 : del = {<<<<"next", v>>, patch'[v].next>>}
    <3>1. PICK K2 : K2 = K \ {x}
      OBVIOUS
    <3>2. x \in K /\ x \in Block /\ w \in U \cup K /\ (U \cup K) \ {x} = U \cup K2
      BY <1>4, <1>3, <3>1 DEF Hidden
    <3>3. \A first : Linked(patch, rk, U \cup K, first) =>
            Linked(patch', rk, (U \cup K) \ {x}, first) /\ w # x
      BY <1>7, <1>3, <2>2, <3>2, UnlinkMiddle
    <3>4. w # x
      BY <1>1, <3>3 DEF Chained, Active
    <3>5. \A mem, R : Holds(patch, rk, K, mem, R) => Holds(patch', rk, K2, mem, R)
      BY <1>7, <1>3, <3>1, WithoutHidden
    <3>6. \A h \in K2 : (\A k \in K2 : rk[k] <= rk[h]) => \A k \in K : rk[k] <= rk[h]
      BY <1>3, <3>1, NewestStays
    <3>7. w \in V \cup K2 /\ del = {<<<<"next", w>>, patch'[w].next>>}
      BY <1>7, <1>6, <2>2, <3>1, <3>4 DEF Relinked
    <3>8. /\ K2 \subseteq K /\ \A b \in K \ K2 : In(b, cf)
          /\ \A b \in K2 : ~In(b, cf)
      BY <2>2, <3>1
    <3>9. \A first : Linked(patch, rk, U \cup K, first) => Linked(patch', rk, U \cup K2, first)
      BY <3>2, <3>3
    <3> QED
      BY <3>5, <3>6, <3>7, <3>8, <3>9
  <2> QED
    BY <1>6, <2>1, <2>2
<1>10. TypeOK'
  BY <1>8, <1>1, <1>7 DEF TypeOK
<1>11. Ordered(t, rk)
  BY DEF Chained
<1>12. Places(rk, U, V, K2)'
  <2>1. \A u \in U : patch'[u].stage_clock = lclock
    BY <1>8, <1>3 DEF Chained, Places
  <2>2. \A k \in K2 : (\A c \in K2 : rk[c] <= rk[k]) => Behind(patch'[k].stage_clock, idle)
    <3> SUFFICES ASSUME NEW k \in K2, \A c \in K2 : rk[c] <= rk[k]
                 PROVE  Behind(patch'[k].stage_clock, idle)
      OBVIOUS
    <3>1. k \in K /\ \A c \in K : rk[c] <= rk[k]
      BY <1>9
    <3>2. patch'[k].stage_clock = patch[k].stage_clock
      BY <1>8, <1>3, <3>1
    <3> QED
      BY <3>1, <3>2 DEF Chained, Places
  <2> QED
    BY <1>1, <1>4, <1>9, <1>3, <2>1, <2>2 DEF Places, Behind
<1>13. Committed(rk, V, K2, cf)'
  <2>1. IF available THEN Holds(patch', rk, K2, golden, Region) ELSE K2 = {}
    BY <1>9 DEF Chained, Committed
  <2>2. Linked(patch', rk, V \cup K2, origin[CommittedSlot])
    <3>1. Linked(patch, rk, U \cup K, origin[CommittedSlot])
      BY <1>4 DEF Chained, Committed
    <3> QED
      BY <1>4, <1>9, <3>1
  <2>3. \A b \in Block : b \in V \/ b \in K2 \/ In(b, cf)
    BY <1>4, <1>9 DEF Chained, Committed
  <2> QED
    BY <1>1, <1>4, <1>9, <1>7, <1>2, <2>1, <2>2, <2>3 DEF Chained, Committed
<1>14. Active(rk, U, K2, af)'
  <2>1. Linked(patch', rk, U \cup K2, origin[ActiveSlot])
    BY <1>1, <1>9 DEF Chained, Active
  <2>2. \A b \in Block : b \in U \/ b \in K2 \/ In(b, af) \/ b = new
    <3>1. \A b \in K : In(b, cf) => In(b, af)
      BY <1>1 DEF Chained, Claimed
    <3> QED
      BY <1>1, <1>9, <3>1 DEF Chained, Active
  <2> QED
    BY <1>1, <1>7, <1>2, <2>1, <2>2 DEF Chained, Active
<1>15. Claimed(U, K2, af, cf)'
  BY <1>1, <1>9, <1>3 DEF Chained, Claimed
<1>16. Saved'
  BY <1>1 DEF Saved
<1>17. Linking(rk, U, K2, af)'
  BY <1>1 DEF Linking
<1>18. Staging(rk, U, K2)'
  BY <1>1 DEF Staging
<1>19. Dooming(rk, U, K2)'
  BY <1>1 DEF Dooming
<1>20. Walking(rk, U, K2)'
  BY <1>1 DEF Walking
<1>21. Unlinking(rk, U, K2)'
  BY <1>1 DEF Unlinking
<1>22. Pending(rk, V, K2, cf)'
  BY <1>1, <1>9 DEF Pending
<1>23. Chained(t, rk, U, V, K2, af, cf)'
  BY <1>11, <1>12, <1>13, <1>14, <1>15, <1>16, <1>17,
     <1>18, <1>19, <1>20, <1>21, <1>22 DEF Chained
<1> QED
  BY <1>10, <1>23

-----------------------------------------------------------------------------
(* Power failures and the first boot.                                      *)

\* A power failure leaves everything typed.
LEMMA PowerFailTypes ==
  ASSUME TypeOK, PowerFail
  PROVE  TypeOK'
<1>1. /\ DefaultAllocator \in Allocator /\ Nil \in Index /\ <<"origin", 0>> \in Pointer
      /\ 0 \in Index
  BY DefaultKeeps, NilNoBlock, BlocksAssumption DEF Pointer, Index
<1>2. ram' \in Memory
  <2>1. 1 \in Region
    BY MPatchAssumption DEF Region
  <2>2. ram[1] \in Value
    BY <2>1 DEF TypeOK, Memory
  <2>3. (CHOOSE v \in Value : TRUE) \in Value
    BY <2>2, Zenon
  <2> QED
    BY <2>3 DEF PowerFail, Memory
<1>3. window' \subseteq {"obsolete", "uncommitted"}
  BY DEF TypeOK, PowerFail
<1> QED
  BY <1>1, <1>2, <1>3 DEF TypeOK, PowerFail, NoWalk, nvmVars

\* The power fails: the staged patches that no sweep has published are out of the
\* chain, and so are the changes to the allocator since.
LEMMA PowerFailStep ==
  ASSUME Sheltered, Control, Control', TypeOK, NEW t, NEW rk, NEW U, NEW V, NEW K, NEW af, NEW cf,
         Chained(t, rk, U, V, K, af, cf), available, PowerFail
  PROVE  TypeOK' /\ \E t2, rk2, U2, V2, K2, af2, cf2 :
                     Chained(t2, rk2, U2, V2, K2, af2, cf2)'
<1> USE DEF Sweep, Deletes, Recovers, Open, Deleting, Checkpointing
<1>1. /\ pc # "boot"
      /\ Survivable
      /\ pc' = "boot"
      /\ dirty' = {}
      /\ mode' = "obsolete"
      /\ doomed' = {}
      /\ window' = window \ {"obsolete"}
      /\ UNCHANGED <<lclock, mlclock, origin, bliss, next_free, patch, del, available,
                     golden, idle>>
  BY DEF PowerFail, NoWalk, nvmVars, walkVars, ghosts
<1>2. ActiveSlot' = ActiveSlot /\ CommittedSlot' = CommittedSlot
  BY <1>1 DEF ActiveSlot, CommittedSlot, ActiveIdx, RestoreIdx
<1>3. /\ V \in SUBSET Block /\ V \subseteq U /\ U \cap K = {}
  BY Sets
<1>4. ~Open
  BY <1>1 DEF Survivable, Sheltered
<1>5. Deleting => doomed \subseteq IF del # {} THEN {at} ELSE {}
  BY <1>1 DEF Survivable, Sheltered, Control, Windows
<1>6. TypeOK'
  BY <1>1, PowerFailTypes
<1>7. Ordered(t, rk)
  BY DEF Chained
<1>8. Places(rk, V, V, K)'
  BY <1>1, <1>3 DEF Chained, Places, Behind
<1>9. Committed(rk, V, K, cf)'
  BY <1>1, <1>4, <1>2 DEF Chained, Committed
<1>10. Active(rk, V, K, af)'
  BY <1>1 DEF Active
<1>11. Claimed(V, K, af, cf)'
  BY <1>1 DEF Claimed
<1>12. Saved'
  BY <1>1 DEF Saved
<1>13. Linking(rk, V, K, af)'
  BY <1>1 DEF Linking
<1>14. Staging(rk, V, K)'
  BY <1>1 DEF Staging
<1>15. Dooming(rk, V, K)'
  BY <1>1 DEF Dooming
<1>16. Walking(rk, V, K)'
  BY <1>1 DEF Walking
<1>17. Unlinking(rk, V, K)'
  BY <1>1 DEF Unlinking
<1>18. Pending(rk, V, K, cf)'
  <2>1. CASE pc \in Recovers
    BY <1>1, <2>1 DEF Chained, Pending
  <2>2. CASE pc \notin Recovers /\ (~Deleting \/ del = {})
    <3>1. del = {}
      <4>1. ASSUME ~Deleting
            PROVE  del = {}
        <5>1. pc \notin {"modify", "clear"}
          BY <1>4, <4>1 DEF Control, Windows, Modes
        <5> QED
          BY <2>2, <5>1 DEF Control, Records
      <4> QED
        BY <2>2, <4>1
    <3>2. ~(Deleting /\ doomed # {})
      BY <1>5, <2>2
    <3>3. \A b \in K : ~In(b, cf)
      BY <2>2, <3>2 DEF Chained, Committed
    <3> QED
      BY <1>1, <3>1, <3>3 DEF Pending
  <2>3. CASE pc \notin Recovers /\ Deleting /\ del # {}
    <3>1. /\ pc \in {"modify", "clear"} /\ mode = "obsolete" /\ U = V /\ doomed \subseteq {at}
          /\ doomed = Hidden(patch, rk, K)
      BY <1>5, <2>3 DEF Chained, Places, Dooming, Control, Records
    <3>2. \A b \in K : In(b, cf) <=> b \in doomed
      BY <2>3 DEF Chained, Committed
    <3>3. CASE pc = "modify"
      <4>1. PICK w \in U \cup K : prev = <<"next", w>> /\ patch[w].next = at
        BY <3>1, <3>3, Predecessor
      <4>2. at \in Hidden(patch, rk, K)
        BY <3>1, <3>3, Predecessor
      <4>3. del = {<<<<"next", w>>, patch[at].next>>}
        BY <3>3, <4>1 DEF Control, Records
      <4>4. \A b \in K : In(b, cf) <=> b = at
        BY <3>1, <3>2, <4>2
      <4>5. PICK x : x = at
        OBVIOUS
      <4>6. /\ w \in V \cup K /\ x \in Hidden(patch, rk, K)
            /\ del = {<<<<"next", w>>, patch[x].next>>} /\ patch[w].next = x
            /\ \A b \in K : In(b, cf) <=> b = x
        BY <3>1, <4>1, <4>2, <4>3, <4>4, <4>5
      <4> QED
        BY <1>1, <4>6 DEF Pending
    <3>4. CASE pc = "clear"
      <4>1. PICK w \in U \cup K : /\ del = {<<<<"next", w>>, patch[at].next>>}
                                  /\ patch[w].next = patch[at].next
        BY <3>1, <3>4 DEF Chained, Unlinking
      <4>2. at \notin K /\ Hidden(patch, rk, K) \subseteq K
        BY <3>4 DEF Chained, Unlinking, Hidden
      <4>3. \A b \in K : ~In(b, cf)
        BY <3>1, <3>2, <4>2
      <4>4. w \in V \cup K /\ del = {<<<<"next", w>>, patch[w].next>>}
        BY <3>1, <4>1
      <4> QED
        BY <1>1, <4>3, <4>4 DEF Pending
    <3> QED
      BY <3>1, <3>3, <3>4
  <2> QED
    BY <2>1, <2>2, <2>3
<1>19. Chained(t, rk, V, V, K, af, cf)'
  BY <1>7, <1>8, <1>9, <1>10, <1>11, <1>12, <1>13,
     <1>14, <1>15, <1>16, <1>17, <1>18 DEF Chained
<1> QED
  BY <1>6, <1>19

\* The first boot: all blocks are free, the chain is empty.
LEMMA SetupStep ==
  ASSUME Sheltered, Control, Control', TypeOK, Setup
  PROVE  TypeOK' /\ \E t, rk, U, V, K, af, cf : Chained(t, rk, U, V, K, af, cf)'
<1> USE DEF Sweep, Deletes, Recovers, Open, Deleting, Checkpointing
<1>1. /\ pc = "boot" /\ ~available /\ pc' = "stage" /\ available' = FALSE
      /\ lclock' = 0 /\ mlclock' = [i \in 0..1 |-> IF i = 0 THEN 1 ELSE 0]
      /\ origin' = [i \in 0..1 |-> Nil] /\ bliss' = [i \in 0..1 |-> DefaultAllocator]
      /\ alloc' = DefaultAllocator /\ del' = {} /\ ram' \in Memory /\ dirty' = Region
      /\ UNCHANGED <<next_free, patch, available, new, retry, mode, at, prev, skip, seen,
                     golden, idle, doomed, window>>
  BY DEF Setup, walkVars, ghosts, TypeOK
<1>2. /\ new = Nil /\ mode = "obsolete" /\ ~retry /\ doomed = {} /\ window = {}
  BY <1>1 DEF Control, Modes, Windows
<1>3. DefaultAllocator \in Allocator
  BY DefaultKeeps
<1>4. PICK s \in Seq(Block) : /\ Once(s) /\ ListOf(DefaultAllocator, next_free, s)
                              /\ Fresh(DefaultAllocator, s) /\ \A b \in Block : In(b, s)
  BY DefaultKeeps
<1>5. PICK rk : rk = [b \in Block |-> b]
  OBVIOUS
<1>6. Ordered(NBlocks, rk)
  BY <1>5, BlocksAssumption DEF Ordered, Block
<1>7. PICK E : E = {}
  OBVIOUS
<1>8. ActiveSlot' = 1 /\ CommittedSlot' = 0
  BY <1>1 DEF ActiveSlot, CommittedSlot, ActiveIdx, RestoreIdx
<1>9. /\ bliss'[CommittedSlot'] = DefaultAllocator
      /\ origin'[ActiveSlot'] = Nil /\ origin'[CommittedSlot'] = Nil
  BY <1>1, <1>8
<1>10. Linked(patch, rk, E \cup E, Nil)
  BY <1>7 DEF Linked, Newest
<1>11. FreeList(DefaultAllocator, next_free, s)
  BY <1>4 DEF FreeList
<1>12. DefaultAllocator.n_initialized_blocks <= DefaultAllocator.n_initialized_blocks
  BY <1>3 DEF Allocator
<1>13. Places(rk, E, E, E)'
  BY <1>1, <1>2, <1>7 DEF Places
<1>14. Committed(rk, E, E, s)'
  BY <1>1, <1>4, <1>7, <1>9, <1>10, <1>11 DEF Committed
<1>15. Active(rk, E, E, s)'
  BY <1>1, <1>4, <1>7, <1>9, <1>10, <1>11, <1>12 DEF Active
<1>16. Claimed(E, E, s, s)'
  BY <1>7 DEF Claimed
<1>17. Saved' /\ Linking(rk, E, E, s)'
  BY <1>1 DEF Saved, Linking
<1>18. Staging(rk, E, E)'
  <2>1. {new} \cap Block = {} /\ Region \ dirty' = {} /\ Region # {}
    <3>1. 1 \in Region
      BY MPatchAssumption DEF Region
    <3> QED
      BY <1>1, <1>2, <3>1, NilNoBlock
  <2>2. Holds(patch', rk, (E \cup E) \cup ({new'} \cap Block), ram', Region \ dirty')
    BY <2>1 DEF Holds
  <2> QED
    BY <1>1, <1>2, <1>7, <2>1, <2>2 DEF Staging
<1>19. Dooming(rk, E, E)' /\ Walking(rk, E, E)' /\ Unlinking(rk, E, E)' /\ Pending(rk, E, E, s)'
  BY <1>1 DEF Dooming, Walking, Unlinking, Pending
<1>20. TypeOK'
  <2>1. lclock' \in 0..ClockMod-1 /\ mlclock' \in [0..1 -> 0..ClockMod-1]
    BY DEF Control, Clocks
  <2> QED
    BY <1>1, <1>3, <2>1, NilNoBlock DEF TypeOK
<1>21. Chained(NBlocks, rk, E, E, E, s, s)'
  BY <1>6, <1>13, <1>14, <1>15, <1>16, <1>17, <1>18, <1>19 DEF Chained
<1> QED
  BY <1>20, <1>21

-----------------------------------------------------------------------------
(* The invariant.                                                          *)

\* Everything starts unformed.
LEMMA MPatchInit == Init => MPatchInv
<1> SUFFICES ASSUME Init PROVE MPatchInv
  OBVIOUS
<1>1. TypeOK
  <2>1. /\ 0 \in 0..ClockMod-1 /\ Nil \in Index /\ DefaultAllocator \in Allocator /\ 0 \in Index
        /\ 1 \in Region /\ 0 \in 0..IdleLimit /\ 0 \in 0..NBlocks
    BY MPatchAssumption, BlocksAssumption, NilNoBlock, DefaultKeeps DEF Region, Index
  <2>2. patch \in [Block -> Patch]
    BY <2>1 DEF Init, Patch
  <2>3. prev \in Pointer
    BY <2>1 DEF Init, Pointer
  <2> QED
    BY <2>1, <2>2, <2>3 DEF Init, TypeOK
<1> QED
  BY <1>1, ControlInit DEF MPatchInv, Unformed, Init

\* Stuttering.
LEMMA ChainStutters ==
  ASSUME UNCHANGED vars, NEW t, NEW rk, NEW U, NEW V, NEW K, NEW af, NEW cf,
         Chained(t, rk, U, V, K, af, cf)
  PROVE  Chained(t, rk, U, V, K, af, cf)'
<1> USE DEF Sweep, Deletes, Recovers, Open, Deleting, Checkpointing
<1>1. UNCHANGED <<lclock, mlclock, origin, bliss, next_free, patch, del, available, alloc, ram,
                  dirty, new, retry, mode, at, prev, skip, seen, pc, golden, idle, doomed, window>>
  BY DEF vars, nvmVars, walkVars, ghosts
<1>2. ActiveSlot' = ActiveSlot /\ CommittedSlot' = CommittedSlot
  BY <1>1 DEF ActiveSlot, CommittedSlot, ActiveIdx, RestoreIdx
<1>3. Places(rk, U, V, K)'
  BY <1>1, <1>2 DEF Chained, Places, Behind
<1>4. Committed(rk, V, K, cf)'
  BY <1>1, <1>2 DEF Chained, Committed
<1>5. Active(rk, U, K, af)'
  BY <1>1, <1>2 DEF Chained, Active
<1>6. Claimed(U, K, af, cf)'
  BY <1>1, <1>2 DEF Chained, Claimed
<1>7. Saved'
  BY <1>1, <1>2 DEF Chained, Saved
<1>8. Linking(rk, U, K, af)'
  BY <1>1, <1>2 DEF Chained, Linking
<1>9. Staging(rk, U, K)'
  BY <1>1, <1>2 DEF Chained, Staging
<1>10. Dooming(rk, U, K)'
  BY <1>1, <1>2 DEF Chained, Dooming
<1>11. Walking(rk, U, K)'
  BY <1>1, <1>2 DEF Chained, Walking
<1>12. Unlinking(rk, U, K)'
  BY <1>1, <1>2 DEF Chained, Unlinking
<1>13. Pending(rk, V, K, cf)'
  BY <1>1, <1>2 DEF Chained, Pending
<1> QED
  BY <1>3, <1>4, <1>5, <1>6, <1>7, <1>8,
     <1>9, <1>10, <1>11, <1>12, <1>13 DEF Chained

\* Every step keeps the invariant: before the first commit a boot can only set
\* NVM up anew, and a failure leads back there.
LEMMA MPatchStep ==
  ASSUME Sheltered, MPatchInv, [Next]_vars
  PROVE  MPatchInv'
<1>1. TypeOK /\ Control /\ Control'
  BY ControlStep DEF MPatchInv
<1>2. CASE Unformed /\ UNCHANGED vars
  BY <1>1, <1>2 DEF MPatchInv, Unformed, TypeOK, vars, nvmVars, walkVars, ghosts
<1>3. CASE Unformed /\ Next
  <2>1. Setup
    BY <1>3 DEF Next, Progress, Unformed, StageAlloc, StageLink, StageRetry, StageHang,
       StageDone, Commit, PostCheckpoint, WalkPast, FreePatch, EndFree, SweepSave,
       SweepPublish, SweepReload, PrepareDelete, PerformDelete, CommitDelete, EndDelete,
       BeginRestore, RecoverDelete, RecoverCommit, RecoverSweep, EndApply,
       BeginCheckpoint, Write, PowerFail
  <2>2. TypeOK' /\ \E t, rk, U, V, K, af, cf : Chained(t, rk, U, V, K, af, cf)'
    BY <1>1, <2>1, SetupStep
  <2> QED
    BY <1>1, <2>2 DEF MPatchInv
<1>4. CASE ~Unformed
  <2>1. PICK t, rk, U, V, K, af, cf : Chained(t, rk, U, V, K, af, cf)
    BY <1>4 DEF MPatchInv
  <2> DEFINE Kept == TypeOK' /\ \E t2, rk2, U2, V2, K2, af2, cf2 :
                                  Chained(t2, rk2, U2, V2, K2, af2, cf2)'
  <2>2. Kept => MPatchInv'
    BY <1>1 DEF MPatchInv
  <2>3. ~Setup
    BY <1>4 DEF Setup, Unformed
  <2>4. CASE StageAlloc
    BY <1>1, <2>1, <2>2, <2>4, StageAllocStep
  <2>5. CASE StageLink
    BY <1>1, <2>1, <2>2, <2>5, StageLinkStep
  <2>6. CASE StageRetry
    BY <1>1, <2>1, <2>2, <2>6, StageRetryStep
  <2>7. CASE StageHang
    BY <1>1, <2>1, <2>2, <2>7, StageHangStep
  <2>8. CASE StageDone
    BY <1>1, <2>1, <2>2, <2>8, StageDoneStep
  <2>9. CASE Commit
    BY <1>1, <2>1, <2>2, <2>9, CommitStep
  <2>10. CASE PostCheckpoint
    BY <1>1, <2>1, <2>2, <2>10, PostCheckpointStep
  <2>11. CASE WalkPast
    BY <1>1, <2>1, <2>2, <2>11, WalkPastStep
  <2>12. CASE FreePatch
    BY <1>1, <2>1, <2>2, <2>12, FreePatchStep
  <2>13. CASE EndFree
    BY <1>1, <2>1, <2>2, <2>13, EndFreeStep
  <2>14. CASE SweepSave
    BY <1>1, <2>1, <2>2, <2>14, SweepSaveStep
  <2>15. CASE SweepPublish
    BY <1>1, <2>1, <2>2, <2>15, SweepPublishStep
  <2>16. CASE SweepReload
    BY <1>1, <2>1, <2>2, <2>16, SweepReloadStep
  <2>17. CASE PrepareDelete
    BY <1>1, <2>1, <2>2, <2>17, PrepareDeleteStep
  <2>18. CASE PerformDelete
    BY <1>1, <2>1, <2>2, <2>18, PerformDeleteStep
  <2>19. CASE CommitDelete
    BY <1>1, <2>1, <2>2, <2>19, CommitDeleteStep
  <2>20. CASE EndDelete
    BY <1>1, <2>1, <2>2, <2>20, EndDeleteStep
  <2>21. CASE BeginRestore
    BY <1>1, <2>1, <2>2, <2>21, BeginRestoreStep
  <2>22. CASE RecoverDelete
    BY <1>1, <2>1, <2>2, <2>22, RecoverDeleteStep
  <2>23. CASE RecoverCommit
    BY <1>1, <2>1, <2>2, <2>23, RecoverCommitStep
  <2>24. CASE RecoverSweep
    BY <1>1, <2>1, <2>2, <2>24, RecoverSweepStep
  <2>25. CASE EndApply
    BY <1>1, <2>1, <2>2, <2>25, EndApplyStep
  <2>26. CASE BeginCheckpoint
    BY <1>1, <2>1, <2>2, <2>26, BeginCheckpointStep
  <2>27. ASSUME NEW r \in Region, NEW v \in Value, Write(r, v)
        PROVE  MPatchInv'
    BY <1>1, <2>1, <2>2, <2>27, WriteStep
  <2>28. CASE PowerFail /\ available
    BY <1>1, <2>1, <2>2, <2>28, PowerFailStep
  <2>29. CASE PowerFail /\ ~available
    <3>1. TypeOK' /\ Unformed'
      BY <1>1, <2>29, PowerFailTypes DEF PowerFail, Unformed, nvmVars
    <3> QED
      BY <1>1, <3>1 DEF MPatchInv
  <2>30. CASE UNCHANGED vars
    <3>1. Chained(t, rk, U, V, K, af, cf)'
      BY <2>1, <2>30, ChainStutters
    <3>2. TypeOK'
      BY <1>1, <2>30 DEF TypeOK, vars, nvmVars, walkVars, ghosts
    <3> QED
      BY <2>2, <3>1, <3>2
  <2> QED
    BY <2>3, <2>4, <2>5, <2>6, <2>7, <2>8, <2>9, <2>10, <2>11, <2>12, <2>13, <2>14, <2>15,
       <2>16, <2>17, <2>18, <2>19, <2>20, <2>21, <2>22, <2>23, <2>24, <2>25, <2>26, <2>27, <2>28, <2>29, <2>30 DEF Next, Progress
<1> QED
  BY <1>2, <1>3, <1>4

\* The invariant holds of every reachable state, with failures at every point but
\* those in the two recovery windows (mpatch.c:596, 700), which Sheltered closes,
\* and fewer checkpoints in a row without a write than the clock counts.
THEOREM MPatchInvariance ==
  ASSUME Sheltered
  PROVE  Spec => []MPatchInv
<1>1. Init => MPatchInv
  BY MPatchInit
<1>2. MPatchInv /\ [Next]_vars => MPatchInv'
  BY MPatchStep
<1> QED
  BY <1>1, <1>2, PTL DEF Spec

\* Every variable keeps its type: no pointer of a chain leaves the blocks
\* (mpatch.c:269, 624), and the clocks keep that of mpatch_lclock_t.
THEOREM MPatchTypes ==
  ASSUME Sheltered
  PROVE  Spec => []TypeOK
<1>1. MPatchInv => TypeOK
  BY DEF MPatchInv
<1> QED
  BY <1>1, MPatchInvariance, PTL

-----------------------------------------------------------------------------
(* Reading a chain and a free list out, as ChainFrom and FreeFrom do.      *)

\* h follows g for n steps.
OrbitOf(h, T, g, first, n) ==
  h \in [0..n -> T] /\ h[0] = first /\ \A k \in 1..n : h[k] = g[h[k-1]]

\* A function on an interval defined from its previous value exists.
LEMMA Orbit ==
  ASSUME NEW T, NEW g \in [T -> T], NEW first \in T, NEW n \in Nat
  PROVE  \E h : OrbitOf(h, T, g, first, n)
<1> DEFINE Good(m, h) == h \in [0..m -> T] /\ h[0] = first /\ \A k \in 1..m : h[k] = g[h[k-1]]
           Bad == {m \in Nat : ~ \E h : Good(m, h)}
<1>1. CASE Bad = {}
  <2>1. \E h : Good(n, h)
    BY <1>1
  <2> QED
    BY <2>1 DEF OrbitOf
<1>2. CASE Bad # {}
  <2>1. PICK m \in Bad : \A i \in Bad : m <= i
    <3>1. Bad \in SUBSET Nat
      OBVIOUS
    <3> HIDE DEF Bad
    <3> QED
      BY <1>2, <3>1, LeastNat
  <2>2. m # 0
    <3>1. Good(0, [k \in 0..0 |-> first])
      OBVIOUS
    <3> QED
      BY <3>1
  <2>3. m \in Nat /\ m - 1 \in Nat /\ m - 1 \notin Bad
    <3>1. m \in Nat
      BY <2>1
    <3>2. m - 1 \in Nat /\ ~(m <= m - 1)
      BY <2>2, <3>1
    <3> HIDE DEF Bad
    <3> QED
      BY <2>1, <3>1, <3>2
  <2>4. PICK h : Good(m - 1, h)
    BY <2>3
  <2>5. PICK f : f = [k \in 0..m |-> IF k = m THEN g[h[m-1]] ELSE h[k]]
    OBVIOUS
  <2>6. \A k \in 0..m-1 : f[k] = h[k] /\ h[k] \in T
    BY <2>3, <2>4, <2>5
  <2>7. f[m] = g[h[m-1]] /\ h[m-1] \in T
    BY <2>3, <2>4, <2>5
  <2>8. f \in [0..m -> T]
    <3>1. \A k \in 0..m : k = m \/ k \in 0..m-1
      BY <2>3
    <3>2. g[h[m-1]] \in T
      BY <2>7
    <3>3. \A k \in 0..m : f[k] \in T
      BY <2>6, <2>7, <3>1, <3>2
    <3> QED
      BY <2>5, <3>3
  <2>9. ASSUME NEW k \in 1..m
        PROVE  f[k] = g[f[k-1]]
    <3>1. k - 1 \in 0..m-1 /\ (k = m \/ k \in 1..m-1)
      BY <2>3
    <3> QED
      BY <2>3, <2>4, <2>6, <2>7, <3>1
  <2>10. Good(m, f)
    BY <2>2, <2>3, <2>4, <2>6, <2>8, <2>9
  <2> QED
    BY <2>1, <2>10
<1> QED
  BY <1>1, <1>2

\* c reads a chain out.
ChainOf(c, first) ==
  /\ c \in [0..NBlocks -> Index] /\ c[0] = first
  /\ \A k \in 1..NBlocks : c[k] = IF c[k-1] \in Block THEN patch[c[k-1]].next ELSE Nil

\* The recursive function is what its definition says.
LEMMA ChainFromIs ==
  ASSUME TypeOK, NEW first \in Index, NEW c, c = ChainFrom(first)
  PROVE  ChainOf(c, first)
<1> DEFINE P(h) == h = [k \in 0..NBlocks |->
                          IF k = 0 THEN first
                          ELSE IF h[k-1] \in Block THEN patch[h[k-1]].next ELSE Nil]
<1>1. PICK g : g = [b \in Index |-> IF b \in Block THEN patch[b].next ELSE Nil]
  OBVIOUS
<1>2. c = CHOOSE h : P(h)
  BY Zenon DEF ChainFrom
<1>3. \E h : P(h)
  <2>1. g \in [Index -> Index] /\ NBlocks \in Nat
    BY <1>1, NilNoBlock, BlocksAssumption DEF TypeOK, Patch
  <2>2. PICK h : OrbitOf(h, Index, g, first, NBlocks)
    BY <2>1, Orbit
  <2>3. ASSUME NEW k \in 0..NBlocks, k # 0
        PROVE  h[k] = IF h[k-1] \in Block THEN patch[h[k-1]].next ELSE Nil
    <3>1. h[k] = g[h[k-1]] /\ h[k-1] \in Index
      BY <2>1, <2>2, <2>3 DEF OrbitOf
    <3> QED
      BY <1>1, <3>1
  <2>4. P(h)
    BY <2>2, <2>3 DEF OrbitOf
  <2> QED
    BY <2>4
<1>4. P(c)
  <2> HIDE DEF P
  <2> QED
    BY <1>2, <1>3
<1>5. PICK d : d = c
  OBVIOUS
<1>6. d = [k \in 0..NBlocks |-> IF k = 0 THEN first
                                ELSE IF c[k-1] \in Block THEN patch[c[k-1]].next ELSE Nil]
  BY <1>4, <1>5
<1> HIDE DEF P
<1>7. d[0] = first
  BY <1>6, BlocksAssumption
<1>8. ASSUME NEW k \in 1..NBlocks
      PROVE  d[k] = IF c[k-1] \in Block THEN patch[c[k-1]].next ELSE Nil
  <2>1. k \in 0..NBlocks /\ k # 0
    BY BlocksAssumption
  <2> QED
    BY <1>6, <2>1
<1>9. \A k \in 0..NBlocks : d[k] \in Index
  BY <1>6, NilNoBlock, BlocksAssumption DEF TypeOK, Patch
<1>10. d \in [0..NBlocks -> Index]
  BY <1>6, <1>9
<1> QED
  BY <1>5, <1>7, <1>8, <1>10 DEF ChainOf

\* c lists the patches of S from the newest to the oldest, completely, and then Nil.
Lists(c, rk, S) ==
  /\ \A k \in 0..NBlocks : c[k] \in S \cup {Nil}
  /\ \A j, k \in 0..NBlocks : j < k /\ c[k] # Nil => c[j] # Nil /\ rk[c[k]] < rk[c[j]]
  /\ \A b \in S : \E k \in 0..NBlocks : c[k] = b
  /\ c[NBlocks] = Nil

\* Following the links lists the chain; that it ends is the pigeonhole principle:
\* no patch is met twice, and there are NBlocks blocks.
LEMMA ReadsChain ==
  ASSUME TypeOK, NEW t, NEW rk, Ordered(t, rk), NEW S \in SUBSET Block, NEW first \in Index,
         Linked(patch, rk, S, first), NEW c, c = ChainFrom(first)
  PROVE  Lists(c, rk, S)
<1> USE BlocksAssumption
<1>1. /\ c \in [0..NBlocks -> Index] /\ c[0] = first
      /\ \A k \in 1..NBlocks : c[k] = IF c[k-1] \in Block THEN patch[c[k-1]].next ELSE Nil
  <2>1. ChainOf(c, first)
    BY ChainFromIs
  <2> QED
    BY <2>1 DEF ChainOf
<1>2. Nil \notin Block /\ \A b \in S : b \in Block /\ rk[b] \in Nat
  BY NilNoBlock DEF Ordered
<1> DEFINE Good(k) == /\ c[k] \in S \cup {Nil}
                      /\ Passed(S, rk, c[k]) = {b \in S : \E j \in 0..k-1 : c[j] = b}
                      /\ c[k] # Nil => \A j \in 0..k-1 : c[j] # Nil
           Bad == {k \in 0..NBlocks : ~Good(k)}
<1>3. Good(0)
  <2>1. Newest(S, rk, first)
    BY DEF Linked
  <2>2. first = Nil \/ first \in S
    BY <2>1, StartsAhead
  <2>3. Passed(S, rk, first) = {}
    BY <2>1, StartsAhead
  <2> QED
    BY <1>1, <2>2, <2>3
<1>4. ASSUME NEW k \in 1..NBlocks, Good(k-1)
      PROVE  Good(k)
  <2>1. CASE c[k-1] = Nil
    <3>1. c[k] = Nil
      BY <1>1, <1>2, <2>1
    <3>2. {b \in S : \E j \in 0..k-1 : c[j] = b} = {b \in S : \E j \in 0..k-2 : c[j] = b}
      BY <1>2, <2>1
    <3>3. Passed(S, rk, c[k]) = Passed(S, rk, c[k-1])
      BY <2>1, <3>1
    <3>4. Passed(S, rk, c[k-1]) = {b \in S : \E j \in 0..k-2 : c[j] = b}
      BY <1>4
    <3> QED
      BY <3>1, <3>2, <3>3, <3>4
  <2>2. CASE c[k-1] \in S
    <3>1. c[k-1] \in Block /\ c[k] = patch[c[k-1]].next
      BY <1>1, <1>2, <2>2
    <3>2. Newest(Older(S, rk, c[k-1]), rk, c[k])
      BY <2>2, <3>1 DEF Linked
    <3>3. c[k] = Nil \/ c[k] \in S
      BY <3>1, <3>2, Follow
    <3>4. Passed(S, rk, c[k]) = Passed(S, rk, c[k-1]) \cup ({c[k-1]} \cap S)
      BY <3>1, <3>2, Follow
    <3>5. Passed(S, rk, c[k-1]) = {b \in S : \E j \in 0..k-2 : c[j] = b}
      BY <1>4
    <3>6. {b \in S : \E j \in 0..k-1 : c[j] = b} =
            {b \in S : \E j \in 0..k-2 : c[j] = b} \cup ({c[k-1]} \cap S)
      <4>1. \A j : j \in 0..k-1 <=> j \in 0..k-2 \/ j = k-1
        OBVIOUS
      <4> QED
        BY <4>1
    <3>7. \A j \in 0..k-1 : c[j] # Nil
      <4>1. \A j \in 0..k-1 : j \in 0..k-2 \/ j = k-1
        OBVIOUS
      <4> QED
        BY <1>2, <1>4, <2>2, <4>1
    <3> QED
      BY <3>3, <3>4, <3>5, <3>6, <3>7
  <2> QED
    BY <1>4, <2>1, <2>2
<1>5. \A k \in 0..NBlocks : Good(k)
  <2> SUFFICES ASSUME Bad # {} PROVE FALSE
    OBVIOUS
  <2>1. PICK m \in Bad : \A i \in Bad : m <= i
    <3>1. Bad \in SUBSET Nat
      OBVIOUS
    <3> HIDE DEF Bad
    <3> QED
      BY <3>1, LeastNat
  <2>2. m \in 0..NBlocks /\ ~Good(m)
    BY <2>1
  <2>3. m # 0
    BY <1>3, <2>2
  <2>4. m \in 1..NBlocks /\ m - 1 \in 0..NBlocks /\ ~(m <= m - 1)
    BY <2>2, <2>3
  <2>5. m - 1 \notin Bad
    BY <2>1, <2>4
  <2>6. Good(m - 1)
    BY <2>4, <2>5
  <2> HIDE DEF Good
  <2> QED
    BY <1>4, <2>2, <2>4, <2>6
<1>6. ASSUME NEW j \in 0..NBlocks, NEW k \in 0..NBlocks, j < k, c[k] # Nil
      PROVE  c[j] # Nil /\ rk[c[k]] < rk[c[j]]
  <2>1. c[k] \in S /\ c[j] \in S /\ c[j] # Nil
    BY <1>5, <1>6
  <2>2. c[j] \in Passed(S, rk, c[k])
    BY <1>5, <1>6, <2>1
  <2> QED
    BY <1>6, <2>1, <2>2 DEF Passed, Newer
<1>7. c[NBlocks] = Nil
  <2> SUFFICES ASSUME c[NBlocks] # Nil PROVE FALSE
    OBVIOUS
  <2>1. PICK s : s = [i \in 1..NBlocks+1 |-> c[i-1]]
    OBVIOUS
  <2>2. \A k \in 0..NBlocks : c[k] \in S
    <3> TAKE k \in 0..NBlocks
    <3>1. c[k] # Nil
      <4>1. k = NBlocks \/ k < NBlocks
        OBVIOUS
      <4> QED
        BY <1>6, <4>1
    <3> QED
      BY <1>5, <3>1
  <2>3. \A i \in 1..NBlocks+1 : i - 1 \in 0..NBlocks /\ s[i] = c[i-1] /\ s[i] \in Block
    BY <1>2, <2>1, <2>2
  <2>4. s \in Seq(Block) /\ Len(s) = NBlocks + 1
    <3>1. s \in [1..NBlocks+1 -> Block]
      BY <2>1, <2>3
    <3> QED
      BY <3>1
  <2>5. Once(s)
    <3> SUFFICES ASSUME NEW i \in 1..NBlocks+1, NEW k \in 1..NBlocks+1, s[i] = s[k], i # k
                 PROVE  FALSE
      BY <2>4 DEF Once
    <3>1. CASE i < k
      <4>1. rk[c[k-1]] < rk[c[i-1]]
        BY <1>2, <1>6, <2>2, <2>3, <3>1
      <4> QED
        BY <1>2, <2>2, <2>3, <4>1
    <3>2. CASE k < i
      <4>1. rk[c[i-1]] < rk[c[k-1]]
        BY <1>2, <1>6, <2>2, <2>3, <3>2
      <4> QED
        BY <1>2, <2>2, <2>3, <4>1
    <3> QED
      BY <3>1, <3>2
  <2>6. NBlocks + 1 <= NBlocks
    BY <2>4, <2>5, OnceBound
  <2> QED
    BY <2>6
<1>8. \A b \in S : \E k \in 0..NBlocks : c[k] = b
  <2>0. Good(NBlocks)
    BY <1>5
  <2>1. Passed(S, rk, Nil) = S
    BY DEF Passed
  <2>2. S = {b \in S : \E j \in 0..NBlocks-1 : c[j] = b}
    BY <1>7, <2>0, <2>1
  <2>3. \A j \in 0..NBlocks-1 : j \in 0..NBlocks
    OBVIOUS
  <2> QED
    BY <2>2, <2>3
<1> QED
  BY <1>5, <1>6, <1>7, <1>8 DEF Lists

-----------------------------------------------------------------------------
(* What the invariant says of a restore, of memory and of the blocks.      *)

\* The CHOOSE of a least member is that member.
LEMMA LeastIs ==
  ASSUME NEW X \in SUBSET Nat, NEW m \in X, \A j \in X : m <= j
  PROVE  (CHOOSE k \in X : \A j \in X : k <= j) = m
<1>1. PICK n : n = CHOOSE k \in X : \A j \in X : k <= j
  OBVIOUS
<1>2. n \in X /\ \A j \in X : n <= j
  BY <1>1, Zenon
<1>3. n <= m /\ m <= n /\ n \in Nat /\ m \in Nat
  BY <1>2
<1> QED
  BY <1>1, <1>3

\* The newest committed patch does not carry the clock of the checkpoint in
\* progress.
LEMMA NewestIsBehind ==
  ASSUME Sheltered, TypeOK, NEW t, NEW rk, NEW U, NEW V, NEW K, NEW af, NEW cf,
         Chained(t, rk, U, V, K, af, cf), NEW h \in K, \A k \in K : rk[k] <= rk[h]
  PROVE  patch[h].stage_clock # lclock
<1>1. h \in Block
  BY Sets
<1>2. Behind(patch[h].stage_clock, idle)
  BY DEF Chained, Places
<1>3. /\ lclock \in 0..ClockMod-1 /\ idle \in 0..IdleLimit
      /\ patch[h].stage_clock \in 0..ClockMod-1
  BY <1>1 DEF TypeOK, Patch
<1> QED
  BY <1>2, <1>3, ClockBehind

\* A restore finds the memory of the last commit: it skips the staged patches
\* that a sweep published (mpatch.c:497), and only those, and takes the newest
\* of the others for every region (mpatch.c:519).
LEMMA ReplayIsGolden ==
  ASSUME Sheltered, MPatchInv, available, ~Open
  PROVE  Replay = golden
<1> DEFINE committed(d, k) == d[k] \in Block /\ \E j \in 0..k : patch[d[j]].stage_clock # lclock
           shows(d, r) == {k \in 0..NBlocks : committed(d, k) /\ patch[d[k]].region = r}
           read(d) == [r \in Region |->
                         IF shows(d, r) = {} THEN CHOOSE v \in Value : TRUE
                         ELSE patch[d[CHOOSE k \in shows(d, r) : \A j \in shows(d, r) : k <= j]].data]
<1>1. PICK c : c = ChainFrom(origin[CommittedSlot])
  OBVIOUS
<1>2. Replay = read(c)
  <2>1. Replay = read(ChainFrom(origin[CommittedSlot]))
    BY DEF Replay
  <2> HIDE DEF read
  <2> QED
    BY <1>1, <2>1
<1>3. TypeOK /\ Control /\ ~Unformed
  BY DEF MPatchInv, Unformed
<1>4. PICK t, rk, U, V, K, af, cf : Chained(t, rk, U, V, K, af, cf)
  BY <1>3 DEF MPatchInv
<1>5. /\ Ordered(t, rk) /\ U \in SUBSET Block /\ K \in SUBSET Block /\ V \subseteq U
      /\ V \cup K \in SUBSET Block /\ \A b \in Block : rk[b] \in Nat
      /\ \A u \in U, k \in K : rk[k] < rk[u]
  BY <1>4, Sets
<1>6. /\ Holds(patch, rk, K, golden, Region)
      /\ Linked(patch, rk, V \cup K, origin[CommittedSlot])
      /\ \A v \in V : patch[v].stage_clock = lclock
  BY <1>4, <1>5 DEF Chained, Committed, Places
<1>7. origin[CommittedSlot] \in Index
  BY <1>3, SlotsApart DEF TypeOK, Control
<1>8. /\ \A k \in 0..NBlocks : c[k] \in (V \cup K) \cup {Nil}
      /\ \A j, k \in 0..NBlocks : j < k /\ c[k] # Nil => c[j] # Nil /\ rk[c[k]] < rk[c[j]]
      /\ \A b \in V \cup K : \E k \in 0..NBlocks : c[k] = b
  <2>1. Lists(c, rk, V \cup K)
    BY <1>1, <1>3, <1>5, <1>6, <1>7, ReadsChain
  <2> QED
    BY <2>1 DEF Lists
<1>9. Nil \notin Block /\ NBlocks \in Nat
  BY NilNoBlock, BlocksAssumption
<1>10. ASSUME NEW k \in 0..NBlocks, c[k] \in K
       PROVE  committed(c, k)
  <2>1. PICK X : X = {i \in 0..NBlocks : c[i] \in K}
    OBVIOUS
  <2>2. PICK m \in X : \A i \in X : m <= i
    <3>1. X \in SUBSET Nat /\ X # {}
      BY <1>10, <2>1
    <3> QED
      BY <3>1, LeastNat
  <2>3. m \in 0..k /\ m \in 0..NBlocks /\ c[m] \in K
    BY <1>9, <1>10, <2>1, <2>2
  <2>4. ASSUME NEW b \in K
        PROVE  rk[b] <= rk[c[m]]
    <3>1. PICK j \in 0..NBlocks : c[j] = b
      BY <1>8
    <3>2. m <= j
      BY <2>1, <2>2, <3>1
    <3>3. CASE m = j
      BY <1>5, <3>1, <3>3
    <3>4. CASE m < j
      <4>1. rk[c[j]] < rk[c[m]]
        BY <1>5, <1>8, <1>9, <2>3, <3>1, <3>4
      <4> QED
        BY <1>5, <2>3, <3>1, <4>1
    <3> QED
      BY <2>3, <3>2, <3>3, <3>4
  <2>5. patch[c[m]].stage_clock # lclock
    BY <1>3, <1>4, <2>3, <2>4, NewestIsBehind
  <2> QED
    BY <1>5, <1>10, <2>3, <2>5
<1>11. ASSUME NEW k \in 0..NBlocks, committed(c, k)
       PROVE  c[k] \in K
  <2>1. c[k] \in V \cup K /\ c[k] # Nil
    BY <1>8, <1>9, <1>11
  <2>2. PICK j \in 0..k : patch[c[j]].stage_clock # lclock
    BY <1>11
  <2>3. j \in 0..NBlocks /\ (j = k \/ j < k)
    BY <1>9
  <2>4. c[j] # Nil /\ (j # k => rk[c[k]] < rk[c[j]])
    BY <1>8, <2>1, <2>3
  <2>5. c[j] \in K
    BY <1>6, <1>8, <2>2, <2>3, <2>4
  <2>6. CASE j = k
    BY <2>5, <2>6
  <2>7. CASE j # k
    <3>1. ~(rk[c[j]] < rk[c[k]])
      BY <1>5, <2>1, <2>4, <2>5, <2>7
    <3> QED
      BY <1>5, <2>1, <2>5, <3>1
  <2> QED
    BY <2>6, <2>7
<1>12. ASSUME NEW r \in Region
       PROVE  Replay[r] = golden[r]
  <2>1. PICK b \in K : /\ patch[b].region = r /\ patch[b].data = golden[r]
                       /\ \A d \in K : patch[d].region = r => rk[d] <= rk[b]
    BY <1>6 DEF Holds
  <2>2. PICK m \in 0..NBlocks : c[m] = b
    BY <1>8, <2>1
  <2>3. PICK X : X = shows(c, r)
    OBVIOUS
  <2> HIDE DEF committed
  <2>4. m \in X /\ X \in SUBSET Nat
    BY <1>9, <1>10, <2>1, <2>2, <2>3
  <2>5. ASSUME NEW j \in X
        PROVE  m <= j
    <3>1. j \in 0..NBlocks /\ c[j] \in K /\ patch[c[j]].region = r
      BY <1>11, <2>3, <2>5
    <3>2. rk[c[j]] <= rk[c[m]]
      BY <2>1, <2>2, <3>1
    <3>3. ASSUME j < m
          PROVE  FALSE
      <4>1. rk[c[m]] < rk[c[j]]
        BY <1>5, <1>8, <1>9, <2>2, <3>1, <3>3
      <4> QED
        BY <1>5, <2>2, <3>1, <3>2, <4>1
    <3> QED
      BY <2>4, <3>1, <3>3
  <2>6. (CHOOSE k \in X : \A j \in X : k <= j) = m
    BY <2>4, <2>5, LeastIs
  <2>7. Replay[r] = IF X = {} THEN CHOOSE v \in Value : TRUE
                    ELSE patch[c[CHOOSE k \in X : \A j \in X : k <= j]].data
    <3> HIDE DEF shows
    <3>1. Replay[r] = IF shows(c, r) = {} THEN CHOOSE v \in Value : TRUE
                      ELSE patch[c[CHOOSE k \in shows(c, r) : \A j \in shows(c, r) : k <= j]].data
      BY <1>2
    <3> QED
      BY <2>3, <3>1, Zenon
  <2> QED
    BY <2>1, <2>2, <2>4, <2>6, <2>7
<1>13. PICK w : w = Replay
  OBVIOUS
<1>14. w = [r \in Region |-> w[r]]
  <2> HIDE DEF shows
  <2> QED
    BY <1>2, <1>13
<1>15. golden = [r \in Region |-> golden[r]]
  BY <1>3 DEF TypeOK, Memory
<1> QED
  BY <1>12, <1>13, <1>14, <1>15

-----------------------------------------------------------------------------
(* What the runs check of MPatch, as theorems.                             *)

\* At every point at which the power may fail, NVM holds exactly the memory of
\* the last commit: what staging (mpatch.c:269), a sweep (584) and a recovery
\* (716) publish never shows.  Failures in the recovery windows are left out.
THEOREM MemoryIntact ==
  ASSUME Sheltered
  PROVE  Spec => []CommittedMemoryIntact
<1>1. MPatchInv => CommittedMemoryIntact
  <2> SUFFICES ASSUME MPatchInv, available, Survivable PROVE Replay = golden
    BY DEF CommittedMemoryIntact
  <2>1. ~Open
    BY DEF Survivable, Sheltered, Open
  <2> QED
    BY <2>1, ReplayIsGolden
<1> QED
  BY <1>1, MPatchInvariance, PTL

\* Two memories that the same patches show are one.
LEMMA ShownOnce ==
  ASSUME NEW t, NEW rk, Ordered(t, rk), NEW p, NEW S \in SUBSET Block,
         NEW m \in Memory, NEW n \in Memory,
         Holds(p, rk, S, m, Region), Holds(p, rk, S, n, Region)
  PROVE  m = n
<1>1. ASSUME NEW r \in Region
      PROVE  m[r] = n[r]
  <2>1. PICK b \in S : /\ p[b].region = r /\ p[b].data = m[r]
                       /\ \A c \in S : p[c].region = r => rk[c] <= rk[b]
    BY DEF Holds
  <2>2. PICK d \in S : /\ p[d].region = r /\ p[d].data = n[r]
                       /\ \A c \in S : p[c].region = r => rk[c] <= rk[d]
    BY DEF Holds
  <2>3. rk[b] <= rk[d] /\ rk[d] <= rk[b] /\ rk[b] \in Nat /\ rk[d] \in Nat
    BY <2>1, <2>2 DEF Ordered
  <2>4. b = d
    BY <2>3 DEF Ordered
  <2> QED
    BY <2>1, <2>2, <2>4
<1>2. m = [r \in Region |-> m[r]] /\ n = [r \in Region |-> n[r]]
  BY DEF Memory
<1> QED
  BY <1>1, <1>2

\* A run that wrote nothing since it was restored, or since its checkpoint,
\* has the memory of the last commit (checkpoint_mpatch.c:13).
THEOREM RestoresExactly ==
  ASSUME Sheltered
  PROVE  Spec => []RestoreExact
<1>1. ASSUME MPatchInv
      PROVE  RestoreExact
  <2> SUFFICES ASSUME pc = "run", dirty = {} PROVE ram = golden
    BY DEF RestoreExact
  <2>1. TypeOK /\ available /\ new = Nil
    BY <1>1 DEF MPatchInv, Control, Modes
  <2>2. PICK t, rk, U, V, K, af, cf : Chained(t, rk, U, V, K, af, cf)
    BY <1>1, <2>1 DEF MPatchInv, Unformed
  <2>3. Ordered(t, rk) /\ K \in SUBSET Block
    BY <2>2, Sets
  <2>4. U = {} /\ {new} \cap Block = {} /\ Region \ dirty = Region
    BY <2>1, <2>2, NilNoBlock DEF Chained, Places
  <2>5. (U \cup K) \cup ({new} \cap Block) = K
    BY <2>4
  <2>6. Holds(patch, rk, (U \cup K) \cup ({new} \cap Block), ram, Region \ dirty)
    BY <2>2 DEF Chained, Staging, Checkpointing
  <2>7. Holds(patch, rk, K, ram, Region) /\ Holds(patch, rk, K, golden, Region)
    BY <2>1, <2>2, <2>4, <2>5, <2>6 DEF Chained, Committed
  <2> QED
    BY <2>1, <2>3, <2>7, ShownOnce DEF TypeOK
<1> QED
  BY <1>1, MPatchInvariance, PTL

\* f reads a free list out.
FreeOf(f, a) ==
  /\ f[0] = a.next_free_block
  /\ \A k \in 1..NBlocks : f[k-1] \in Block => f[k] = FollowIn(a, next_free, f[k-1])

\* The recursive function is what its definition says.
LEMMA FreeFromIs ==
  ASSUME TypeOK, NEW a \in Allocator, NEW f, f = FreeFrom(a)
  PROVE  FreeOf(f, a)
<1> DEFINE P(h) == h = [k \in 0..NBlocks |->
                          IF k = 0 THEN a.next_free_block
                          ELSE IF h[k-1] \notin Block THEN Nil
                          ELSE IF h[k-1] < a.n_initialized_blocks THEN next_free[h[k-1]]
                          ELSE h[k-1] + 1]
<1>1. PICK g : g = [b \in Index |-> IF b \notin Block THEN Nil
                                    ELSE IF b < a.n_initialized_blocks THEN next_free[b]
                                    ELSE b + 1]
  OBVIOUS
<1>2. f = CHOOSE h : P(h)
  BY Zenon DEF FreeFrom
<1>3. \E h : P(h)
  <2>1. g \in [Index -> Index] /\ NBlocks \in Nat /\ a.next_free_block \in Index
    <3>1. ASSUME NEW b \in Index
          PROVE  g[b] \in Index
      <4>1. b \in Block => next_free[b] \in Index /\ b + 1 \in Index
        BY BlocksAssumption DEF TypeOK, Index, Block
      <4> QED
        BY <1>1, <4>1, NilNoBlock
    <3>2. g = [b \in Index |-> g[b]]
      BY <1>1
    <3> QED
      BY <3>1, <3>2, BlocksAssumption DEF Allocator
  <2>2. PICK h : OrbitOf(h, Index, g, a.next_free_block, NBlocks)
    BY <2>1, Orbit
  <2>3. ASSUME NEW k \in 0..NBlocks, k # 0
        PROVE  h[k] = IF h[k-1] \notin Block THEN Nil
                      ELSE IF h[k-1] < a.n_initialized_blocks THEN next_free[h[k-1]]
                      ELSE h[k-1] + 1
    <3>1. h[k] = g[h[k-1]] /\ h[k-1] \in Index
      BY <2>1, <2>2, <2>3 DEF OrbitOf
    <3> QED
      BY <1>1, <3>1
  <2>4. P(h)
    BY <2>2, <2>3 DEF OrbitOf
  <2> QED
    BY <2>4
<1>4. P(f)
  <2> HIDE DEF P
  <2> QED
    BY <1>2, <1>3
<1>5. PICK d : d = f
  OBVIOUS
<1>6. d = [k \in 0..NBlocks |-> IF k = 0 THEN a.next_free_block
                                ELSE IF f[k-1] \notin Block THEN Nil
                                ELSE IF f[k-1] < a.n_initialized_blocks THEN next_free[f[k-1]]
                                ELSE f[k-1] + 1]
  BY <1>4, <1>5
<1> HIDE DEF P
<1>7. d[0] = a.next_free_block
  BY <1>6, BlocksAssumption
<1>8. ASSUME NEW k \in 1..NBlocks, f[k-1] \in Block
      PROVE  d[k] = FollowIn(a, next_free, f[k-1])
  <2>1. k \in 0..NBlocks /\ k # 0
    BY BlocksAssumption
  <2> QED
    BY <1>6, <1>8, <2>1 DEF FollowIn
<1> QED
  BY <1>5, <1>7, <1>8 DEF FreeOf

\* Reading a free list out gives its blocks in order.
LEMMA ReadsFree ==
  ASSUME TypeOK, NEW a \in Allocator, NEW s, FreeList(a, next_free, s), NEW f, f = FreeFrom(a)
  PROVE  \A k \in 0..Len(s)-1 : f[k] = s[k+1]
<1>1. /\ s \in Seq(Block) /\ Len(s) \in Nat /\ Len(s) <= NBlocks /\ NBlocks \in Nat
      /\ (s = <<>> <=> Len(s) = 0)
  BY EmptyIffNoLength, OnceBound, BlocksAssumption DEF FreeList
<1>2. FreeOf(f, a)
  BY FreeFromIs
<1>3. /\ s # <<>> => a.next_free_block = s[1]
      /\ \A i \in 1..Len(s)-1 : FollowIn(a, next_free, s[i]) = s[i+1]
  BY DEF FreeList, ListOf
<1> DEFINE Bad == {k \in 0..Len(s)-1 : f[k] # s[k+1]}
<1> SUFFICES ASSUME Bad # {} PROVE FALSE
  OBVIOUS
<1>4. PICK m \in Bad : \A i \in Bad : m <= i
  <2>1. Bad \in SUBSET Nat
    OBVIOUS
  <2> HIDE DEF Bad
  <2> QED
    BY <2>1, LeastNat
<1>5. m \in 0..Len(s)-1 /\ f[m] # s[m+1]
  BY <1>4
<1>6. m # 0
  BY <1>1, <1>2, <1>3, <1>5 DEF FreeOf
<1>7. m - 1 \in 0..Len(s)-1 /\ ~(m <= m - 1) /\ m \in 1..Len(s)-1 /\ m \in 1..NBlocks
  BY <1>1, <1>5, <1>6
<1>8. f[m-1] = s[m]
  <2>1. m - 1 \notin Bad
    BY <1>4, <1>7
  <2> QED
    BY <1>7, <2>1
<1>9. s[m] \in Block
  BY <1>1, <1>7
<1> QED
  BY <1>2, <1>3, <1>5, <1>7, <1>8, <1>9 DEF FreeOf

\* Between operations every block is either free once or linked once: no patch
\* in the chain is reused and no block leaks (bliss_allocator.c:110, 138), after
\* failures at any point outside the two recovery windows.
THEOREM EveryBlockAccounted ==
  ASSUME Sheltered
  PROVE  Spec => []BlocksAccounted
<1>1. ASSUME MPatchInv
      PROVE  BlocksAccounted
  <2> SUFFICES ASSUME pc \in {"run", "stage"} PROVE BlocksAccounted
    BY DEF BlocksAccounted
  <2>1. TypeOK /\ Control /\ new = Nil /\ doomed = {}
    BY <1>1 DEF MPatchInv, Control, Modes, Windows, Sweep
  <2>2. PICK t, rk, U, V, K, af, cf : Chained(t, rk, U, V, K, af, cf)
    BY <1>1, <2>1 DEF MPatchInv, Unformed
  <2>3. Ordered(t, rk) /\ U \cup K \in SUBSET Block
    BY <2>2, Sets
  <2>4. /\ Linked(patch, rk, U \cup K, origin[ActiveSlot])
        /\ FreeList(alloc, next_free, af)
        /\ \A b \in Block : b \in U \/ b \in K \/ In(b, af)
    BY <2>1, <2>2, NilNoBlock DEF Chained, Active
  <2>5. \A b \in U \cup K : ~In(b, af)
    BY <2>1, <2>2 DEF Chained, Claimed, Recovers
  <2>6. PICK c : c = ChainFrom(origin[ActiveSlot])
    OBVIOUS
  <2>7. PICK f : f = FreeFrom(alloc)
    OBVIOUS
  <2>8. alloc \in Allocator /\ origin[ActiveSlot] \in Index
    BY <2>1, SlotsApart DEF TypeOK, Control
  <2>9. /\ \A k \in 0..NBlocks : c[k] \in (U \cup K) \cup {Nil}
        /\ \A b \in U \cup K : \E k \in 0..NBlocks : c[k] = b
        /\ c[NBlocks] = Nil
    <3>1. Lists(c, rk, U \cup K)
      BY <2>1, <2>3, <2>4, <2>6, <2>8, ReadsChain
    <3> QED
      BY <3>1 DEF Lists
  <2>10. {c[k] : k \in 0..NBlocks} \cap Block = U \cup K
    BY <2>3, <2>9, NilNoBlock
  <2>11. /\ af \in Seq(Block) /\ Once(af) /\ alloc.n_free_blocks = Len(af) /\ Len(af) \in Nat
         /\ af \in [1..Len(af) -> Block]
    BY <2>4, EmptyIffNoLength DEF FreeList, ListOf
  <2>12. \A k \in 0..Len(af)-1 : f[k] = af[k+1]
    BY <2>1, <2>4, <2>7, <2>8, ReadsFree
  <2>13. PICK free : free = {f[k] : k \in 0..alloc.n_free_blocks-1}
    OBVIOUS
  <2>14. \A b : b \in free <=> In(b, af)
    <3>1. ASSUME NEW b, b \in free
          PROVE  In(b, af)
      <4>1. PICK k \in 0..Len(af)-1 : b = af[k+1]
        BY <2>11, <2>12, <2>13, <3>1
      <4>2. k + 1 \in 1..Len(af)
        BY <2>11
      <4> QED
        BY <4>1, <4>2 DEF In
    <3>2. ASSUME NEW b, In(b, af)
          PROVE  b \in free
      <4>1. PICK i \in 1..Len(af) : af[i] = b
        BY <3>2 DEF In
      <4>2. i - 1 \in 0..Len(af)-1 /\ f[i-1] = b
        <5>1. i - 1 \in 0..Len(af)-1 /\ (i - 1) + 1 = i
          BY <2>11
        <5> QED
          BY <2>12, <4>1, <5>1
      <4> QED
        BY <2>11, <2>13, <4>2
    <3> QED
      BY <3>1, <3>2
  <2>15. Cardinality(free) = alloc.n_free_blocks
    <3>1. IsFiniteSet(1..Len(af)) /\ Cardinality(1..Len(af)) = Len(af)
      BY <2>11, UpToCount
    <3>2. af \in Surjection(1..Len(af), free)
      BY <2>11, <2>14 DEF Surjection, In
    <3>3. af \in Injection(1..Len(af), free)
      BY <2>11, <3>2 DEF Surjection, Injection, IsInjective, Once
    <3> QED
      BY <2>11, <3>1, <3>2, <3>3, FS_Surjection
  <2>16. free \subseteq Block
    BY <2>11, <2>14 DEF In
  <2>17. (U \cup K) \cap free = {} /\ (U \cup K) \cup free = Block
    BY <2>3, <2>4, <2>5, <2>14, <2>16
  <2> QED
    BY <2>6, <2>7, <2>9, <2>10, <2>13, <2>15, <2>17 DEF BlocksAccounted
<1> QED
  BY <1>1, MPatchInvariance, PTL

\* With two blocks for every region a checkpoint never ends in the endless loop
\* of mpatch_stage_patch_retry (mpatch.c:334): a sweep always frees one.
THEOREM SweepFrees ==
  ASSUME Sheltered
  PROVE  Spec => []NeverOutOfMemory
<1>1. ASSUME MPatchInv
      PROVE  NeverOutOfMemory
  <2> SUFFICES ASSUME NBlocks >= 2 * NRegions, pc = "hung" PROVE FALSE
    BY DEF NeverOutOfMemory
  <2>1. TypeOK /\ new = Nil /\ retry /\ dirty # {} /\ alloc.n_free_blocks = 0
    BY <1>1 DEF MPatchInv, Control, Modes
  <2>2. PICK t, rk, U, V, K, af, cf : Chained(t, rk, U, V, K, af, cf)
    BY <1>1 DEF MPatchInv, Unformed
  <2>3. /\ Ordered(t, rk) /\ U \in SUBSET Block /\ K \in SUBSET Block /\ U \cap K = {}
        /\ NBlocks \in Nat /\ NRegions \in Nat
    BY <2>2, Sets, BlocksAssumption, MPatchAssumption
  <2>4. Block = U \cup K
    <3>1. FreeList(alloc, next_free, af) /\ \A b \in Block : b \in U \/ b \in K \/ In(b, af)
      BY <2>1, <2>2, NilNoBlock DEF Chained, Active
    <3>2. Len(af) = 0
      BY <2>1, <3>1 DEF FreeList, ListOf
    <3>3. \A b : ~In(b, af)
      BY <3>2 DEF In
    <3> QED
      BY <2>3, <3>1, <3>3
  <2>5. /\ {new} \cap Block = {}
        /\ Hidden(patch, rk, K) = {}
        /\ \A u \in U : patch[u].region \notin dirty
        /\ \A u, w \in U : patch[u].region = patch[w].region => u = w
    BY <2>1, <2>2, NilNoBlock DEF Chained, Staging, Checkpointing
  <2>6. \A b, c \in K : patch[b].region = patch[c].region => b = c
    <3> SUFFICES ASSUME NEW b \in K, NEW c \in K, patch[b].region = patch[c].region, b # c
                 PROVE  FALSE
      OBVIOUS
    <3>1. rk[b] < rk[c] \/ rk[c] < rk[b]
      BY <2>3 DEF Ordered
    <3>2. b \in Hidden(patch, rk, K) \/ c \in Hidden(patch, rk, K)
      BY <3>1 DEF Hidden
    <3> QED
      BY <2>5, <3>2
  <2>7. \A b \in Block : patch[b].region \in Region
    BY <2>1 DEF TypeOK, Patch
  <2>8. PICK r \in Region : r \in dirty
    BY <2>1 DEF TypeOK
  <2>9. /\ IsFiniteSet(Region) /\ Cardinality(Region) = NRegions
        /\ IsFiniteSet(Region \ {r}) /\ Cardinality(Region \ {r}) = NRegions - 1
    <3>1. IsFiniteSet(Region) /\ Cardinality(Region) = NRegions
      BY <2>3, UpToCount DEF Region
    <3> QED
      BY <2>8, <3>1, FS_RemoveElement
  <2>10. IsFiniteSet(K) /\ Cardinality(K) <= NRegions
    <3>1. [b \in K |-> patch[b].region] \in Injection(K, Region)
      BY <2>3, <2>6, <2>7 DEF Injection, IsInjective
    <3> QED
      BY <2>9, <3>1, FS_Injection
  <2>11. IsFiniteSet(U) /\ Cardinality(U) <= NRegions - 1
    <3>1. [b \in U |-> patch[b].region] \in Injection(U, Region \ {r})
      BY <2>3, <2>5, <2>7, <2>8 DEF Injection, IsInjective
    <3> QED
      BY <2>9, <3>1, FS_Injection
  <2>12. Cardinality(Block) = Cardinality(U) + Cardinality(K)
    <3>1. Cardinality(U \cup K) = Cardinality(U) + Cardinality(K) - Cardinality(U \cap K)
      BY <2>10, <2>11, FS_Union
    <3>2. Cardinality(U) \in Nat /\ Cardinality(K) \in Nat /\ Cardinality(U \cap K) = 0
      BY <2>3, <2>10, <2>11, FS_CardinalityType, FS_EmptySet
    <3> QED
      BY <2>4, <3>1, <3>2
  <2>13. Cardinality(Block) = NBlocks
    <3>1. Cardinality(0..NBlocks-1) = IF 0 > NBlocks-1 THEN 0 ELSE NBlocks-1 - 0 + 1
      BY <2>3, FS_Interval
    <3> QED
      BY <2>3, <3>1, BlocksAssumption DEF Block
  <2>14. Cardinality(U) \in Nat /\ Cardinality(K) \in Nat
    BY <2>10, <2>11, FS_CardinalityType
  <2> QED
    BY <2>3, <2>10, <2>11, <2>12, <2>13, <2>14
<1> QED
  BY <1>1, MPatchInvariance, PTL

\* What a boot would continue from is the memory of the last commit.
LEMMA RestorableIs ==
  ASSUME Sheltered
  PROVE  MPatchInv => Restorable = IF available THEN {golden} ELSE {}
<1> SUFFICES ASSUME MPatchInv, available, Survivable PROVE Replay = golden
  BY DEF Restorable
<1>1. ~Open
  BY DEF Survivable, Sheltered, Open
<1> QED
  BY <1>1, ReplayIsGolden

\* A step that is none of the abstract ones changes neither what the application
\* sees nor what a boot would continue from.
LEMMA QuietSteps ==
  ASSUME MPatchInv, MPatchInv',
         \/ StageAlloc \/ StageLink \/ StageRetry \/ StageHang \/ StageDone
         \/ PostCheckpoint \/ WalkPast \/ FreePatch \/ EndFree \/ SweepSave
         \/ SweepPublish \/ SweepReload \/ PrepareDelete \/ PerformDelete
         \/ CommitDelete \/ EndDelete \/ BeginRestore \/ RecoverDelete
         \/ RecoverCommit \/ RecoverSweep \/ BeginCheckpoint \/ UNCHANGED vars
  PROVE  Visible' = Visible /\ available' = available /\ golden' = golden
<1>1. available' = available /\ golden' = golden
  BY DEF StageAlloc, StageLink, StageRetry, StageHang, StageDone, PostCheckpoint, WalkPast,
     FreePatch, EndFree, SweepSave, SweepPublish, SweepReload, PrepareDelete, PerformDelete,
     CommitDelete, EndDelete, BeginRestore, RecoverDelete, RecoverCommit, RecoverSweep,
     BeginCheckpoint, vars, nvmVars, ghosts
<1>2. Modes /\ Modes'
  BY DEF MPatchInv, Control
<1> SUFFICES Visible' = Visible
  BY <1>1
<1> USE DEF Visible, Modes, Sweep
<1>3. CASE StageAlloc
  BY <1>2, <1>3 DEF StageAlloc
<1>4. CASE StageLink
  BY <1>2, <1>4 DEF StageLink
<1>5. CASE StageRetry \/ StageHang \/ StageDone
  BY <1>2, <1>5 DEF StageRetry, StageHang, StageDone
<1>6. CASE PostCheckpoint
  BY <1>2, <1>6 DEF PostCheckpoint
<1>7. CASE WalkPast
  BY <1>2, <1>7 DEF WalkPast
<1>8. CASE FreePatch
  BY <1>2, <1>8 DEF FreePatch
<1>9. CASE EndFree
  BY <1>2, <1>9 DEF EndFree
<1>10. CASE SweepSave \/ SweepPublish \/ SweepReload
  BY <1>2, <1>10 DEF SweepSave, SweepPublish, SweepReload
<1>11. CASE PrepareDelete \/ PerformDelete \/ CommitDelete
  BY <1>2, <1>11 DEF PrepareDelete, PerformDelete, CommitDelete
<1>12. CASE EndDelete
  BY <1>2, <1>12 DEF EndDelete
<1>13. CASE BeginRestore \/ RecoverDelete \/ RecoverCommit \/ RecoverSweep
  BY <1>2, <1>13 DEF BeginRestore, RecoverDelete, RecoverCommit, RecoverSweep
<1>14. CASE BeginCheckpoint \/ UNCHANGED vars
  BY <1>2, <1>14 DEF BeginCheckpoint, vars, nvmVars
<1> QED
  BY <1>3, <1>4, <1>5, <1>6, <1>7, <1>8, <1>9, <1>10, <1>11, <1>12, <1>13, <1>14

\* MPatch implements an atomic checkpoint of the tracked memory (checkpoint.c:96):
\* the commit takes all of it at once, whatever staging, sweeps and recoveries
\* do in how many steps, and a failure at any point outside the two recovery
\* windows loses exactly what was written since.
THEOREM AtomicImplemented ==
  ASSUME Sheltered
  PROVE  Spec => ImplementsAtomic
<1>1. Init => Atomic!AInit
  BY DEF Init, Atomic!AInit, Visible, Restorable
<1> DEFINE Known    == Restorable = IF available THEN {golden} ELSE {}
           Restored == pc = "run" /\ dirty = {} => ram = golden
<1>2. ASSUME MPatchInv, MPatchInv', Known, Known', Restored', [Next]_vars
      PROVE  [Atomic!ANext]_(Atomic!avars)
  <2>1. Modes /\ Modes' /\ TypeOK /\ TypeOK'
    BY <1>2 DEF MPatchInv, Control
  <2>2. available' = available /\ golden' = golden => Restorable' = Restorable
    BY <1>2
  <2>3. CASE Setup
    <3>1. Visible = {} /\ Restorable = {} /\ Visible' = {ram'} /\ Restorable' = {} /\ ram' \in Memory
      BY <1>2, <2>1, <2>3 DEF Setup, Visible, Modes, Sweep
    <3>2. Atomic!Start
      BY <3>1 DEF Atomic!Start
    <3> QED
      BY <3>2 DEF Atomic!ANext
  <2>4. ASSUME NEW r \in Region, NEW v \in Value, Write(r, v)
        PROVE  Atomic!ANext
    <3>1. Visible # {} /\ Visible' = {ram'} /\ ram' \in Memory /\ Restorable' = Restorable
      BY <2>1, <2>2, <2>4 DEF Write, Visible, Modes, Sweep, TypeOK, nvmVars, ghosts
    <3>2. Atomic!Compute
      BY <3>1 DEF Atomic!Compute
    <3> QED
      BY <3>2 DEF Atomic!ANext
  <2>5. CASE Commit
    <3>1. Visible = {ram} /\ Visible' = {ram} /\ Restorable' = {ram}
      BY <1>2, <2>1, <2>5 DEF Commit, Visible, Modes, Sweep
    <3>2. Atomic!Take
      BY <3>1 DEF Atomic!Take
    <3> QED
      BY <3>2 DEF Atomic!ANext
  <2>6. CASE PowerFail
    <3>1. Visible' = {} /\ Restorable' = Restorable
      BY <2>2, <2>6 DEF PowerFail, Visible, nvmVars
    <3>2. Atomic!Fail
      BY <3>1 DEF Atomic!Fail
    <3> QED
      BY <3>2 DEF Atomic!ANext
  <2>7. CASE EndApply
    <3>1. /\ pc = "apply" /\ pc' = "run" /\ available /\ dirty' = {}
          /\ UNCHANGED <<available, golden, ram, mode>>
      BY <2>1, <2>7 DEF EndApply, Modes, nvmVars, ghosts
    <3>2. Visible = {} /\ Visible' = {golden} /\ Restorable = {golden} /\ Restorable' = Restorable
      BY <1>2, <2>1, <2>2, <3>1 DEF Visible, Modes, Sweep
    <3>3. Atomic!Continue
      BY <3>2 DEF Atomic!Continue
    <3> QED
      BY <3>3 DEF Atomic!ANext
  <2>8. ASSUME ~Setup, ~Commit, ~PowerFail, ~EndApply,
               ~ \E r \in Region, v \in Value : Write(r, v)
        PROVE  Visible' = Visible /\ Restorable' = Restorable
    <3>1. \/ StageAlloc \/ StageLink \/ StageRetry \/ StageHang \/ StageDone
          \/ PostCheckpoint \/ WalkPast \/ FreePatch \/ EndFree \/ SweepSave
          \/ SweepPublish \/ SweepReload \/ PrepareDelete \/ PerformDelete
          \/ CommitDelete \/ EndDelete \/ BeginRestore \/ RecoverDelete
          \/ RecoverCommit \/ RecoverSweep \/ BeginCheckpoint \/ UNCHANGED vars
      BY <1>2, <2>8, Zenon DEF Next, Progress
    <3> QED
      BY <1>2, <2>2, <3>1, QuietSteps
  <2> QED
    BY <2>3, <2>4, <2>5, <2>6, <2>7, <2>8 DEF Atomic!avars
<1>3. MPatchInv => Known
  BY RestorableIs
<1>4. Spec => []Restored
  BY RestoresExactly DEF RestoreExact
<1> HIDE DEF Known, Restored
<1> QED
  BY <1>1, <1>2, <1>3, <1>4, MPatchInvariance, PTL DEF Spec, ImplementsAtomic, Atomic!ASpec
=============================================================================
