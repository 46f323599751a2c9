----------------------------- MODULE PatchApply -----------------------------
(***************************************************************************)
(* The walk over a chain of patches with arbitrary ranges, as a replay and *)
(* as the two passes of a sweep.  The walk goes from the newest patch to   *)
(* the oldest and keeps the patches it has applied in an interval tree: an *)
(* older patch writes only the addresses that no newer one covers, its     *)
(* range is split around the overlaps the tree finds.  A patch that lies   *)
(* inside the first overlap found is reported obsolete; a sweep frees such *)
(* patches in a first pass and deletes them from the chain in a second.    *)
(*                                                                         *)
(* The tree is made of fields of the patches themselves, which nobody      *)
(* clears: what an earlier walk, or an earlier patch in the same block,    *)
(* left there is still there.  Clocks, failures and the atomicity of the   *)
(* deletion are in MPatch, which in return takes ranges to be aligned.     *)
(***************************************************************************)
EXTENDS Naturals, Sequences

CONSTANTS NAddr,   \* addresses 0..NAddr-1
          Patch,   \* blocks for patches
          NULL

ASSUME ApplyAssumption == NAddr \in Nat \ {0} /\ NULL \notin Patch

VARIABLES
  chain,            \* the patches of the chain, newest first
  range,            \* the range of each patch
  it_root,          \* root of the interval tree
  left, right, max, \* its links and maxima, fields of the patches
  pc,               \* "idle" or the walk: "write", "free" or "delete"
  todo,             \* the patches the walk has still to come to
  memory,           \* the patch a replay has written each address from
  latest,           \* history: the patch staged last for each address
  freed             \* patches that the first pass of a sweep has freed

tree == <<it_root, left, right, max>>
vars == <<chain, range, tree, pc, todo, memory, latest, freed>>

Addr  == 0..NAddr-1
Node  == Patch \cup {NULL}
PatchRange == {r \in [low: Addr, high: Addr] : r.low <= r.high}

Members(s) == {s[i] : i \in DOMAIN s}

Covers(p, a) == range[p].low <= a /\ a <= range[p].high

Init ==
  /\ chain = <<>> /\ range = [p \in Patch |-> [low |-> 0, high |-> 0]]
  /\ it_root = NULL
  /\ left = [p \in Patch |-> NULL] /\ right = [p \in Patch |-> NULL] /\ max = [p \in Patch |-> 0]
  /\ pc = "idle" /\ todo = <<>>
  /\ memory = [a \in Addr |-> NULL] /\ latest = [a \in Addr |-> NULL] /\ freed = {}

\* A new patch comes to the front of the chain, in any free block.
Stage(p, r) ==
  /\ pc = "idle" /\ p \notin Members(chain)
  /\ chain' = <<p>> \o chain
  /\ range' = [range EXCEPT ![p] = r]
  /\ latest' = [a \in Addr |-> IF r.low <= a /\ a <= r.high THEN p ELSE latest[a]]
  /\ UNCHANGED <<tree, pc, todo, memory, freed>>

\* A walk begins with an empty tree, and a sweep with its freeing pass.  A
\* replay follows a boot, when memory holds nothing; what memory holds matters
\* during a replay only.
BeginWalk(walk) ==
  /\ pc = "idle" /\ walk \in {"write", "free"}
  /\ pc' = walk /\ todo' = chain
  /\ it_root' = NULL
  /\ memory' = [a \in Addr |-> NULL]
  /\ UNCHANGED <<chain, range, left, right, max, latest, freed>>

-----------------------------------------------------------------------------
(* The interval tree.                                                      *)

Overlap(p, low, high) == range[p].low <= high /\ low <= range[p].high

\* Mutant: the right subtree is searched only where there is no left one.
SearchLeft(low, high) ==
  LET s[n \in Node] ==
        IF n = NULL \/ Overlap(n, low, high) THEN n
        ELSE IF left[n] # NULL THEN s[left[n]] ELSE s[right[n]]
  IN  s[it_root]

\* intervaltree_overlap_search: some patch of the tree that overlaps, or NULL.
Search(low, high) ==
  LET s[n \in Node] ==
        IF n = NULL \/ Overlap(n, low, high) THEN n
        ELSE IF left[n] # NULL /\ max[left[n]] >= low THEN s[left[n]] ELSE s[right[n]]
  IN  s[it_root]

GoesLeft(p, n) == range[p].low < range[n].low

\* The nodes the insertion of p passes on its way down.
Descent(p) ==
  LET d[n \in Node] == IF n = NULL THEN {}
                       ELSE {n} \cup d[IF GoesLeft(p, n) THEN left[n] ELSE right[n]]
  IN  d[it_root]

NewMax(p, n) ==
  IF n = p \/ (n \in Descent(p) /\ max[n] < range[p].high) THEN range[p].high ELSE max[n]

\* The link of n on one side after the insertion of p; here says whether n
\* sends p to that side.
NewLink(p, side, n, here) ==
  IF n = p THEN NULL
  ELSE IF n \in Descent(p) /\ here /\ side[n] = NULL THEN p ELSE side[n]

\* intervaltree_insert_node: p becomes a leaf below the last node it passes.
Insert(p) ==
  /\ it_root' = IF it_root = NULL THEN p ELSE it_root
  /\ left'  = [n \in Patch |-> NewLink(p, left, n, GoesLeft(p, n))]
  /\ right' = [n \in Patch |-> NewLink(p, right, n, ~GoesLeft(p, n))]
  /\ max'   = [n \in Patch |-> NewMax(p, n)]

-----------------------------------------------------------------------------
(* mpatch_apply                                                            *)

\* The addresses of low..high that mpatch_apply writes: a range without
\* overlap is written, another is split around the overlap found.
Written(low, high) ==
  LET w[r \in Addr \X Addr] ==
        LET p == Search(r[1], r[2])
        IN  IF p = NULL THEN r[1]..r[2]
            ELSE (IF r[1] < range[p].low THEN w[<<r[1], range[p].low - 1>>] ELSE {})
                 \cup (IF r[2] > range[p].high THEN w[<<range[p].high + 1, r[2]>>] ELSE {})
  IN  w[<<low, high>>]

\* Mutant: any overlap at the upper end makes a patch obsolete.
AppliedUpperEnd(low, high) == LET p == Search(low, high) IN p # NULL => high > range[p].high

\* Mutant: a patch is obsolete only strictly inside another.
AppliedStrict(low, high) ==
  LET p == Search(low, high)
  IN  p # NULL => low <= range[p].low \/ high >= range[p].high

\* What mpatch_apply returns.
Applied(low, high) ==
  LET p == Search(low, high)
  IN  p # NULL => low < range[p].low \/ high > range[p].high

-----------------------------------------------------------------------------
(* mpatch_apply_patch_chain                                                *)

\* The walk comes to a patch that is not obsolete: a replay writes it, and it
\* enters the tree.
ApplyNext ==
  /\ pc # "idle" /\ todo # <<>>
  /\ LET r == range[Head(todo)]
     IN  /\ Applied(r.low, r.high)
         /\ memory' = IF pc # "write" THEN memory
                      ELSE [a \in Addr |-> IF a \in Written(r.low, r.high)
                                           THEN Head(todo) ELSE memory[a]]
  /\ Insert(Head(todo))
  /\ todo' = Tail(todo)
  /\ UNCHANGED <<chain, range, pc, latest, freed>>

\* The chain when the link to p is moved on to the patch behind it.
Unlinked(s, p) ==
  [i \in 1..Len(s)-1 |-> IF \A j \in 1..i : s[j] # p THEN s[i] ELSE s[i+1]]

\* It comes to an obsolete one, which the passes of a sweep free or delete.
SkipNext ==
  /\ pc # "idle" /\ todo # <<>>
  /\ LET p == Head(todo)
     IN  /\ ~Applied(range[p].low, range[p].high)
         /\ freed' = IF pc = "free" THEN freed \cup {p} ELSE freed
         /\ chain' = IF pc = "delete" THEN Unlinked(chain, p) ELSE chain
  /\ todo' = Tail(todo)
  /\ UNCHANGED <<range, tree, pc, memory, latest>>

\* Mutant: the second pass goes on with the tree of the first.
EndWalkKeepsTree ==
  /\ pc # "idle" /\ todo = <<>>
  /\ pc' = IF pc = "free" THEN "delete" ELSE "idle"
  /\ todo' = IF pc = "free" THEN chain ELSE <<>>
  /\ freed' = IF pc = "free" THEN freed ELSE {}
  /\ UNCHANGED <<chain, range, tree, memory, latest>>

\* The end of a walk; the freeing pass of a sweep is followed by the deleting
\* pass, which begins with an empty tree again.
EndWalk ==
  /\ pc # "idle" /\ todo = <<>>
  /\ pc' = IF pc = "free" THEN "delete" ELSE "idle"
  /\ todo' = IF pc = "free" THEN chain ELSE <<>>
  /\ it_root' = IF pc = "free" THEN NULL ELSE it_root
  /\ freed' = IF pc = "free" THEN freed ELSE {}
  /\ UNCHANGED <<chain, range, left, right, max, memory, latest>>

Next ==
  \/ \E p \in Patch, r \in PatchRange : Stage(p, r)
  \/ \E walk \in {"write", "free"} : BeginWalk(walk)
  \/ ApplyNext \/ SkipNext \/ EndWalk

Spec == Init /\ [][Next]_vars

-----------------------------------------------------------------------------
(* Properties.                                                             *)

\* The part of the chain the walk has passed.
Passed == Members(chain) \ Members(todo)

\* What a replay is for (mpatch.c:477): at every point of it exactly the
\* addresses for which a patch has been passed are written, each from the patch
\* that was staged for it last.  No address is missed by the splitting, and
\* none is written again from an older patch.
NewestWins ==
  pc = "write" =>
    \A a \in Addr : memory[a] = IF latest[a] \in Passed THEN latest[a] ELSE NULL

\* A sweep may delete (mpatch.c:550-558) only patches that nothing needs: the
\* patch staged last for an address stays in the chain with its range, and is
\* never freed.
NothingLost ==
  \A a \in Addr : latest[a] # NULL =>
    latest[a] \in Members(chain) \ freed /\ Covers(latest[a], a)

\* The two passes of a sweep (mpatch.c:584-605) decide alike although each
\* builds a tree of its own in fields the other has used: a patch that was freed
\* leaves the chain, or its block would be handed out while it is linked, and no
\* other does, or its block would be lost.
PassesAgree ==
  [][pc = "delete" /\ todo # <<>> =>
       (Head(todo) \in freed <=> Head(todo) \notin Members(chain'))]_vars

\* Where ranges are equal or disjoint, as the memory tracker's are
\* (checkpoint_memtracker.c:52), a sweep leaves no two patches of one range:
\* when it ends, every patch of the chain is the latest for its addresses.
Aligned ==
  \A p, q \in Members(chain) :
    range[p] = range[q] \/ range[p].high < range[q].low \/ range[q].high < range[p].low

SweepIsComplete ==
  pc = "delete" /\ Aligned =>
    \A p \in Passed, a \in Addr : Covers(p, a) => latest[a] = p
=============================================================================
