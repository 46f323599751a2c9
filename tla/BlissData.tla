----------------------------- MODULE BlissData ------------------------------
(***************************************************************************)
(* bliss_store and bliss_extract_woffset: the data of a client is copied   *)
(* into a list of blocks and, from any offset on, back out of it, with one *)
(* memcpy per block.  The client's data begins behind a header of its own  *)
(* in the first block (a patch's fields).  Which blocks make up the list   *)
(* is for Bliss and MPatch; here they are any blocks in any order.         *)
(***************************************************************************)
EXTENDS Naturals, Sequences

CONSTANTS D,          \* BLISS_BLOCK_DATA_SIZE
          Block,      \* the blocks of the pool
          MaxBlocks,  \* the longest list
          ExactFits   \* may a transfer of several blocks end where a block ends?

ASSUME DataAssumption == D \in Nat \ {0} /\ MaxBlocks \in Nat \ {0} /\ ExactFits \in BOOLEAN

VARIABLES
  list,   \* the blocks of the list, first to last
  head,   \* first_block_offset of the client's data
  size,   \* how many bytes the client stores
  data,   \* the bytes in each block
  dst,    \* the buffer of the extraction
  off, wanted,  \* the range that is extracted
  copy,   \* the memcpy that comes next, from 1
  dataPc

dataVars == <<list, head, size, data, dst, off, wanted, copy, dataPc>>

MaxSize == D * MaxBlocks
Offset  == 0..D-1

\* Byte k of the client's data is written k + 1; 0 is what was there before
\* and Header a byte of the client's header.
Header == MaxSize + 1
Byte   == 0..Header

Size2Blocks(sz) == 1 + ((sz - 1) \div D)

Injective(s) == \A x, y \in DOMAIN s : x # y => s[x] # s[y]

DataInit ==
  /\ list = <<>> /\ head = 0 /\ size = 0
  /\ data = [b \in Block |-> [x \in Offset |-> 0]]
  /\ dst = [k \in 0..MaxSize-1 |-> 0] /\ off = 0 /\ wanted = 0
  /\ copy = 1 /\ dataPc = "alloc"

-----------------------------------------------------------------------------
(* The memcpys of a transfer of c bytes that begins at offset o of its      *)
(* first block: how many, and for the j-th of them the byte it begins with  *)
(* in the block and in the client's buffer, and its length.                 *)

Fits(c, o) == (c + o) % D # 0 \/ Size2Blocks(c + o) = 1

\* Mutant: the first block is taken to hold no header.
LengthFullFirst(j, last, c, o) ==
  IF j = 1 THEN (IF last = 1 THEN c ELSE D) ELSE IF j < last THEN D ELSE (c + o) % D

Length(j, last, c, o) ==
  IF j = 1 THEN (IF last = 1 THEN c ELSE D - o)
  ELSE IF j < last THEN D ELSE (c + o) % D

InBlock(j, o) == IF j = 1 THEN o ELSE 0

InBuffer(j, o) == IF j = 1 THEN 0 ELSE (D - o) + (j - 2) * D

-----------------------------------------------------------------------------

\* The client allocates a list for its header and sz bytes and writes the
\* header (mpatch_stage_patch).
Alloc(h, sz, l) ==
  /\ dataPc = "alloc"
  /\ h + sz > 0 /\ Len(l) = Size2Blocks(h + sz) /\ Injective(l)
  /\ ExactFits \/ Fits(sz, h)
  /\ head' = h /\ size' = sz /\ list' = l
  /\ data' = [data EXCEPT ![l[1]] = [x \in Offset |-> IF x < h THEN Header ELSE @[x]]]
  /\ copy' = 1 /\ dataPc' = "store"
  /\ UNCHANGED <<dst, off, wanted>>

\* One memcpy of bliss_store.
Store ==
  /\ dataPc = "store"
  /\ LET last == Size2Blocks(size + head)
         from == InBlock(copy, head)
         len  == Length(copy, last, size, head)
     IN  /\ data' = [data EXCEPT ![list[copy]] =
                      [x \in Offset |-> IF from <= x /\ x < from + len
                                        THEN InBuffer(copy, head) + (x - from) + 1 ELSE @[x]]]
         /\ dataPc' = IF copy = last THEN "stored" ELSE "store"
  /\ copy' = copy + 1
  /\ UNCHANGED <<list, head, size, dst, off, wanted>>

\* bliss_extract_woffset is called for c bytes from byte o of the data.
BeginExtract(o, c) ==
  /\ dataPc \in {"stored", "extracted"}
  /\ c > 0 /\ o + c <= size
  /\ ExactFits \/ Fits(c, (o + head) % D)
  /\ off' = o /\ wanted' = c
  /\ dst' = [k \in 0..MaxSize-1 |-> 0]
  /\ copy' = 1 /\ dataPc' = "extract"
  /\ UNCHANGED <<list, head, size, data>>

\* Mutant: the header is not counted among the bytes to skip.
SkipBlocksNoHeader == off \div D

SkipBlocks == (off + head) \div D

\* One memcpy of bliss_extract_woffset.
Extract ==
  /\ dataPc = "extract"
  /\ LET o    == (off + head) % D
         last == Size2Blocks(wanted + off + head) - SkipBlocks
         to   == InBuffer(copy, o)
         len  == Length(copy, last, wanted, o)
     IN  /\ dst' = [k \in DOMAIN dst |->
                     IF to <= k /\ k < to + len
                     THEN data[list[SkipBlocks + copy]][InBlock(copy, o) + (k - to)] ELSE dst[k]]
         /\ dataPc' = IF copy = last THEN "extracted" ELSE "extract"
  /\ copy' = copy + 1
  /\ UNCHANGED <<list, head, size, data, off, wanted>>

\* Only the header is in the list.
NothingToExtract == dataPc = "stored" /\ size = 0 /\ UNCHANGED dataVars

DataNext ==
  \/ \E h \in Offset, sz \in 0..MaxSize, l \in UNION {[1..k -> Block] : k \in 1..MaxBlocks} :
       Alloc(h, sz, l)
  \/ Store
  \/ \E o \in 0..MaxSize, c \in 1..MaxSize : BeginExtract(o, c)
  \/ Extract
  \/ NothingToExtract

DataSpec == DataInit /\ [][DataNext]_dataVars

-----------------------------------------------------------------------------
(* Properties.                                                             *)

\* What a client may expect of the two functions (bliss_allocator.c:224, 273):
\* whatever range it extracts, it gets those bytes of what it stored, and its
\* buffer is not written behind them.
RoundTrip ==
  dataPc = "extracted" =>
    \A k \in DOMAIN dst : dst[k] = IF k < wanted THEN off + k + 1 ELSE 0

\* Every memcpy stays inside a block of the list and inside the client's buffer
\* (bliss_allocator.c:245, 308): behind the bytes of a block lie the links of
\* the allocator.
NoOverrun ==
  LET o     == IF dataPc = "store" THEN head ELSE (off + head) % D
      c     == IF dataPc = "store" THEN size ELSE wanted
      skip  == IF dataPc = "store" THEN 0 ELSE SkipBlocks
      len   == Length(copy, Size2Blocks(c + o), c, o)
  IN  dataPc \in {"store", "extract"} =>
        skip + copy <= Len(list) /\ InBlock(copy, o) + len <= D /\ InBuffer(copy, o) + len <= c
=============================================================================
