------------------------------ MODULE Krnlheap ------------------------------
(***************************************************************************)
(* The kernel heap (Kernel/Source/Memory/Krnlheap.c): headers that tile the *)
(* heap, linked in both directions, first fit with alignment, splitting and *)
(* merging.  Addresses count from VaddrHeapSt, which is aligned to every    *)
(* alignment in use.  Calls come one at a time: the only user is the        *)
(* bootstrap CPU outside interrupts.                                        *)
(***************************************************************************)
EXTENDS Integers, FiniteSets

CONSTANTS
  HeapSize,       \* VaddrHeapNd - VaddrHeapSt
  HeaderSize,     \* sizeof(HeapHeader)
  OffsetSize,     \* sizeof(offset_to_meta_t)
  MaxOffset,      \* MAX_offset_to_meta
  MinPayload,     \* HEAP_MIN_PAYLOAD_SIZE
  Sizes,          \* N arguments
  Alignments,     \* Alignment arguments
  MaxLive         \* bound: payloads handed out at a time

IsPowerOfTwo(a) == \E k \in 0 .. a : a = 2 ^ k

(* The alignments that callers pass are small against the least payload, as *)
(* 8 and 16 are against 32.                                                 *)
ASSUME HeapAssumption ==
  /\ {HeaderSize, OffsetSize, MinPayload, MaxOffset, MaxLive} \subseteq Nat \ {0}
  /\ HeapSize \in Nat /\ HeapSize >= HeaderSize + MinPayload
  /\ Sizes \subseteq Nat /\ Alignments \subseteq Nat
  /\ \A a \in Alignments : IsPowerOfTwo(a) => a + OffsetSize - 1 <= MinPayload

NULL == -1
RootHeader == 0

VARIABLES
  hdr,      \* the headers of the list, by address
  offset,   \* the offset word in front of each payload handed out
  size,     \* history: what the owner of each payload asked for
  ret,      \* history: the last call and its result
  fault     \* an access through a null pointer: the page fault is fatal

vars == <<hdr, offset, size, ret, fault>>

Live == DOMAIN size

Header(prev, next, n, free) == [pPrev |-> prev, pNext |-> next, PayloadSize |-> n, bFree |-> free]

HeapInit ==
  /\ hdr = [a \in {RootHeader} |-> Header(NULL, NULL, HeapSize - HeaderSize, TRUE)]
  /\ offset = [p \in {} |-> 0] /\ size = [p \in {} |-> 0]
  /\ ret = [call |-> "init", ok |-> TRUE] /\ fault = FALSE
----------------------------------------------------------------------------
(* Finding a block *)

KrtlAlignUpToPowerOfTwo(n, a) == ((n + a - 1) \div a) * a

HeapHeaderPayloadAddress(h) == h + HeaderSize

(* Wrong variant: no room is kept for the offset word. *)
AlignedTight(h, a) == KrtlAlignUpToPowerOfTwo(HeapHeaderPayloadAddress(h), a)

(* The first aligned address that leaves room for the offset word. *)
AlignedPayload(h, a) ==
  LET orig  == HeapHeaderPayloadAddress(h)
      first == KrtlAlignUpToPowerOfTwo(orig, a)
  IN  IF first - orig < OffsetSize
      THEN KrtlAlignUpToPowerOfTwo(first + OffsetSize - (first - orig), a)
      ELSE first

(* The unsigned difference wraps to a huge one when the block is smaller   *)
(* than the bytes lost to alignment.                                       *)
Fits(h, n, a) ==
  LET tolerance == AlignedPayload(h, a) - HeapHeaderPayloadAddress(h)
  IN  /\ hdr[h].bFree
      /\ hdr[h].PayloadSize < tolerance \/ hdr[h].PayloadSize - tolerance >= n

(* The list is linked by ascending address, so the first fit is the lowest. *)
HeapLocateAlignedFreeOfSizeFrom(n, a) ==
  LET fit == {h \in DOMAIN hdr : Fits(h, n, a)}
  IN  IF fit = {} THEN NULL ELSE CHOOSE h \in fit : \A g \in fit : h <= g
----------------------------------------------------------------------------
(* Splitting and merging *)

BlockEnd(hs, h) == h + HeaderSize + hs[h].PayloadSize

HeapCanSplitAt(hs, h, cut) ==
  /\ cut <= BlockEnd(hs, h)
  /\ BlockEnd(hs, h) - cut >= MinPayload + HeaderSize

(* Wrong variant: the block after the new one keeps its back link. *)
SplitOneWay(hs, h, cut) ==
  LET rest == BlockEnd(hs, h) - cut
  IN  [a \in DOMAIN hs \cup {cut} |->
         IF a = cut THEN Header(h, hs[h].pNext, rest - HeaderSize, TRUE)
         ELSE IF a = h THEN [hs[h] EXCEPT !.pNext = cut, !.PayloadSize = @ - rest]
         ELSE hs[a]]

SplitAt(hs, h, cut) ==
  LET rest == BlockEnd(hs, h) - cut
  IN  [a \in DOMAIN hs \cup {cut} |->
         IF a = cut THEN Header(h, hs[h].pNext, rest - HeaderSize, TRUE)
         ELSE IF a = h THEN [hs[h] EXCEPT !.pNext = cut, !.PayloadSize = @ - rest]
         ELSE IF a = hs[h].pNext THEN [hs[a] EXCEPT !.pPrev = cut]
         ELSE hs[a]]

HeapTrySplitAt(hs, h, cut) == IF HeapCanSplitAt(hs, h, cut) THEN SplitAt(hs, h, cut) ELSE hs

(* Wrong variant: the bytes of the swallowed header are lost. *)
SwallowPayload(hs, h, g) ==
  [a \in DOMAIN hs \ {g} |->
     IF a = h THEN [hs[h] EXCEPT !.pNext = hs[g].pNext, !.PayloadSize = @ + hs[g].PayloadSize]
     ELSE IF a = hs[g].pNext THEN [hs[a] EXCEPT !.pPrev = h]
     ELSE hs[a]]

(* Wrong variant: the later block stays and the earlier one goes. *)
SwallowBackwards(hs, h, g) ==
  [a \in DOMAIN hs \ {h} |->
     IF a = g THEN [hs[g] EXCEPT !.PayloadSize = @ + hs[h].PayloadSize + HeaderSize]
     ELSE IF a = hs[h].pPrev THEN [hs[a] EXCEPT !.pNext = g]
     ELSE hs[a]]

(* Block h takes over block g, the one after it. *)
Swallow(hs, h, g) ==
  [a \in DOMAIN hs \ {g} |->
     IF a = h THEN [hs[h] EXCEPT !.pNext = hs[g].pNext,
                                 !.PayloadSize = @ + hs[g].PayloadSize + HeaderSize]
     ELSE IF a = hs[g].pNext THEN [hs[a] EXCEPT !.pPrev = h]
     ELSE hs[a]]
----------------------------------------------------------------------------
(* The calls *)

Rejected(n, a) == n = 0 \/ a = 0 \/ ~IsPowerOfTwo(a)

(* Wrong variant: the least payload is taken whatever was asked for. *)
RoundedMin(n, a) == KrtlAlignUpToPowerOfTwo(MinPayload - 1, a)

RoundedSize(n, a) == KrtlAlignUpToPowerOfTwo(IF n < MinPayload THEN MinPayload ELSE n, a)

Far(h, a) == AlignedPayload(h, a) - h > MaxOffset

HeapAcquireFails(n, a) ==
  /\ ~Rejected(n, a) =>
        LET h == HeapLocateAlignedFreeOfSizeFrom(RoundedSize(n, a), a)
        IN  h = NULL \/ Far(h, a)
  /\ ret' = [call |-> "acquire", ok |-> FALSE]
  /\ UNCHANGED <<hdr, offset, size, fault>>

HeapAlignedAcquire(n, a) ==
  /\ ~Rejected(n, a)
  /\ Cardinality(Live) < MaxLive
  /\ LET need == RoundedSize(n, a)
         h    == HeapLocateAlignedFreeOfSizeFrom(need, a)
         p    == AlignedPayload(h, a)
     IN  /\ h # NULL /\ ~Far(h, a)
         /\ offset' = [q \in DOMAIN offset \cup {p} |-> IF q = p THEN p - h ELSE offset[q]]
         /\ hdr' = [HeapTrySplitAt(hdr, h, p + need) EXCEPT ![h].bFree = FALSE]
         /\ size' = [q \in Live \cup {p} |-> IF q = p THEN n ELSE size[q]]
  /\ ret' = [call |-> "acquire", ok |-> TRUE]
  /\ UNCHANGED fault

(* Wrong variant: the header is taken to be right in front of the payload. *)
HeaderInFront(p) == p - HeaderSize

HeaderOf(p) == p - offset[p]

(* The header says that the block was given back before; bytes that are no *)
(* header of the list are taken to say the same.                           *)
AlreadyFree(h) == h \notin DOMAIN hdr \/ hdr[h].bFree

(* Wrong variant: only the block after h is merged. *)
MergedForward(h) ==
  LET next   == hdr[h].pNext
      marked == [hdr EXCEPT ![h].bFree = TRUE]
  IN  IF next # NULL /\ hdr[next].bFree THEN Swallow(marked, h, next) ELSE marked

(* The list after block h was freed and merged with a free block before    *)
(* and a free block after it.                                              *)
Merged(h) ==
  LET prev   == hdr[h].pPrev
      next   == hdr[h].pNext
      marked == [hdr EXCEPT ![h].bFree = TRUE]
      into   == IF prev # NULL /\ hdr[prev].bFree THEN prev ELSE h
      first  == IF into = h THEN marked ELSE Swallow(marked, into, h)
  IN  IF next # NULL /\ hdr[next].bFree THEN Swallow(first, into, next) ELSE first

(* The merge into the previous block writes to the next header without     *)
(* asking whether there is one.                                            *)
NextMissing(h) ==
  hdr[h].pNext = NULL /\ hdr[h].pPrev # NULL /\ hdr[hdr[h].pPrev].bFree

HeapRelinquish(p) ==
  LET h == HeaderOf(p)
  IN
  /\ IF AlreadyFree(h) THEN UNCHANGED <<hdr, fault>>
     ELSE hdr' = Merged(h) /\ fault' = NextMissing(h)
  /\ ret' = [call |-> "relinquish", ok |-> ~AlreadyFree(h) /\ ~fault']
  /\ size' = [q \in Live \ {p} |-> size[q]]
  /\ offset' = [q \in Live \ {p} |-> offset[q]]

(* A pointer from elsewhere, and a re-acquisition, are turned away. *)
HeapTurnedAway ==
  /\ ret' = [call |-> "foreign", ok |-> FALSE]
  /\ UNCHANGED <<hdr, offset, size, fault>>

Next ==
  /\ ~fault
  /\ \/ \E n \in Sizes, a \in Alignments : HeapAlignedAcquire(n, a) \/ HeapAcquireFails(n, a)
     \/ \E p \in Live : HeapRelinquish(p)
     \/ HeapTurnedAway

Spec == HeapInit /\ [][Next]_vars
----------------------------------------------------------------------------
(* Properties *)

Addresses == 0 .. HeapSize - 1
Links     == Addresses \cup {NULL}

(* The ranges of the heap state. *)
TypeOK ==
  /\ DOMAIN hdr \subseteq Addresses /\ RootHeader \in DOMAIN hdr
  /\ \A h \in DOMAIN hdr :
        hdr[h] \in [pPrev : Links, pNext : Links, PayloadSize : 0 .. HeapSize, bFree : BOOLEAN]
  /\ Live \subseteq Addresses /\ DOMAIN offset = Live
  /\ \A p \in Live : size[p] \in Sizes /\ offset[p] \in 0 .. MaxOffset
  /\ fault \in BOOLEAN

(* The blocks tile the heap: each ends where the next one in the list      *)
(* begins, the last at the end of the heap, and none is too small to use.  *)
BlocksTileHeap ==
  \A h \in DOMAIN hdr :
     /\ hdr[h].PayloadSize >= MinPayload
     /\ IF hdr[h].pNext = NULL THEN BlockEnd(hdr, h) = HeapSize
                               ELSE hdr[h].pNext = BlockEnd(hdr, h) /\ hdr[h].pNext \in DOMAIN hdr

(* HeapHeader.pPrev and pNext describe the same list. *)
ListIsDoublyLinked ==
  /\ hdr[RootHeader].pPrev = NULL
  /\ \A h \in DOMAIN hdr : hdr[h].pNext # NULL => hdr[hdr[h].pNext].pPrev = h

(* HeapRelinquish merges in both directions: after any sequence of calls   *)
(* there are no two free blocks side by side.                              *)
NoAdjacentFreeBlocks ==
  \A h \in DOMAIN hdr :
     hdr[h].bFree /\ hdr[h].pNext # NULL => ~hdr[hdr[h].pNext].bFree

(* The offset word in front of a payload leads to a used header of its own; *)
(* the payload and the word lie behind that header and inside its block.    *)
PayloadsInOwnBlocks ==
  /\ \A p \in Live :
        /\ HeaderOf(p) \in DOMAIN hdr /\ ~hdr[HeaderOf(p)].bFree
        /\ p - OffsetSize >= HeapHeaderPayloadAddress(HeaderOf(p))
        /\ p + size[p] <= BlockEnd(hdr, HeaderOf(p))
  /\ \A p, q \in Live : HeaderOf(p) = HeaderOf(q) => p = q

(* Whoever holds a payload can give it back: HeapRelinquish never takes it *)
(* for one that is already free.                                           *)
OwnersCanRelinquish == [][ret' = [call |-> "relinquish", ok |-> FALSE] => fault']_vars

(* Memory that was given back is whole again when nothing is handed out.   *)
NoFragmentsLeft == Live = {} => Cardinality(DOMAIN hdr) = 1 \/ fault

(* The calls of the heap, in any order: the blocks tile the heap, the list *)
(* along pNext is the list along pPrev, free neighbours are merged down to *)
(* the last fragment and every payload lies in a block of its own.         *)
HeapIsWellFormed ==
  /\ TypeOK /\ BlocksTileHeap /\ ListIsDoublyLinked
  /\ NoAdjacentFreeBlocks /\ NoFragmentsLeft /\ PayloadsInOwnBlocks

(* HeapRelinquish: "Previous region swallows this", wherever the block is. *)
PreviousSwallows == ~fault

Extent(p) == [at |-> p, size |-> size[p]]

Abstract == INSTANCE HeapExtents WITH live <- {Extent(p) : p \in Live}

(* The heap implements its promise: extents inside the heap and apart.     *)
ImplementsExtents == Abstract!Spec
=============================================================================
