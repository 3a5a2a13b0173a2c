--------------------------- MODULE KrnlheapProofs ---------------------------
(***************************************************************************)
(* Proofs about the kernel heap, for any heap size, header size, least     *)
(* payload, request and alignment.                                         *)
(***************************************************************************)
EXTENDS Krnlheap, FiniteSetTheorems, WellFoundedInduction, TLAPS
-----------------------------------------------------------------------------
(* The inductive invariant *)

Headers == [pPrev : Links, pNext : Links, PayloadSize : 0 .. HeapSize, bFree : BOOLEAN]

(* A list of headers hs is well formed when its links lead to headers, the *)
(* one after h starts where h ends, the one after h leads back to h, the   *)
(* one before h leads to h, and no block reaches into a later one.  The    *)
(* last two are what makes the list whole: without them a header could be  *)
(* out of reach of RootHeader.                                             *)
ListTyped(hs) ==
  /\ DOMAIN hs \subseteq Addresses /\ RootHeader \in DOMAIN hs
  /\ \A h \in DOMAIN hs : hs[h] \in Headers

ListTiles(hs) ==
  \A h \in DOMAIN hs :
    /\ hs[h].PayloadSize >= MinPayload
    /\ hs[h].pNext = NULL => BlockEnd(hs, h) = HeapSize
    /\ hs[h].pNext # NULL => hs[h].pNext = BlockEnd(hs, h) /\ hs[h].pNext \in DOMAIN hs

ListLinked(hs) ==
  /\ hs[RootHeader].pPrev = NULL
  /\ \A h \in DOMAIN hs : hs[h].pNext # NULL => hs[hs[h].pNext].pPrev = h
  /\ \A h \in DOMAIN hs \ {RootHeader} :
       hs[h].pPrev # NULL /\ hs[h].pPrev \in DOMAIN hs /\ hs[hs[h].pPrev].pNext = h

ListApart(hs) == \A g, h \in DOMAIN hs : g < h => BlockEnd(hs, g) <= h

WellFormed(hs) == ListTyped(hs) /\ ListTiles(hs) /\ ListLinked(hs) /\ ListApart(hs)

FreeBlocks(hs) == {h \in DOMAIN hs : hs[h].bFree}
UsedBlocks(hs) == DOMAIN hs \ FreeBlocks(hs)

NoAdjacent(hs) == \A h \in FreeBlocks(hs) : hs[h].pNext # NULL => hs[h].pNext \notin FreeBlocks(hs)

PayloadsTyped ==
  /\ Live \subseteq Addresses /\ DOMAIN offset = Live
  /\ \A p \in Live : size[p] \in Sizes /\ offset[p] \in 0 .. MaxOffset

(* Every payload lies in a used block, behind the header and the offset    *)
(* word, and no other payload lies in that block.                          *)
PayloadsOwnBlocks ==
  /\ \A p \in Live :
        /\ HeaderOf(p) \in UsedBlocks(hdr)
        /\ p - OffsetSize >= HeapHeaderPayloadAddress(HeaderOf(p))
        /\ p + size[p] <= BlockEnd(hdr, HeaderOf(p))
  /\ \A p, q \in Live : HeaderOf(p) = HeaderOf(q) => p = q

(* A used block is the block of a payload: the heap forgets none. *)
UsedBlocksAreOwned ==
  \A h \in UsedBlocks(hdr) : \E p \in Live : HeaderOf(p) = h

IInv ==
  /\ WellFormed(hdr) /\ NoAdjacent(hdr) /\ fault \in BOOLEAN
  /\ PayloadsTyped /\ PayloadsOwnBlocks /\ UsedBlocksAreOwned
-----------------------------------------------------------------------------
(* Addresses *)

LEMMA Constants ==
  /\ HeaderSize \in Nat /\ OffsetSize \in Nat /\ MinPayload \in Nat /\ MaxOffset \in Nat
  /\ HeaderSize > 0 /\ OffsetSize > 0 /\ MinPayload > 0
  /\ HeapSize \in Nat /\ HeapSize >= HeaderSize + MinPayload
  BY HeapAssumption

(* A set of addresses has a least one: the list has a first fit. *)
LEMMA LeastAddress ==
  ASSUME NEW S \in SUBSET Nat, S # {}
  PROVE  \E m \in S : \A k \in S : m <= k
  <1> DEFINE R == OpToRel(<, Nat)
  <1>1. IsWellFoundedOn(R, Nat)
    BY NatLessThanWellFounded
  <1>2. \A j, k \in Nat : j < k => <<j, k>> \in R
    BY DEF OpToRel
  <1> HIDE DEF R
  <1>3. PICK m \in S : \A k \in S : ~ (<<k, m>> \in R)
    BY <1>1, WFMin
  <1>4. ASSUME NEW k \in S PROVE m <= k
    <2>1. m \in Nat /\ k \in Nat /\ ~ (<<k, m>> \in R)
      BY <1>3
    <2>2. ~ (k < m)
      BY <1>2, <2>1
    <2> QED BY <2>1, <2>2
  <1> QED BY <1>4

(* KrtlAlignUpToPowerOfTwo goes up, by less than the alignment. *)
LEMMA AlignUp ==
  ASSUME NEW n \in Nat, NEW a \in Nat \ {0}
  PROVE  /\ KrtlAlignUpToPowerOfTwo(n, a) \in Nat
         /\ n <= KrtlAlignUpToPowerOfTwo(n, a) /\ KrtlAlignUpToPowerOfTwo(n, a) <= n + a - 1
  <1>1. (n + a - 1) \div a \in Nat
    OBVIOUS
  <1>2. n <= ((n + a - 1) \div a) * a /\ ((n + a - 1) \div a) * a <= n + a - 1
    OBVIOUS
  <1> QED BY <1>1, <1>2 DEF KrtlAlignUpToPowerOfTwo

(* The aligned payload leaves room for the offset word, and loses no more  *)
(* than the least payload.                                                 *)
LEMMA AlignedRoom ==
  ASSUME NEW h \in Nat, NEW a \in Alignments, a # 0, IsPowerOfTwo(a)
  PROVE  /\ AlignedPayload(h, a) \in Nat
         /\ AlignedPayload(h, a) >= HeapHeaderPayloadAddress(h) + OffsetSize
         /\ AlignedPayload(h, a) - HeapHeaderPayloadAddress(h) <= MinPayload
  <1>1. a \in Nat \ {0} /\ a + OffsetSize - 1 <= MinPayload
    BY HeapAssumption
  <1> DEFINE orig == HeapHeaderPayloadAddress(h)
             first == KrtlAlignUpToPowerOfTwo(orig, a)
             second == KrtlAlignUpToPowerOfTwo(first + OffsetSize - (first - orig), a)
  <1>2. orig \in Nat
    BY Constants DEF HeapHeaderPayloadAddress
  <1>3. first \in Nat /\ orig <= first /\ first <= orig + a - 1
    BY <1>1, <1>2, AlignUp
  <1>4. first + OffsetSize - (first - orig) = orig + OffsetSize
    BY <1>2, <1>3, Constants
  <1>5. second \in Nat /\ orig + OffsetSize <= second /\ second <= orig + OffsetSize + a - 1
    BY <1>1, <1>2, <1>4, AlignUp, Constants
  <1>6. AlignedPayload(h, a) = IF first - orig < OffsetSize THEN second ELSE first
    BY DEF AlignedPayload
  <1> HIDE DEF orig, first, second
  <1>7. /\ AlignedPayload(h, a) \in Nat
        /\ AlignedPayload(h, a) >= orig + OffsetSize /\ AlignedPayload(h, a) - orig <= MinPayload
    BY <1>1, <1>2, <1>3, <1>5, <1>6, Constants
  <1> QED BY <1>7 DEF orig

LEMMA RoundedUp ==
  ASSUME NEW n \in Sizes, NEW a \in Alignments, a # 0
  PROVE  /\ RoundedSize(n, a) \in Nat /\ n <= RoundedSize(n, a) /\ n \in Nat
         /\ MinPayload <= RoundedSize(n, a)
  <1>1. n \in Nat /\ a \in Nat \ {0}
    BY HeapAssumption
  <1> DEFINE m == IF n < MinPayload THEN MinPayload ELSE n
  <1>2. m \in Nat /\ n <= m /\ MinPayload <= m
    BY <1>1, Constants
  <1>3. RoundedSize(n, a) = KrtlAlignUpToPowerOfTwo(m, a)
    BY DEF RoundedSize
  <1> HIDE DEF m
  <1>4. KrtlAlignUpToPowerOfTwo(m, a) \in Nat /\ m <= KrtlAlignUpToPowerOfTwo(m, a)
    BY <1>1, <1>2, AlignUp
  <1> QED BY <1>1, <1>2, <1>3, <1>4, Constants
-----------------------------------------------------------------------------
(* Lists of headers *)

(* What becomes of the list when block h swallows g, when cut is split off *)
(* block h, and when bFree of block h is set or cleared.                   *)
Swallowed(hs, h, g, ns) ==
  /\ WellFormed(ns) /\ DOMAIN ns = DOMAIN hs \ {g} /\ g \in DOMAIN hs /\ g # h
  /\ ns[h].pNext = hs[g].pNext /\ ns[h].pPrev = hs[h].pPrev
  /\ FreeBlocks(ns) = FreeBlocks(hs) \ {g}
  /\ \A a \in DOMAIN ns \ {h} : /\ ns[a].PayloadSize = hs[a].PayloadSize
                                 /\ ns[a].pNext = hs[a].pNext

SplitOff(hs, h, cut, ns) ==
  /\ WellFormed(ns) /\ DOMAIN ns = DOMAIN hs \cup {cut} /\ cut \notin DOMAIN hs
  /\ FreeBlocks(ns) = FreeBlocks(hs) \cup {cut}
  /\ ns[cut].pNext = hs[h].pNext /\ ns[h].pNext = cut /\ BlockEnd(ns, h) = cut
  /\ \A a \in DOMAIN hs \ {h} : /\ ns[a].PayloadSize = hs[a].PayloadSize
                                 /\ ns[a].pNext = hs[a].pNext

Remarked(hs, free, ns) ==
  /\ WellFormed(ns) /\ DOMAIN ns = DOMAIN hs /\ FreeBlocks(ns) = free
  /\ \A a \in DOMAIN hs : /\ ns[a].pNext = hs[a].pNext /\ ns[a].pPrev = hs[a].pPrev
                          /\ ns[a].PayloadSize = hs[a].PayloadSize

SplitAndUsed(hs, h, cut, ns) ==
  /\ WellFormed(ns) /\ NoAdjacent(ns) /\ DOMAIN hs \subseteq DOMAIN ns
  /\ cut <= BlockEnd(ns, h)
  /\ FreeBlocks(hs) \ {h} \subseteq FreeBlocks(ns) /\ h \notin FreeBlocks(ns)
  /\ FreeBlocks(ns) \cap DOMAIN hs \subseteq FreeBlocks(hs)
  /\ DOMAIN ns \ FreeBlocks(ns) \subseteq DOMAIN hs
  /\ \A a \in DOMAIN hs \ {h} : BlockEnd(ns, a) = BlockEnd(hs, a)

AfterMerge(h, ns) ==
  /\ WellFormed(ns) /\ NoAdjacent(ns) /\ UsedBlocks(ns) = UsedBlocks(hdr) \ {h}
  /\ \A a \in UsedBlocks(ns) : BlockEnd(ns, a) = BlockEnd(hdr, a)

SetFree(hs, h) == [hs EXCEPT ![h].bFree = TRUE]
SetUsed(hs, h) == [hs EXCEPT ![h].bFree = FALSE]

LEMMA BlocksInHeap ==
  ASSUME NEW hs, WellFormed(hs), NEW h \in DOMAIN hs
  PROVE  /\ h \in Nat /\ hs[h].PayloadSize \in Nat /\ hs[h].PayloadSize >= MinPayload
         /\ hs[h].pNext \in Links /\ hs[h].pPrev \in Links
         /\ BlockEnd(hs, h) \in Nat /\ BlockEnd(hs, h) <= HeapSize
         /\ BlockEnd(hs, h) = h + HeaderSize + hs[h].PayloadSize
         /\ hs[h].pNext # NULL => hs[h].pNext > h
  <1>1. h \in Nat /\ hs[h] \in Headers
    BY DEF WellFormed, ListTyped, Addresses
  <1>2. /\ hs[h].PayloadSize \in Nat /\ hs[h].pNext \in Links /\ hs[h].pPrev \in Links
        /\ hs[h].PayloadSize >= MinPayload
    BY <1>1, Constants DEF Headers, WellFormed, ListTiles
  <1>3. BlockEnd(hs, h) = h + HeaderSize + hs[h].PayloadSize /\ BlockEnd(hs, h) \in Nat
    BY <1>1, <1>2, Constants DEF BlockEnd
  <1>4. BlockEnd(hs, h) <= HeapSize
    BY <1>3, Constants DEF WellFormed, ListTiles, ListTyped, Addresses
  <1>5. hs[h].pNext # NULL => hs[h].pNext > h
    BY <1>1, <1>2, <1>3, Constants DEF WellFormed, ListTiles
  <1> QED BY <1>1, <1>2, <1>3, <1>4, <1>5

(* Swallowing the next block keeps the list well formed. *)
LEMMA SwallowKeeps ==
  ASSUME NEW hs, WellFormed(hs), NEW h \in DOMAIN hs, NEW g, g = hs[h].pNext, g # NULL,
         NEW ns, ns = Swallow(hs, h, g)
  PROVE  Swallowed(hs, h, g, ns)
  <1>1. /\ g \in DOMAIN hs /\ g > h /\ g = BlockEnd(hs, h) /\ hs[g].pPrev = h
        /\ h \in Nat /\ g \in Nat
    BY BlocksInHeap DEF WellFormed, ListTiles, ListLinked
  <1>2. DOMAIN ns = DOMAIN hs \ {g} /\ h \in DOMAIN ns /\ RootHeader \in DOMAIN ns
    BY <1>1 DEF Swallow, WellFormed, ListTyped, RootHeader
  <1> DEFINE k == hs[g].pNext
  <1>3. /\ k \in Links
        /\ k # NULL => k \in DOMAIN hs /\ k > g /\ k = BlockEnd(hs, g) /\ hs[k].pPrev = g
        /\ k = NULL => BlockEnd(hs, g) = HeapSize
    BY <1>1, BlocksInHeap DEF WellFormed, ListTiles, ListLinked
  <1> HIDE DEF k
  <1>4. ns[h] = [hs[h] EXCEPT !.pNext = k, !.PayloadSize = @ + hs[g].PayloadSize + HeaderSize]
    BY <1>2 DEF Swallow, k
  <1>5. \A a \in DOMAIN ns \ {h} : ns[a] = IF a = k THEN [hs[a] EXCEPT !.pPrev = h] ELSE hs[a]
    BY <1>2 DEF Swallow, k
  <1>6. \A a \in DOMAIN hs : hs[a] \in Headers
    BY DEF WellFormed, ListTyped
  <1>7. /\ ns[h].pNext = k /\ ns[h].pPrev = hs[h].pPrev /\ ns[h].bFree = hs[h].bFree
        /\ ns[h].PayloadSize = hs[h].PayloadSize + hs[g].PayloadSize + HeaderSize
    BY <1>4, <1>6 DEF Headers
  <1>8. ASSUME NEW a \in DOMAIN ns \ {h}
        PROVE  /\ ns[a].pNext = hs[a].pNext /\ ns[a].bFree = hs[a].bFree
               /\ ns[a].PayloadSize = hs[a].PayloadSize
               /\ ns[a].pPrev = IF a = k THEN h ELSE hs[a].pPrev
    BY <1>2, <1>5, <1>6 DEF Headers
  <1>9. \A a \in DOMAIN ns : BlockEnd(ns, a) = IF a = h THEN BlockEnd(hs, g) ELSE BlockEnd(hs, a)
    <2>1. BlockEnd(ns, h) = BlockEnd(hs, g)
      BY <1>1, <1>7, BlocksInHeap, Constants DEF BlockEnd
    <2>2. \A a \in DOMAIN ns \ {h} : BlockEnd(ns, a) = BlockEnd(hs, a)
      BY <1>8 DEF BlockEnd
    <2> QED BY <2>1, <2>2
  <1>10. ListTyped(ns)
    <2>1. ns[h] \in Headers
      <3>1. hs[h].PayloadSize + hs[g].PayloadSize + HeaderSize \in 0 .. HeapSize
        BY <1>1, BlocksInHeap, Constants
      <3> QED BY <1>3, <1>4, <1>6, <3>1 DEF Headers
    <2>2. \A a \in DOMAIN ns \ {h} : ns[a] \in Headers
      <3>1. h \in Links
        BY DEF WellFormed, ListTyped, Links
      <3>2. ASSUME NEW a \in DOMAIN ns \ {h} PROVE ns[a] \in Headers
        <4>1. hs[a] \in Headers
          BY <1>2, <1>6
        <4>2. [hs[a] EXCEPT !.pPrev = h] \in Headers
          BY <3>1, <4>1 DEF Headers
        <4> QED BY <1>5, <4>1, <4>2
      <3> QED BY <3>2
    <2> QED BY <1>2, <2>1, <2>2 DEF WellFormed, ListTyped
  <1>11. ListTiles(ns)
    <2> SUFFICES ASSUME NEW a \in DOMAIN ns
                 PROVE  /\ ns[a].PayloadSize >= MinPayload
                        /\ ns[a].pNext = NULL => BlockEnd(ns, a) = HeapSize
                        /\ ns[a].pNext # NULL => ns[a].pNext = BlockEnd(ns, a) /\ ns[a].pNext \in DOMAIN ns
      BY DEF ListTiles
    <2>1. CASE a = h
      BY <1>1, <1>2, <1>3, <1>7, <1>9, <2>1, BlocksInHeap, Constants
    <2>2. CASE a # h
      <3>1. a \in DOMAIN hs /\ a # g /\ (hs[a].pNext # NULL => hs[a].pNext # g)
        BY <1>1, <1>2, <2>2 DEF WellFormed, ListLinked
      <3> QED BY <1>2, <1>8, <1>9, <2>2, <3>1 DEF WellFormed, ListTiles
    <2> QED BY <2>1, <2>2
  <1>12. ListLinked(ns)
    <2>1. ns[RootHeader].pPrev = NULL
      <3>1. k # RootHeader
        BY <1>1, <1>3 DEF RootHeader, NULL
      <3> QED BY <1>2, <1>7, <1>8, <3>1 DEF WellFormed, ListLinked
    <2>2. ASSUME NEW a \in DOMAIN ns, ns[a].pNext # NULL PROVE ns[ns[a].pNext].pPrev = a
      <3>1. CASE a = h
        <4>1. k \in DOMAIN ns \ {h}
          BY <1>1, <1>2, <1>3, <1>7, <2>2, <3>1
        <4> QED BY <1>7, <1>8, <3>1, <4>1
      <3>2. CASE a # h
        <4>1. /\ a \in DOMAIN hs /\ a # g /\ ns[a].pNext = hs[a].pNext
              /\ hs[a].pNext \in DOMAIN hs /\ hs[hs[a].pNext].pPrev = a
          BY <1>2, <1>8, <2>2, <3>2 DEF WellFormed, ListLinked, ListTiles
        <4>2. hs[a].pNext # g /\ hs[a].pNext # k
          BY <1>1, <1>3, <2>2, <3>2, <4>1
        <4>3. CASE hs[a].pNext = h
          BY <1>7, <4>1, <4>3
        <4>4. CASE hs[a].pNext # h
          BY <1>2, <1>8, <4>1, <4>2, <4>4
        <4> QED BY <4>3, <4>4
      <3> QED BY <3>1, <3>2
    <2>3. ASSUME NEW a \in DOMAIN ns \ {RootHeader}
          PROVE  ns[a].pPrev # NULL /\ ns[a].pPrev \in DOMAIN ns /\ ns[ns[a].pPrev].pNext = a
      <3>1. /\ a \in DOMAIN hs \ {RootHeader} /\ a # g
            /\ hs[a].pPrev # NULL /\ hs[a].pPrev \in DOMAIN hs /\ hs[hs[a].pPrev].pNext = a
        BY <1>2 DEF WellFormed, ListLinked
      <3>2. CASE a = k
        <4>1. ns[a].pPrev = h
          <5>1. a \in Nat
            BY <3>1, BlocksInHeap
          <5>2. a # h
            BY <1>1, <1>3, <3>2, <5>1 DEF NULL
          <5> QED BY <1>8, <3>2, <5>2
        <4> QED BY <1>1, <1>2, <1>7, <3>2, <4>1 DEF NULL
      <3>3. CASE a # k
        <4>1. ns[a].pPrev = hs[a].pPrev
          BY <1>7, <1>8, <3>3
        <4>2. hs[a].pPrev # g /\ hs[a].pPrev # h
          BY <1>1, <3>1, <3>3 DEF k
        <4> QED BY <1>2, <1>8, <3>1, <4>1, <4>2
      <3> QED BY <3>2, <3>3
    <2> QED BY <2>1, <2>2, <2>3 DEF ListLinked
  <1>13. ListApart(ns)
    <2> SUFFICES ASSUME NEW a \in DOMAIN ns, NEW b \in DOMAIN ns, a < b
                 PROVE  BlockEnd(ns, a) <= b
      BY DEF ListApart
    <2>1. a \in Nat /\ b \in Nat /\ b # g /\ a \in DOMAIN hs /\ b \in DOMAIN hs
      BY <1>2, BlocksInHeap
    <2>2. CASE a = h
      <3>1. g <= b
        BY <1>1, <2>1, <2>2 DEF WellFormed, ListApart
      <3>2. BlockEnd(hs, g) <= b
        BY <1>1, <2>1, <3>1 DEF WellFormed, ListApart
      <3> QED BY <1>9, <2>2, <3>2
    <2>3. CASE a # h
      BY <1>9, <2>1, <2>3 DEF WellFormed, ListApart
    <2> QED BY <2>2, <2>3
  <1>14. WellFormed(ns)
    BY <1>10, <1>11, <1>12, <1>13 DEF WellFormed
  <1>15. FreeBlocks(ns) = FreeBlocks(hs) \ {g}
    <2>1. \A a \in DOMAIN ns : ns[a].bFree = hs[a].bFree
      BY <1>7, <1>8
    <2> QED BY <1>2, <2>1 DEF FreeBlocks
  <1> QED BY <1>1, <1>2, <1>7, <1>8, <1>14, <1>15 DEF Swallowed, k

(* Splitting a block off the end of one keeps the list well formed. *)
LEMMA SplitKeeps ==
  ASSUME NEW hs, WellFormed(hs), NEW h \in DOMAIN hs, NEW cut \in Nat,
         cut >= h + HeaderSize + MinPayload, HeapCanSplitAt(hs, h, cut),
         NEW ns, ns = SplitAt(hs, h, cut)
  PROVE  SplitOff(hs, h, cut, ns)
  <1> DEFINE k == hs[h].pNext
             e == BlockEnd(hs, h)
  <1>0. /\ h \in Nat /\ e \in Nat /\ e <= HeapSize /\ cut > h /\ e - cut >= MinPayload + HeaderSize
        /\ e = h + HeaderSize + hs[h].PayloadSize /\ hs[h].PayloadSize \in Nat
        /\ cut \in Addresses
    BY BlocksInHeap, Constants DEF HeapCanSplitAt, Addresses
  <1>1. cut \notin DOMAIN hs
    <2> SUFFICES ASSUME cut \in DOMAIN hs PROVE FALSE
      OBVIOUS
    <2>1. e <= cut
      BY <1>0 DEF WellFormed, ListApart
    <2> QED BY <1>0, <2>1, Constants
  <1>2. DOMAIN ns = DOMAIN hs \cup {cut} /\ RootHeader \in DOMAIN hs /\ h # cut
    BY <1>0 DEF SplitAt, WellFormed, ListTyped
  <1>3. /\ k \in Links
        /\ k # NULL => k \in DOMAIN hs /\ k > h /\ k = e /\ hs[k].pPrev = h
        /\ k = NULL => e = HeapSize
        /\ k # h /\ k # cut
    BY <1>0, <1>1, BlocksInHeap DEF WellFormed, ListTiles, ListLinked, NULL
  <1> HIDE DEF k, e
  <1>4. /\ ns[cut] = Header(h, k, e - cut - HeaderSize, TRUE)
        /\ ns[h] = [hs[h] EXCEPT !.pNext = cut, !.PayloadSize = @ - (e - cut)]
    BY <1>2 DEF SplitAt, k, e
  <1>5. \A a \in DOMAIN hs \ {h} : ns[a] = IF a = k THEN [hs[a] EXCEPT !.pPrev = cut] ELSE hs[a]
    BY <1>1, <1>2 DEF SplitAt, k
  <1>6. \A a \in DOMAIN hs : hs[a] \in Headers
    BY DEF WellFormed, ListTyped
  <1>7. /\ ns[h].pNext = cut /\ ns[h].pPrev = hs[h].pPrev /\ ns[h].bFree = hs[h].bFree
        /\ ns[h].PayloadSize = hs[h].PayloadSize - (e - cut)
        /\ ns[cut].pNext = k /\ ns[cut].pPrev = h /\ ns[cut].bFree
        /\ ns[cut].PayloadSize = e - cut - HeaderSize
    BY <1>4, <1>6 DEF Headers, Header
  <1>8. ASSUME NEW a \in DOMAIN hs \ {h}
        PROVE  /\ ns[a].pNext = hs[a].pNext /\ ns[a].bFree = hs[a].bFree
               /\ ns[a].PayloadSize = hs[a].PayloadSize
               /\ ns[a].pPrev = IF a = k THEN cut ELSE hs[a].pPrev
    BY <1>5, <1>6 DEF Headers
  <1>9. /\ BlockEnd(ns, h) = cut /\ BlockEnd(ns, cut) = e
        /\ \A a \in DOMAIN hs \ {h} : BlockEnd(ns, a) = BlockEnd(hs, a)
    <2>1. BlockEnd(ns, h) = cut /\ BlockEnd(ns, cut) = e
      BY <1>0, <1>7, Constants DEF BlockEnd
    <2>2. \A a \in DOMAIN hs \ {h} : BlockEnd(ns, a) = BlockEnd(hs, a)
      BY <1>8 DEF BlockEnd
    <2> QED BY <2>1, <2>2
  <1>10. ListTyped(ns)
    <2>1. h \in Links /\ cut \in Links
      BY <1>0 DEF WellFormed, ListTyped, Links
    <2>2. ns[h] \in Headers
      <3>1. hs[h].PayloadSize - (e - cut) \in 0 .. HeapSize
        BY <1>0, Constants
      <3> QED BY <1>4, <1>6, <2>1, <3>1 DEF Headers
    <2>3. ns[cut] \in Headers
      <3>1. e - cut - HeaderSize \in 0 .. HeapSize
        BY <1>0, Constants
      <3> QED BY <1>3, <1>4, <2>1, <3>1 DEF Headers, Header
    <2>4. ASSUME NEW a \in DOMAIN hs \ {h} PROVE ns[a] \in Headers
      <3>1. hs[a] \in Headers
        BY <1>6
      <3>2. [hs[a] EXCEPT !.pPrev = cut] \in Headers
        BY <2>1, <3>1 DEF Headers
      <3> QED BY <1>5, <3>1, <3>2
    <2> QED BY <1>0, <1>2, <2>2, <2>3, <2>4 DEF WellFormed, ListTyped
  <1>11. ListTiles(ns)
    <2> SUFFICES ASSUME NEW a \in DOMAIN ns
                 PROVE  /\ ns[a].PayloadSize >= MinPayload
                        /\ ns[a].pNext = NULL => BlockEnd(ns, a) = HeapSize
                        /\ ns[a].pNext # NULL => ns[a].pNext = BlockEnd(ns, a) /\ ns[a].pNext \in DOMAIN ns
      BY DEF ListTiles
    <2>1. CASE a = h
      BY <1>0, <1>2, <1>7, <1>9, <2>1, Constants DEF NULL
    <2>2. CASE a = cut
      BY <1>0, <1>2, <1>3, <1>7, <1>9, <2>2, Constants
    <2>3. CASE a # h /\ a # cut
      BY <1>2, <1>8, <1>9, <2>3 DEF WellFormed, ListTiles
    <2> QED BY <2>1, <2>2, <2>3
  <1>12. ListLinked(ns)
    <2>1. ns[RootHeader].pPrev = NULL
      <3>1. k # RootHeader
        BY <1>0, <1>3 DEF RootHeader, NULL
      <3> QED BY <1>2, <1>7, <1>8, <3>1 DEF WellFormed, ListLinked
    <2>2. ASSUME NEW a \in DOMAIN ns, ns[a].pNext # NULL PROVE ns[ns[a].pNext].pPrev = a
      <3>1. CASE a = h
        BY <1>7, <3>1
      <3>2. CASE a = cut
        BY <1>3, <1>7, <1>8, <2>2, <3>2
      <3>3. CASE a # h /\ a # cut
        <4>1. /\ a \in DOMAIN hs /\ ns[a].pNext = hs[a].pNext
              /\ hs[a].pNext \in DOMAIN hs /\ hs[hs[a].pNext].pPrev = a
          BY <1>2, <1>8, <2>2, <3>3 DEF WellFormed, ListLinked, ListTiles
        <4>2. hs[a].pNext # k
          BY <1>3, <2>2, <3>3, <4>1
        <4>3. CASE hs[a].pNext = h
          BY <1>7, <4>1, <4>3
        <4>4. CASE hs[a].pNext # h
          BY <1>2, <1>8, <4>1, <4>2, <4>4
        <4> QED BY <4>3, <4>4
      <3> QED BY <3>1, <3>2, <3>3
    <2>3. ASSUME NEW a \in DOMAIN ns \ {RootHeader}
          PROVE  ns[a].pPrev # NULL /\ ns[a].pPrev \in DOMAIN ns /\ ns[ns[a].pPrev].pNext = a
      <3>1. CASE a = cut
        BY <1>0, <1>2, <1>7, <3>1 DEF NULL
      <3>2. CASE a = k /\ a # cut
        <4>1. a \in DOMAIN hs \ {h}
          BY <1>2, <1>3, <3>2
        <4> QED BY <1>0, <1>2, <1>7, <1>8, <3>2, <4>1 DEF NULL
      <3>3. CASE a # k /\ a # cut
        <4>1. /\ a \in DOMAIN hs \ {RootHeader} /\ ns[a].pPrev = hs[a].pPrev
              /\ hs[a].pPrev # NULL /\ hs[a].pPrev \in DOMAIN hs /\ hs[hs[a].pPrev].pNext = a
          BY <1>2, <1>7, <1>8, <3>3 DEF WellFormed, ListLinked
        <4>2. hs[a].pPrev # h
          BY <3>3, <4>1 DEF k
        <4> QED BY <1>2, <1>8, <4>1, <4>2
      <3> QED BY <3>1, <3>2, <3>3
    <2> QED BY <2>1, <2>2, <2>3 DEF ListLinked
  <1>13. ListApart(ns)
    <2> SUFFICES ASSUME NEW a \in DOMAIN ns, NEW b \in DOMAIN ns, a < b
                 PROVE  BlockEnd(ns, a) <= b
      BY DEF ListApart
    <2>0. a \in Nat /\ b \in Nat
      BY <1>2, BlocksInHeap
    <2>1. CASE a = h
      <3>1. b = cut \/ e <= b
        BY <1>2, <2>1 DEF WellFormed, ListApart, e
      <3> QED BY <1>0, <1>9, <2>0, <2>1, <3>1, Constants
    <2>2. CASE a = cut
      <3>1. b \in DOMAIN hs /\ h < b
        BY <1>0, <1>2, <2>0, <2>2
      <3> QED BY <1>9, <2>2, <3>1 DEF WellFormed, ListApart, e
    <2>3. CASE a # h /\ a # cut
      <3>1. a \in DOMAIN hs /\ BlockEnd(ns, a) = BlockEnd(hs, a) /\ BlockEnd(hs, a) \in Nat
        BY <1>2, <1>9, <2>3, BlocksInHeap
      <3>2. CASE b \in DOMAIN hs
        BY <3>1, <3>2 DEF WellFormed, ListApart
      <3>3. CASE b = cut
        <4>1. a < h
          <5> SUFFICES ASSUME h < a PROVE FALSE
            BY <1>0, <2>0, <2>3
          <5>1. e <= a
            BY <3>1 DEF WellFormed, ListApart, e
          <5> QED BY <1>0, <2>0, <3>3, <5>1, Constants
        <4>2. BlockEnd(hs, a) <= h
          BY <3>1, <4>1 DEF WellFormed, ListApart
        <4> QED BY <1>0, <3>1, <3>3, <4>2
      <3> QED BY <1>2, <3>2, <3>3
    <2> QED BY <2>1, <2>2, <2>3
  <1>14. WellFormed(ns)
    BY <1>10, <1>11, <1>12, <1>13 DEF WellFormed
  <1>15. FreeBlocks(ns) = FreeBlocks(hs) \cup {cut}
    <2>1. \A a \in DOMAIN hs : ns[a].bFree = hs[a].bFree
      BY <1>7, <1>8
    <2>2. ns[cut].bFree
      BY <1>7
    <2> QED BY <1>1, <1>2, <2>1, <2>2 DEF FreeBlocks
  <1> QED BY <1>1, <1>2, <1>7, <1>8, <1>9, <1>14, <1>15 DEF SplitOff, k

(* A change of bFree alone does not touch the list. *)
LEMMA MarkKeeps ==
  ASSUME NEW hs, WellFormed(hs), NEW ns, DOMAIN ns = DOMAIN hs,
         \A a \in DOMAIN hs : /\ ns[a] \in Headers
                              /\ ns[a].pNext = hs[a].pNext /\ ns[a].pPrev = hs[a].pPrev
                              /\ ns[a].PayloadSize = hs[a].PayloadSize
  PROVE  WellFormed(ns)
  <1>1. \A a \in DOMAIN hs : BlockEnd(ns, a) = BlockEnd(hs, a)
    BY DEF BlockEnd
  <1>2. ListTyped(ns)
    BY DEF WellFormed, ListTyped
  <1>3. ListTiles(ns)
    BY <1>1 DEF WellFormed, ListTiles
  <1>4. ListApart(ns)
    BY <1>1 DEF WellFormed, ListApart
  <1>5. ListLinked(ns)
    <2>1. \A a \in DOMAIN hs : hs[a].pNext # NULL => hs[a].pNext \in DOMAIN hs
      BY DEF WellFormed, ListTiles
    <2> QED BY <2>1 DEF WellFormed, ListTyped, ListLinked
  <1> QED BY <1>2, <1>3, <1>4, <1>5 DEF WellFormed

LEMMA MarkFree ==
  ASSUME NEW hs, WellFormed(hs), NEW h \in DOMAIN hs, NEW ns, ns = SetFree(hs, h)
  PROVE  Remarked(hs, FreeBlocks(hs) \cup {h}, ns)
  <1>1. /\ DOMAIN ns = DOMAIN hs /\ ns[h] = [hs[h] EXCEPT !.bFree = TRUE]
        /\ \A a \in DOMAIN hs \ {h} : ns[a] = hs[a]
    BY DEF SetFree
  <1>2. \A a \in DOMAIN hs : hs[a] \in Headers
    BY DEF WellFormed, ListTyped
  <1>3. \A a \in DOMAIN hs : /\ ns[a] \in Headers
                             /\ ns[a].pNext = hs[a].pNext /\ ns[a].pPrev = hs[a].pPrev
                             /\ ns[a].PayloadSize = hs[a].PayloadSize
    <2>1. /\ ns[h] \in Headers /\ ns[h].PayloadSize = hs[h].PayloadSize
          /\ ns[h].pNext = hs[h].pNext /\ ns[h].pPrev = hs[h].pPrev
      BY <1>1, <1>2 DEF Headers
    <2> QED BY <1>1, <1>2, <2>1
  <1>4. ns[h].bFree
    BY <1>1, <1>2 DEF Headers
  <1>5. FreeBlocks(ns) = FreeBlocks(hs) \cup {h}
    BY <1>1, <1>4 DEF FreeBlocks
  <1> QED BY <1>1, <1>3, <1>5, MarkKeeps DEF Remarked

LEMMA MarkUsed ==
  ASSUME NEW hs, WellFormed(hs), NEW h \in DOMAIN hs, NEW ns, ns = SetUsed(hs, h)
  PROVE  Remarked(hs, FreeBlocks(hs) \ {h}, ns)
  <1>1. /\ DOMAIN ns = DOMAIN hs /\ ns[h] = [hs[h] EXCEPT !.bFree = FALSE]
        /\ \A a \in DOMAIN hs \ {h} : ns[a] = hs[a]
    BY DEF SetUsed
  <1>2. \A a \in DOMAIN hs : hs[a] \in Headers
    BY DEF WellFormed, ListTyped
  <1>3. \A a \in DOMAIN hs : /\ ns[a] \in Headers
                             /\ ns[a].pNext = hs[a].pNext /\ ns[a].pPrev = hs[a].pPrev
                             /\ ns[a].PayloadSize = hs[a].PayloadSize
    <2>1. /\ ns[h] \in Headers /\ ns[h].PayloadSize = hs[h].PayloadSize
          /\ ns[h].pNext = hs[h].pNext /\ ns[h].pPrev = hs[h].pPrev
      BY <1>1, <1>2 DEF Headers
    <2> QED BY <1>1, <1>2, <2>1
  <1>4. ~ns[h].bFree
    BY <1>1, <1>2 DEF Headers
  <1>5. FreeBlocks(ns) = FreeBlocks(hs) \ {h}
    BY <1>1, <1>4 DEF FreeBlocks
  <1> QED BY <1>1, <1>3, <1>5, MarkKeeps DEF Remarked

(* HeapTrySplitAt, and the block is marked as used: only the part split    *)
(* off, which lies between two used blocks, is new.                        *)
LEMMA SplitAndUse ==
  ASSUME NEW hs, WellFormed(hs), NoAdjacent(hs), NEW h \in FreeBlocks(hs),
         NEW cut \in Nat, cut >= h + HeaderSize + MinPayload, cut <= BlockEnd(hs, h),
         NEW ns, ns = SetUsed(HeapTrySplitAt(hs, h, cut), h)
  PROVE  SplitAndUsed(hs, h, cut, ns)
  <1>0. /\ \A a \in DOMAIN hs : hs[a].pNext # NULL => hs[a].pNext \in DOMAIN hs /\ hs[a].pNext # a
        /\ FreeBlocks(hs) \subseteq DOMAIN hs
    BY BlocksInHeap DEF WellFormed, ListTiles, FreeBlocks
  <1>1. CASE HeapCanSplitAt(hs, h, cut)
    <2>0. PICK ms : ms = SplitAt(hs, h, cut)
      OBVIOUS
    <2>1. /\ WellFormed(ms) /\ DOMAIN ms = DOMAIN hs \cup {cut} /\ cut \notin DOMAIN hs
          /\ FreeBlocks(ms) = FreeBlocks(hs) \cup {cut}
          /\ ms[cut].pNext = hs[h].pNext /\ ms[h].pNext = cut /\ BlockEnd(ms, h) = cut
          /\ \A a \in DOMAIN hs \ {h} : /\ ms[a].PayloadSize = hs[a].PayloadSize
                                         /\ ms[a].pNext = hs[a].pNext
      <3>1. SplitOff(hs, h, cut, ms)
        BY <1>0, <1>1, <2>0, SplitKeeps
      <3> QED BY <3>1 DEF SplitOff
    <2>2. ns = SetUsed(ms, h) /\ h \in DOMAIN ms
      BY <1>0, <1>1, <2>0, <2>1 DEF HeapTrySplitAt
    <2>3. /\ WellFormed(ns) /\ DOMAIN ns = DOMAIN ms /\ FreeBlocks(ns) = FreeBlocks(ms) \ {h}
          /\ \A a \in DOMAIN ms : /\ ns[a].pNext = ms[a].pNext /\ ns[a].pPrev = ms[a].pPrev
                                  /\ ns[a].PayloadSize = ms[a].PayloadSize
      <3>1. Remarked(ms, FreeBlocks(ms) \ {h}, ns)
        BY <2>1, <2>2, MarkUsed
      <3> QED BY <3>1 DEF Remarked
    <2>7. FreeBlocks(ns) = (FreeBlocks(hs) \cup {cut}) \ {h} /\ cut \notin DOMAIN hs
      BY <2>1, <2>3
    <2>4. NoAdjacent(ns)
      <3> SUFFICES ASSUME NEW a \in FreeBlocks(ns), ns[a].pNext # NULL
                   PROVE  ns[a].pNext \notin FreeBlocks(ns)
        BY DEF NoAdjacent
      <3>1. CASE a = cut
        <4>1. hs[h].pNext # NULL /\ ns[a].pNext = hs[h].pNext
          BY <2>1, <2>3, <3>1
        <4>2. hs[h].pNext \notin FreeBlocks(hs) /\ hs[h].pNext \in DOMAIN hs
          BY <1>0, <4>1 DEF NoAdjacent
        <4> QED BY <2>7, <4>1, <4>2
      <3>2. CASE a # cut
        <4>1. a \in FreeBlocks(hs) \ {h} /\ ns[a].pNext = hs[a].pNext
          BY <1>0, <2>1, <2>3, <3>2
        <4>2. hs[a].pNext \notin FreeBlocks(hs) /\ hs[a].pNext \in DOMAIN hs
          BY <1>0, <4>1 DEF NoAdjacent
        <4> QED BY <2>7, <4>1, <4>2
      <3> QED BY <3>1, <3>2
    <2>5. \A a \in DOMAIN hs \ {h} : BlockEnd(ns, a) = BlockEnd(hs, a)
      BY <2>1, <2>3 DEF BlockEnd
    <2>6. BlockEnd(ns, h) = cut
      BY <2>1, <2>2, <2>3 DEF BlockEnd
    <2>8. DOMAIN ns = DOMAIN hs \cup {cut}
      BY <2>1, <2>3
    <2>9. cut <= BlockEnd(ns, h)
      BY <2>6
    <2>10. /\ DOMAIN hs \subseteq DOMAIN ns
           /\ FreeBlocks(hs) \ {h} \subseteq FreeBlocks(ns) /\ h \notin FreeBlocks(ns)
           /\ FreeBlocks(ns) \cap DOMAIN hs \subseteq FreeBlocks(hs)
           /\ DOMAIN ns \ FreeBlocks(ns) \subseteq DOMAIN hs
      BY <1>0, <2>7, <2>8
    <2> QED BY <2>3, <2>4, <2>5, <2>9, <2>10 DEF SplitAndUsed
  <1>2. CASE ~HeapCanSplitAt(hs, h, cut)
    <2>1. ns = SetUsed(hs, h)
      BY <1>2 DEF HeapTrySplitAt
    <2>2. /\ WellFormed(ns) /\ DOMAIN ns = DOMAIN hs /\ FreeBlocks(ns) = FreeBlocks(hs) \ {h}
          /\ \A a \in DOMAIN hs : /\ ns[a].pNext = hs[a].pNext /\ ns[a].pPrev = hs[a].pPrev
                                  /\ ns[a].PayloadSize = hs[a].PayloadSize
      <3>1. Remarked(hs, FreeBlocks(hs) \ {h}, ns)
        BY <1>0, <2>1, MarkUsed
      <3> QED BY <3>1 DEF Remarked
    <2>3. \A a \in DOMAIN hs : BlockEnd(ns, a) = BlockEnd(hs, a)
      BY <2>2 DEF BlockEnd
    <2>4. NoAdjacent(ns)
      BY <1>0, <2>2 DEF NoAdjacent
    <2> QED BY <1>0, <2>2, <2>3, <2>4 DEF SplitAndUsed
  <1> QED BY <1>1, <1>2

(* HeapRelinquish: the block is marked as free and merged with its free    *)
(* neighbours; every used block stays as it was.                           *)
LEMMA MergedKeeps ==
  ASSUME WellFormed(hdr), NoAdjacent(hdr), NEW h \in DOMAIN hdr, h \notin FreeBlocks(hdr),
         NEW ns, ns = Merged(h)
  PROVE  AfterMerge(h, ns)
  <1> DEFINE prev   == hdr[h].pPrev
             next   == hdr[h].pNext
             marked == [hdr EXCEPT ![h].bFree = TRUE]
             into   == IF prev # NULL /\ hdr[prev].bFree THEN prev ELSE h
             first  == IF into = h THEN marked ELSE Swallow(marked, into, h)
  <1>0. /\ \A a \in DOMAIN hdr : /\ a \in Nat /\ a # NULL
                                 /\ hdr[a].pNext # NULL =>
                                      /\ hdr[a].pNext \in DOMAIN hdr /\ hdr[a].pNext > a
                                      /\ hdr[hdr[a].pNext].pPrev = a
        /\ FreeBlocks(hdr) \subseteq DOMAIN hdr
    BY BlocksInHeap DEF WellFormed, ListTiles, ListLinked, NULL, FreeBlocks
  <1>1. marked = SetFree(hdr, h)
    BY DEF SetFree
  <1>2. ns = IF next # NULL /\ hdr[next].bFree THEN Swallow(first, into, next) ELSE first
    BY DEF Merged
  <1> HIDE DEF marked
  <1>3. /\ WellFormed(marked) /\ DOMAIN marked = DOMAIN hdr
        /\ FreeBlocks(marked) = FreeBlocks(hdr) \cup {h}
        /\ \A a \in DOMAIN hdr : /\ marked[a].pNext = hdr[a].pNext /\ marked[a].pPrev = hdr[a].pPrev
                                 /\ marked[a].PayloadSize = hdr[a].PayloadSize
    <2>1. Remarked(hdr, FreeBlocks(hdr) \cup {h}, marked)
      BY <1>1, MarkFree
    <2> QED BY <2>1 DEF Remarked
  <1>4. prev # NULL => prev \in DOMAIN hdr /\ hdr[prev].pNext = h /\ prev # h
    BY <1>0 DEF WellFormed, ListLinked
  <1>5. /\ prev # NULL /\ hdr[prev].bFree <=> prev \in FreeBlocks(hdr)
        /\ next # NULL /\ hdr[next].bFree <=> next \in FreeBlocks(hdr)
    BY <1>0, <1>4 DEF FreeBlocks
  <1>6. into = IF prev \in FreeBlocks(hdr) THEN prev ELSE h
    BY <1>5
  <1>7. ns = IF next \in FreeBlocks(hdr) THEN Swallow(first, into, next) ELSE first
    BY <1>2, <1>5
  <1>8. first = IF into = h THEN marked ELSE Swallow(marked, into, h)
    OBVIOUS
  <1> HIDE DEF into, first
  <1>9. into \in DOMAIN hdr /\ into <= h /\ into \in Nat
    BY <1>0, <1>4, <1>6
  <1>10. /\ WellFormed(first) /\ into \in FreeBlocks(first)
         /\ DOMAIN first = DOMAIN hdr \ (IF into = h THEN {} ELSE {h})
         /\ FreeBlocks(first) = FreeBlocks(hdr) \cup {into}
         /\ first[into].pNext = next
         /\ \A a \in DOMAIN first \ {into} : /\ first[a].PayloadSize = hdr[a].PayloadSize
                                             /\ first[a].pNext = hdr[a].pNext
    <2>1. CASE into = h
      BY <1>3, <1>8, <2>1
    <2>2. CASE into # h
      <3>1. first = Swallow(marked, into, h)
        BY <1>8, <2>2
      <3>2. h = marked[into].pNext /\ h # NULL /\ into \in DOMAIN marked
        BY <1>0, <1>3, <1>4, <1>6, <2>2
      <3>3. /\ WellFormed(first) /\ DOMAIN first = DOMAIN marked \ {h} /\ h \in DOMAIN marked /\ h # into
            /\ first[into].pNext = marked[h].pNext /\ first[into].pPrev = marked[into].pPrev
            /\ FreeBlocks(first) = FreeBlocks(marked) \ {h}
            /\ \A a \in DOMAIN first \ {into} : /\ first[a].PayloadSize = marked[a].PayloadSize
                                                /\ first[a].pNext = marked[a].pNext
        <4>1. Swallowed(marked, into, h, first)
          BY <1>3, <3>1, <3>2, SwallowKeeps
        <4> QED BY <4>1 DEF Swallowed
      <3>4. into \in FreeBlocks(hdr)
        BY <1>6, <2>2
      <3> QED BY <1>3, <2>2, <3>3, <3>4
    <2> QED BY <2>1, <2>2
  <1>11. \A a \in FreeBlocks(first) : first[a].pNext # into
    <2> SUFFICES ASSUME NEW a \in FreeBlocks(first), first[a].pNext = into PROVE FALSE
      OBVIOUS
    <2>0. a \in DOMAIN first
      BY DEF FreeBlocks
    <2>1. into # NULL /\ a # into
      BY <1>0, <1>9, <1>10, <2>0, BlocksInHeap
    <2>2. a \in FreeBlocks(hdr) /\ hdr[a].pNext = into /\ hdr[into].pPrev = a
      BY <1>0, <1>10, <2>0, <2>1
    <2>3. CASE into = h
      BY <1>0, <1>6, <2>2, <2>3
    <2>4. CASE into # h
      BY <1>6, <2>1, <2>2, <2>4 DEF NoAdjacent
    <2> QED BY <2>3, <2>4
  <1>12. CASE next \in FreeBlocks(hdr)
    <2>1. next \in DOMAIN hdr /\ next > h /\ next \in Nat /\ next # NULL /\ next # into
      BY <1>0, <1>9, <1>12
    <2>2. /\ WellFormed(ns) /\ DOMAIN ns = DOMAIN first \ {next} /\ next \in DOMAIN first /\ next # into
          /\ ns[into].pNext = first[next].pNext /\ ns[into].pPrev = first[into].pPrev
          /\ FreeBlocks(ns) = FreeBlocks(first) \ {next}
          /\ \A a \in DOMAIN ns \ {into} : /\ ns[a].PayloadSize = first[a].PayloadSize
                                           /\ ns[a].pNext = first[a].pNext
      <3>1. ns = Swallow(first, into, next)
        BY <1>7, <1>12
      <3>2. into \in DOMAIN first
        BY <1>10 DEF FreeBlocks
      <3>3. Swallowed(first, into, next, ns)
        BY <1>10, <2>1, <3>1, <3>2, SwallowKeeps
      <3> QED BY <3>3 DEF Swallowed
    <2>3. NoAdjacent(ns)
      <3> SUFFICES ASSUME NEW a \in FreeBlocks(ns), ns[a].pNext # NULL
                   PROVE  ns[a].pNext \notin FreeBlocks(ns)
        BY DEF NoAdjacent
      <3>1. a \in DOMAIN ns
        BY DEF FreeBlocks
      <3>2. CASE a = into
        <4>1. ns[a].pNext = hdr[next].pNext /\ hdr[next].pNext > next
          BY <1>0, <1>10, <2>1, <2>2, <3>2
        <4>2. hdr[next].pNext \notin FreeBlocks(hdr)
          BY <1>12, <4>1 DEF NoAdjacent
        <4>3. hdr[next].pNext # into
          BY <1>0, <1>9, <2>1, <3>2, <4>1
        <4> QED BY <1>10, <2>2, <4>1, <4>2, <4>3
      <3>3. CASE a # into
        <4>1. a \in FreeBlocks(hdr) /\ ns[a].pNext = hdr[a].pNext /\ hdr[a].pNext # into
          BY <1>10, <1>11, <2>2, <3>1, <3>3
        <4>2. hdr[a].pNext \notin FreeBlocks(hdr)
          BY <4>1 DEF NoAdjacent
        <4> QED BY <1>10, <2>2, <4>1, <4>2
      <3> QED BY <3>2, <3>3
    <2>4. DOMAIN ns \ FreeBlocks(ns) = DOMAIN hdr \ (FreeBlocks(hdr) \cup {h})
      BY <1>6, <1>10, <1>12, <2>2
    <2>5. \A a \in DOMAIN ns \ FreeBlocks(ns) : BlockEnd(ns, a) = BlockEnd(hdr, a)
      <3>1. \A a \in DOMAIN ns \ FreeBlocks(ns) : a \in DOMAIN ns \ {into} /\ a \in DOMAIN first \ {into}
        BY <1>10, <2>1, <2>2
      <3> QED BY <1>10, <2>2, <3>1 DEF BlockEnd
    <2> QED BY <2>2, <2>3, <2>4, <2>5 DEF AfterMerge, UsedBlocks
  <1>13. CASE next \notin FreeBlocks(hdr)
    <2>1. ns = first
      BY <1>7, <1>13
    <2>2. NoAdjacent(ns)
      <3> SUFFICES ASSUME NEW a \in FreeBlocks(first), first[a].pNext # NULL
                   PROVE  first[a].pNext \notin FreeBlocks(first)
        BY <2>1 DEF NoAdjacent
      <3>1. a \in DOMAIN first /\ first[a].pNext # into
        BY <1>11 DEF FreeBlocks
      <3>2. CASE a = into
        BY <1>10, <1>13, <3>1, <3>2
      <3>3. CASE a # into
        <4>1. a \in FreeBlocks(hdr) /\ first[a].pNext = hdr[a].pNext
          BY <1>10, <3>1, <3>3
        <4> QED BY <1>10, <3>1, <4>1 DEF NoAdjacent
      <3> QED BY <3>2, <3>3
    <2>3. DOMAIN ns \ FreeBlocks(ns) = DOMAIN hdr \ (FreeBlocks(hdr) \cup {h})
      BY <1>6, <1>10, <2>1
    <2>4. \A a \in DOMAIN ns \ FreeBlocks(ns) : BlockEnd(ns, a) = BlockEnd(hdr, a)
      BY <1>10, <2>1 DEF BlockEnd
    <2> QED BY <1>10, <2>1, <2>2, <2>3, <2>4 DEF AfterMerge, UsedBlocks
  <1> QED BY <1>12, <1>13
-----------------------------------------------------------------------------
(* The calls *)

LEMMA InitIInv ==
  HeapInit => IInv
  <1> SUFFICES ASSUME HeapInit PROVE IInv
    OBVIOUS
  <1> DEFINE root == Header(NULL, NULL, HeapSize - HeaderSize, TRUE)
  <1>1. /\ DOMAIN hdr = {RootHeader} /\ hdr[RootHeader] = root
        /\ Live = {} /\ DOMAIN offset = {} /\ fault = FALSE
    BY DEF HeapInit, Live
  <1>2. /\ root.pNext = NULL /\ root.pPrev = NULL /\ root.PayloadSize = HeapSize - HeaderSize
        /\ root.bFree /\ root \in Headers
    BY Constants DEF Header, Headers, Links
  <1> HIDE DEF root
  <1>3. BlockEnd(hdr, RootHeader) = HeapSize
    BY <1>1, <1>2, Constants DEF BlockEnd, RootHeader
  <1>4. ListTyped(hdr) /\ ListTiles(hdr) /\ ListLinked(hdr)
    BY <1>1, <1>2, <1>3, Constants DEF ListTyped, ListTiles, ListLinked, Addresses, RootHeader
  <1>5. ListApart(hdr)
    BY <1>1 DEF ListApart, RootHeader
  <1>6. NoAdjacent(hdr)
    BY <1>1, <1>2 DEF NoAdjacent, FreeBlocks
  <1>7. FreeBlocks(hdr) = {RootHeader}
    BY <1>1, <1>2 DEF FreeBlocks
  <1>8. PayloadsTyped /\ PayloadsOwnBlocks /\ UsedBlocksAreOwned
    BY <1>1, <1>7 DEF PayloadsTyped, PayloadsOwnBlocks, UsedBlocksAreOwned, UsedBlocks
  <1> QED BY <1>1, <1>4, <1>5, <1>6, <1>8 DEF IInv, WellFormed

(* The block found is free, and what was asked for fits into it behind the *)
(* offset word: the unsigned difference never wraps.                       *)
LEMMA FirstFit ==
  ASSUME WellFormed(hdr), NEW n \in Sizes, NEW a \in Alignments, ~Rejected(n, a),
         NEW need, need = RoundedSize(n, a),
         NEW h, h = HeapLocateAlignedFreeOfSizeFrom(need, a), h # NULL,
         NEW p, p = AlignedPayload(h, a)
  PROVE  /\ h \in FreeBlocks(hdr) /\ h \in DOMAIN hdr /\ h \in Nat /\ p \in Nat
         /\ p >= h + HeaderSize + OffsetSize /\ p + need <= BlockEnd(hdr, h)
         /\ need \in Nat /\ n \in Nat /\ n > 0 /\ n <= need /\ MinPayload <= need
  <1> DEFINE fit == {g \in DOMAIN hdr : Fits(g, need, a)}
  <1>1. n # 0 /\ a # 0 /\ IsPowerOfTwo(a)
    BY DEF Rejected
  <1>2. need \in Nat /\ n \in Nat /\ n <= need /\ MinPayload <= need
    BY <1>1, RoundedUp
  <1>3. h = IF fit = {} THEN NULL ELSE CHOOSE g \in fit : \A k \in fit : g <= k
    BY DEF HeapLocateAlignedFreeOfSizeFrom
  <1>4. fit \in SUBSET Nat
    BY DEF WellFormed, ListTyped, Addresses
  <1>5. h \in fit
    <2>1. fit # {} /\ h = CHOOSE g \in fit : \A k \in fit : g <= k
      BY <1>3
    <2> HIDE DEF fit
    <2>2. \E g \in fit : \A k \in fit : g <= k
      BY <1>4, <2>1, LeastAddress
    <2> QED BY <2>1, <2>2
  <1>6. h \in DOMAIN hdr /\ h \in FreeBlocks(hdr) /\ Fits(h, need, a)
    BY <1>5 DEF Fits, FreeBlocks
  <1>7. /\ h \in Nat /\ hdr[h].PayloadSize \in Nat /\ hdr[h].PayloadSize >= MinPayload
        /\ BlockEnd(hdr, h) = h + HeaderSize + hdr[h].PayloadSize
    BY <1>6, BlocksInHeap
  <1>8. /\ p \in Nat /\ p >= HeapHeaderPayloadAddress(h) + OffsetSize
        /\ p - HeapHeaderPayloadAddress(h) <= MinPayload
    BY <1>1, <1>7, AlignedRoom
  <1>9. HeapHeaderPayloadAddress(h) = h + HeaderSize
    BY DEF HeapHeaderPayloadAddress
  <1>10. \/ hdr[h].PayloadSize < p - (h + HeaderSize)
         \/ hdr[h].PayloadSize - (p - (h + HeaderSize)) >= need
    BY <1>6, <1>9 DEF Fits
  <1>11. p + need <= BlockEnd(hdr, h)
    BY <1>2, <1>7, <1>8, <1>9, <1>10, Constants
  <1> QED BY <1>1, <1>2, <1>6, <1>7, <1>8, <1>9, <1>11, Constants

(* A new payload in a block that was free meets no other payload. *)
LEMMA PayloadIsApart ==
  ASSUME IInv, NEW h \in FreeBlocks(hdr), NEW p \in Nat, NEW m \in Nat,
         p >= h + HeaderSize + OffsetSize, p + m <= BlockEnd(hdr, h),
         NEW q \in Live
  PROVE  /\ q # p /\ (q + size[q] <= p \/ p + m < q)
         /\ q \in Nat /\ size[q] \in Nat
  <1> DEFINE g == HeaderOf(q)
  <1>1. /\ h \in DOMAIN hdr /\ g \in DOMAIN hdr /\ g # h
        /\ q - OffsetSize >= g + HeaderSize /\ q + size[q] <= BlockEnd(hdr, g)
    BY DEF IInv, PayloadsOwnBlocks, UsedBlocks, FreeBlocks, HeapHeaderPayloadAddress
  <1>2. h \in Nat /\ g \in Nat /\ BlockEnd(hdr, h) \in Nat /\ BlockEnd(hdr, g) \in Nat
    BY <1>1, BlocksInHeap DEF IInv
  <1>3. q \in Nat /\ size[q] \in Nat
    <2>1. Sizes \subseteq Nat
      BY HeapAssumption
    <2>2. q \in Addresses /\ size[q] \in Sizes
      BY DEF IInv, PayloadsTyped
    <2>3. q \in Nat
      BY <2>2, Constants DEF Addresses
    <2>4. size[q] \in Nat
      BY <2>1, <2>2
    <2> QED BY <2>3, <2>4
  <1> HIDE DEF g
  <1>4. CASE g < h
    <2>1. BlockEnd(hdr, g) <= h
      BY <1>1, <1>4 DEF IInv, WellFormed, ListApart
    <2> QED BY <1>1, <1>2, <1>3, <2>1, Constants
  <1>5. CASE h < g
    <2>1. BlockEnd(hdr, h) <= g
      BY <1>1, <1>5 DEF IInv, WellFormed, ListApart
    <2> QED BY <1>1, <1>2, <1>3, <2>1, Constants
  <1> QED BY <1>1, <1>2, <1>4, <1>5

(* HeapAlignedAcquire, with its local variables named. *)
AcquiresAt(n, h, p, cut) ==
  /\ h \in FreeBlocks(hdr) /\ h \in DOMAIN hdr /\ h \in Nat /\ p \in Nat /\ cut \in Nat
  /\ p >= h + HeaderSize + OffsetSize /\ cut <= BlockEnd(hdr, h)
  /\ n \in Nat /\ n > 0 /\ p + n <= cut /\ cut >= h + HeaderSize + MinPayload
  /\ p - h <= MaxOffset
  /\ offset' = [q \in DOMAIN offset \cup {p} |-> IF q = p THEN p - h ELSE offset[q]]
  /\ hdr' = SetUsed(HeapTrySplitAt(hdr, h, cut), h)
  /\ size' = [q \in Live \cup {p} |-> IF q = p THEN n ELSE size[q]]
  /\ UNCHANGED fault

LEMMA Acquiring ==
  ASSUME IInv, NEW n \in Sizes, NEW a \in Alignments, HeapAlignedAcquire(n, a)
  PROVE  \E h, p, cut : AcquiresAt(n, h, p, cut)
  <1> DEFINE need == RoundedSize(n, a)
             h    == HeapLocateAlignedFreeOfSizeFrom(need, a)
             p    == AlignedPayload(h, a)
  <1>1. h # NULL /\ ~Rejected(n, a) /\ WellFormed(hdr) /\ ~ (p - h > MaxOffset)
    BY DEF HeapAlignedAcquire, IInv, Far
  <1>2. /\ offset' = [q \in DOMAIN offset \cup {p} |-> IF q = p THEN p - h ELSE offset[q]]
        /\ hdr' = SetUsed(HeapTrySplitAt(hdr, h, p + need), h)
        /\ size' = [q \in Live \cup {p} |-> IF q = p THEN n ELSE size[q]]
        /\ UNCHANGED fault
    BY DEF HeapAlignedAcquire, SetUsed
  <1>3. need = RoundedSize(n, a) /\ h = HeapLocateAlignedFreeOfSizeFrom(need, a) /\ p = AlignedPayload(h, a)
    OBVIOUS
  <1> HIDE DEF need, h, p
  <1>4. /\ h \in FreeBlocks(hdr) /\ h \in DOMAIN hdr /\ h \in Nat /\ p \in Nat
        /\ p >= h + HeaderSize + OffsetSize /\ p + need <= BlockEnd(hdr, h)
        /\ need \in Nat /\ n \in Nat /\ n > 0 /\ n <= need /\ MinPayload <= need
    BY <1>1, <1>3, FirstFit
  <1>5. /\ p + need \in Nat /\ p + n <= p + need /\ p + need >= h + HeaderSize + MinPayload
        /\ p - h <= MaxOffset
    BY <1>1, <1>4, Constants
  <1>6. AcquiresAt(n, h, p, p + need)
    BY <1>2, <1>4, <1>5 DEF AcquiresAt
  <1> QED BY <1>6

LEMMA AcquireKeeps ==
  ASSUME IInv, NEW n \in Sizes, NEW h, NEW p, NEW cut, AcquiresAt(n, h, p, cut)
  PROVE  IInv' /\ p \in Addresses /\ p \notin Live /\ p + n <= HeapSize
  <1>1. /\ h \in FreeBlocks(hdr) /\ h \in DOMAIN hdr /\ h \in Nat /\ p \in Nat /\ cut \in Nat
        /\ p >= h + HeaderSize + OffsetSize /\ cut <= BlockEnd(hdr, h)
        /\ n \in Nat /\ n > 0 /\ p + n <= cut /\ cut >= h + HeaderSize + MinPayload
        /\ p - h <= MaxOffset
    BY DEF AcquiresAt
  <1>2. PICK ns : ns = SetUsed(HeapTrySplitAt(hdr, h, cut), h)
    OBVIOUS
  <1>3. hdr' = ns
    BY <1>2 DEF AcquiresAt
  <1>4. /\ WellFormed(ns) /\ NoAdjacent(ns) /\ DOMAIN hdr \subseteq DOMAIN ns
        /\ cut <= BlockEnd(ns, h)
        /\ FreeBlocks(hdr) \ {h} \subseteq FreeBlocks(ns) /\ h \notin FreeBlocks(ns)
        /\ FreeBlocks(ns) \cap DOMAIN hdr \subseteq FreeBlocks(hdr)
        /\ DOMAIN ns \ FreeBlocks(ns) \subseteq DOMAIN hdr
        /\ \A b \in DOMAIN hdr \ {h} : BlockEnd(ns, b) = BlockEnd(hdr, b)
    <2>1. SplitAndUsed(hdr, h, cut, ns)
      BY <1>1, <1>2, SplitAndUse DEF IInv
    <2> QED BY <2>1 DEF SplitAndUsed
  <1>5. UsedBlocks(ns) = UsedBlocks(hdr) \cup {h}
    BY <1>1, <1>4 DEF UsedBlocks
  <1>6. BlockEnd(hdr, h) \in Nat /\ BlockEnd(hdr, h) <= HeapSize
    BY <1>1, BlocksInHeap DEF IInv
  <1>7. p \in Addresses /\ p + n <= HeapSize
    BY <1>1, <1>6, Constants DEF Addresses
  <1>8. p \notin Live
    <2>1. p + n <= BlockEnd(hdr, h)
      BY <1>1, <1>6
    <2> QED BY <1>1, <2>1, PayloadIsApart
  <1>9. /\ Live' = Live \cup {p} /\ size'[p] = n /\ \A q \in Live : size'[q] = size[q]
        /\ DOMAIN offset' = DOMAIN offset \cup {p} /\ offset'[p] = p - h
        /\ \A q \in Live : offset'[q] = offset[q]
    BY <1>8 DEF AcquiresAt, Live, IInv, PayloadsTyped
  <1>10. HeaderOf(p)' = h /\ \A q \in Live : HeaderOf(q)' = HeaderOf(q)
    BY <1>1, <1>9 DEF HeaderOf
  <1>11. PayloadsTyped'
    <2>1. p - h \in 0 .. MaxOffset
      BY <1>1, Constants
    <2> QED BY <1>7, <1>9, <2>1 DEF PayloadsTyped, IInv
  <1>12. \A q \in Live : HeaderOf(q) \in UsedBlocks(hdr) /\ HeaderOf(q) \in DOMAIN hdr \ {h}
    BY <1>1 DEF IInv, PayloadsOwnBlocks, UsedBlocks
  <1>13. PayloadsOwnBlocks'
    <2>1. ASSUME NEW q \in Live'
          PROVE  /\ HeaderOf(q)' \in UsedBlocks(ns)
                 /\ q - OffsetSize >= HeapHeaderPayloadAddress(HeaderOf(q)')
                 /\ q + size'[q] <= BlockEnd(ns, HeaderOf(q)')
      <3>1. CASE q = p
        <4>1. BlockEnd(ns, h) \in Nat
          BY <1>1, <1>4, BlocksInHeap
        <4>2. p + n <= BlockEnd(ns, h) /\ p - OffsetSize >= h + HeaderSize
          BY <1>1, <1>4, <4>1, Constants
        <4> QED BY <1>5, <1>9, <1>10, <3>1, <4>2 DEF HeapHeaderPayloadAddress
      <3>2. CASE q # p
        <4>1. q \in Live /\ size'[q] = size[q] /\ HeaderOf(q)' = HeaderOf(q)
          BY <1>9, <1>10, <3>2
        <4>2. /\ HeaderOf(q) \in UsedBlocks(hdr)
              /\ q - OffsetSize >= HeapHeaderPayloadAddress(HeaderOf(q))
              /\ q + size[q] <= BlockEnd(hdr, HeaderOf(q))
          BY <4>1 DEF IInv, PayloadsOwnBlocks
        <4>3. BlockEnd(ns, HeaderOf(q)) = BlockEnd(hdr, HeaderOf(q))
          BY <1>4, <1>12, <4>1
        <4> QED BY <1>5, <4>1, <4>2, <4>3
      <3> QED BY <3>1, <3>2
    <2>2. ASSUME NEW q \in Live', NEW r \in Live', HeaderOf(q)' = HeaderOf(r)' PROVE q = r
      <3>1. CASE q \in Live /\ r \in Live
        BY <1>10, <2>2, <3>1 DEF IInv, PayloadsOwnBlocks
      <3>2. CASE ~ (q \in Live /\ r \in Live)
        BY <1>9, <1>10, <1>12, <2>2, <3>2
      <3> QED BY <3>1, <3>2
    <2> QED BY <1>3, <2>1, <2>2 DEF PayloadsOwnBlocks
  <1>14. UsedBlocksAreOwned'
    <2>1. ASSUME NEW b \in UsedBlocks(ns) PROVE \E q \in Live' : HeaderOf(q)' = b
      <3>1. CASE b = h
        BY <1>9, <1>10, <3>1
      <3>2. CASE b # h
        <4>1. PICK q \in Live : HeaderOf(q) = b
          BY <1>5, <3>2 DEF IInv, UsedBlocksAreOwned
        <4> QED BY <1>9, <1>10, <4>1
      <3> QED BY <3>1, <3>2
    <2> QED BY <1>3, <2>1 DEF UsedBlocksAreOwned
  <1>15. (fault \in BOOLEAN)'
    BY DEF AcquiresAt, IInv
  <1>16. WellFormed(hdr)' /\ NoAdjacent(hdr)'
    <2>1. WellFormed(hdr)' = WellFormed(ns) /\ NoAdjacent(hdr)' = NoAdjacent(ns)
      BY <1>3
    <2> QED BY <1>4, <2>1
  <1>17. IInv'
    BY <1>11, <1>13, <1>14, <1>15, <1>16 DEF IInv
  <1> QED BY <1>7, <1>8, <1>17

LEMMA RelinquishKeeps ==
  ASSUME IInv, NEW p \in Live, HeapRelinquish(p)
  PROVE  IInv' /\ ~AlreadyFree(HeaderOf(p))
  <1> DEFINE h == HeaderOf(p)
  <1>1. h \in UsedBlocks(hdr) /\ h \in DOMAIN hdr /\ h \notin FreeBlocks(hdr)
    BY DEF IInv, PayloadsOwnBlocks, UsedBlocks
  <1>2. ~AlreadyFree(h)
    BY <1>1 DEF AlreadyFree, FreeBlocks
  <1>3. hdr' = Merged(h) /\ fault' = NextMissing(h)
    BY <1>2 DEF HeapRelinquish
  <1>4. /\ size' = [q \in Live \ {p} |-> size[q]]
        /\ offset' = [q \in Live \ {p} |-> offset[q]]
    BY DEF HeapRelinquish
  <1>5. PICK ns : ns = Merged(h)
    OBVIOUS
  <1>6. AfterMerge(h, ns)
    BY <1>1, <1>5, MergedKeeps DEF IInv
  <1>7. /\ WellFormed(ns) /\ NoAdjacent(ns) /\ UsedBlocks(ns) = UsedBlocks(hdr) \ {h}
        /\ \A b \in UsedBlocks(ns) : BlockEnd(ns, b) = BlockEnd(hdr, b)
    BY <1>6 DEF AfterMerge
  <1>8. hdr' = ns
    BY <1>3, <1>5
  <1>9. /\ Live' = Live \ {p} /\ DOMAIN offset' = Live \ {p}
        /\ \A q \in Live \ {p} : size'[q] = size[q] /\ offset'[q] = offset[q]
    BY <1>4 DEF Live
  <1>10. \A q \in Live' : HeaderOf(q)' = HeaderOf(q) /\ q \in Live /\ q # p /\ size'[q] = size[q]
    BY <1>9 DEF HeaderOf
  <1>11. PayloadsTyped'
    BY <1>9 DEF IInv, PayloadsTyped
  <1>12. PayloadsOwnBlocks'
    <2>1. ASSUME NEW q \in Live'
          PROVE  /\ HeaderOf(q)' \in UsedBlocks(ns)
                 /\ q - OffsetSize >= HeapHeaderPayloadAddress(HeaderOf(q)')
                 /\ q + size'[q] <= BlockEnd(ns, HeaderOf(q)')
      <3>1. /\ HeaderOf(q) \in UsedBlocks(hdr)
            /\ q - OffsetSize >= HeapHeaderPayloadAddress(HeaderOf(q))
            /\ q + size[q] <= BlockEnd(hdr, HeaderOf(q))
        BY <1>10 DEF IInv, PayloadsOwnBlocks
      <3>2. HeaderOf(q) # h
        BY <1>10 DEF IInv, PayloadsOwnBlocks
      <3>3. HeaderOf(q) \in UsedBlocks(ns)
        BY <1>7, <3>1, <3>2
      <3>4. BlockEnd(ns, HeaderOf(q)) = BlockEnd(hdr, HeaderOf(q))
        BY <1>7, <3>3
      <3> QED BY <1>10, <3>1, <3>3, <3>4
    <2>2. ASSUME NEW q \in Live', NEW r \in Live', HeaderOf(q)' = HeaderOf(r)' PROVE q = r
      BY <1>10, <2>2 DEF IInv, PayloadsOwnBlocks
    <2> QED BY <1>8, <2>1, <2>2 DEF PayloadsOwnBlocks
  <1>13. UsedBlocksAreOwned'
    <2>1. ASSUME NEW b \in UsedBlocks(ns) PROVE \E q \in Live' : HeaderOf(q)' = b
      <3>1. PICK q \in Live : HeaderOf(q) = b
        BY <1>7 DEF IInv, UsedBlocksAreOwned
      <3>2. q # p
        BY <1>7, <3>1
      <3> QED BY <1>9, <1>10, <3>1, <3>2
    <2> QED BY <1>8, <2>1 DEF UsedBlocksAreOwned
  <1>14. (fault \in BOOLEAN)'
    BY <1>3 DEF NextMissing
  <1>15. WellFormed(hdr)' /\ NoAdjacent(hdr)'
    <2>1. WellFormed(hdr)' = WellFormed(ns) /\ NoAdjacent(hdr)' = NoAdjacent(ns)
      BY <1>8
    <2> QED BY <1>7, <2>1
  <1>16. IInv'
    BY <1>11, <1>12, <1>13, <1>14, <1>15 DEF IInv
  <1> QED BY <1>2, <1>16

LEMMA UnchangedKeeps ==
  ASSUME IInv, UNCHANGED <<hdr, offset, size, fault>>
  PROVE  IInv'
  <1>1. WellFormed(hdr)' = WellFormed(hdr) /\ NoAdjacent(hdr)' = NoAdjacent(hdr)
    OBVIOUS
  <1>2. PayloadsTyped'
    BY DEF IInv, PayloadsTyped, Live
  <1>3. Live' = Live /\ \A p \in Live : HeaderOf(p)' = HeaderOf(p)
    BY DEF Live, HeaderOf
  <1>4. PayloadsOwnBlocks'
    BY <1>3 DEF IInv, PayloadsOwnBlocks
  <1>5. UsedBlocksAreOwned'
    BY <1>3 DEF IInv, UsedBlocksAreOwned
  <1>6. (fault \in BOOLEAN)'
    BY DEF IInv
  <1> QED BY <1>1, <1>2, <1>4, <1>5, <1>6 DEF IInv

(* The kinds of step of the heap. *)
LEMMA StepKinds ==
  ASSUME IInv, [Next]_vars
  PROVE  \/ \E n \in Sizes : \E h, p, cut : AcquiresAt(n, h, p, cut)
         \/ \E p \in Live : HeapRelinquish(p)
         \/ UNCHANGED <<hdr, offset, size, fault>>
  <1>1. ASSUME NEW n \in Sizes, NEW a \in Alignments, HeapAlignedAcquire(n, a)
        PROVE  \E m \in Sizes : \E h, p, cut : AcquiresAt(m, h, p, cut)
    BY <1>1, Acquiring
  <1>2. ASSUME NEW n \in Sizes, NEW a \in Alignments, HeapAcquireFails(n, a)
        PROVE  UNCHANGED <<hdr, offset, size, fault>>
    BY <1>2 DEF HeapAcquireFails
  <1>3. HeapTurnedAway => UNCHANGED <<hdr, offset, size, fault>>
    BY DEF HeapTurnedAway
  <1>4. UNCHANGED vars => UNCHANGED <<hdr, offset, size, fault>>
    BY DEF vars
  <1> QED BY <1>1, <1>2, <1>3, <1>4 DEF Next

LEMMA NextIInv ==
  IInv /\ [Next]_vars => IInv'
  <1> SUFFICES ASSUME IInv, [Next]_vars PROVE IInv'
    OBVIOUS
  <1>1. ASSUME NEW n \in Sizes, NEW h, NEW p, NEW cut, AcquiresAt(n, h, p, cut) PROVE IInv'
    BY <1>1, AcquireKeeps
  <1>2. ASSUME NEW p \in Live, HeapRelinquish(p) PROVE IInv'
    BY <1>2, RelinquishKeeps
  <1> QED BY <1>1, <1>2, StepKinds, UnchangedKeeps

LEMMA AlwaysIInv ==
  Spec => []IInv
  BY InitIInv, NextIInv, PTL DEF Spec

(* When nothing is handed out every block is free; a second one would lie  *)
(* next to the first.                                                      *)
LEMMA WholeAgain ==
  ASSUME IInv, Live = {}
  PROVE  Cardinality(DOMAIN hdr) = 1
  <1>1. FreeBlocks(hdr) = DOMAIN hdr
    BY DEF IInv, UsedBlocksAreOwned, UsedBlocks, FreeBlocks
  <1>2. RootHeader \in DOMAIN hdr /\ WellFormed(hdr)
    BY DEF IInv, WellFormed, ListTyped
  <1>3. hdr[RootHeader].pNext = NULL
    BY <1>1, <1>2 DEF IInv, NoAdjacent, WellFormed, ListTiles
  <1>4. BlockEnd(hdr, RootHeader) = HeapSize
    BY <1>2, <1>3 DEF WellFormed, ListTiles
  <1>5. ASSUME NEW h \in DOMAIN hdr PROVE h = RootHeader
    <2>1. h \in Nat /\ h < HeapSize
      BY <1>2, Constants DEF WellFormed, ListTyped, Addresses
    <2>2. 0 < h => HeapSize <= h
      BY <1>2, <1>4 DEF WellFormed, ListApart, RootHeader
    <2> QED BY <2>1, <2>2, Constants DEF RootHeader
  <1>6. DOMAIN hdr = {RootHeader}
    BY <1>2, <1>5
  <1> QED BY <1>6, FS_Singleton

LEMMA IInvWellFormed ==
  IInv => HeapIsWellFormed
  <1> SUFFICES ASSUME IInv PROVE HeapIsWellFormed
    OBVIOUS
  <1>1. TypeOK
    BY DEF IInv, WellFormed, ListTyped, Headers, PayloadsTyped, TypeOK
  <1>2. BlocksTileHeap
    BY DEF IInv, WellFormed, ListTiles, BlocksTileHeap
  <1>3. ListIsDoublyLinked
    BY DEF IInv, WellFormed, ListLinked, ListIsDoublyLinked
  <1>4. NoAdjacentFreeBlocks
    BY DEF IInv, NoAdjacent, FreeBlocks, NoAdjacentFreeBlocks, WellFormed, ListTiles
  <1>5. NoFragmentsLeft
    BY WholeAgain DEF NoFragmentsLeft
  <1>6. PayloadsInOwnBlocks
    BY DEF IInv, PayloadsOwnBlocks, UsedBlocks, FreeBlocks, PayloadsInOwnBlocks
  <1> QED BY <1>1, <1>2, <1>3, <1>4, <1>5, <1>6 DEF HeapIsWellFormed

(* The heap stays well formed through every sequence of acquisitions and   *)
(* relinquishments: the headers tile it, the list is linked the same way   *)
(* in both directions, free neighbours are merged (so that a heap nobody   *)
(* uses is one block again) and every payload has a used block of its own. *)
THEOREM HeapWellFormed ==
  Spec => []HeapIsWellFormed
  BY AlwaysIInv, IInvWellFormed, PTL

(* HeapRelinquish never takes a payload that is handed out for one given   *)
(* back before: when a call fails it has run into the missing next header. *)
THEOREM OwnersRelinquish ==
  Spec => OwnersCanRelinquish
  <1>1. IInv /\ [Next]_vars => [ret' = [call |-> "relinquish", ok |-> FALSE] => fault']_vars
    <2> SUFFICES ASSUME IInv, Next, ret' = [call |-> "relinquish", ok |-> FALSE] PROVE fault'
      OBVIOUS
    <2>1. PICK p \in Live : HeapRelinquish(p)
      BY DEF Next, HeapAlignedAcquire, HeapAcquireFails, HeapTurnedAway
    <2>2. ~AlreadyFree(HeaderOf(p))
      BY <2>1, RelinquishKeeps
    <2> DEFINE ok == ~AlreadyFree(HeaderOf(p)) /\ ~fault'
    <2>3. ret' = [call |-> "relinquish", ok |-> ok]
      BY <2>1 DEF HeapRelinquish
    <2> HIDE DEF ok
    <2>4. ok = FALSE
      BY <2>3
    <2> QED BY <2>2, <2>4 DEF ok
  <1> QED BY <1>1, AlwaysIInv, PTL DEF Spec, OwnersCanRelinquish

(* The heap implements its promise: every extent handed out lies inside    *)
(* the heap and apart from all the others, until it is given back.         *)
THEOREM HeapImplementsExtents ==
  Spec => ImplementsExtents
  <1> DEFINE live == {Extent(p) : p \in Live}
  <1>1. HeapInit => Abstract!Init
    BY DEF HeapInit, Abstract!Init, Live
  <1>2. IInv /\ [Next]_vars => [Abstract!Next]_live
    <2> SUFFICES ASSUME IInv, [Next]_vars PROVE Abstract!Next \/ UNCHANGED live
      OBVIOUS
    <2>1. ASSUME NEW n \in Sizes, NEW h, NEW p, NEW cut, AcquiresAt(n, h, p, cut) PROVE Abstract!Acquire
      <3>1. p \in Addresses /\ p \notin Live /\ p + n <= HeapSize
        BY <2>1, AcquireKeeps
      <3>2. /\ Live' = Live \cup {p} /\ size'[p] = n /\ \A q \in Live : size'[q] = size[q]
        BY <2>1, <3>1 DEF AcquiresAt, Live
      <3>3. Extent(p)' = [at |-> p, size |-> n] /\ \A q \in Live : Extent(q)' = Extent(q)
        BY <3>2 DEF Extent
      <3> DEFINE e == [at |-> p, size |-> n]
      <3>4. live' = live \cup {e}
        BY <3>2, <3>3
      <3>5. e \in Abstract!Extents /\ e.at + e.size <= HeapSize
        BY <3>1, Constants DEF Abstract!Extents, Addresses
      <3>6. ASSUME NEW q \in Live PROVE ~Abstract!Overlap(e, Extent(q))
        <4>1. /\ h \in FreeBlocks(hdr) /\ p \in Nat /\ n \in Nat
              /\ p >= h + HeaderSize + OffsetSize /\ p + n <= BlockEnd(hdr, h)
          <5>1. /\ h \in FreeBlocks(hdr) /\ h \in DOMAIN hdr /\ p \in Nat /\ n \in Nat /\ cut \in Nat
                /\ p >= h + HeaderSize + OffsetSize /\ cut <= BlockEnd(hdr, h) /\ p + n <= cut
            BY <2>1 DEF AcquiresAt
          <5>2. BlockEnd(hdr, h) \in Nat
            BY <5>1, BlocksInHeap DEF IInv
          <5> QED BY <5>1, <5>2
        <4>2. (q + size[q] <= p \/ p + n < q) /\ q \in Nat /\ size[q] \in Nat
          BY <4>1, PayloadIsApart
        <4> QED BY <4>1, <4>2 DEF Abstract!Overlap, Extent
      <3> QED BY <3>4, <3>5, <3>6 DEF Abstract!Acquire
    <2>2. ASSUME NEW p \in Live, HeapRelinquish(p) PROVE Abstract!Relinquish
      <3>1. Live' = Live \ {p} /\ \A q \in Live \ {p} : size'[q] = size[q]
        BY <2>2 DEF HeapRelinquish, Live
      <3>2. \A q \in Live \ {p} : Extent(q)' = Extent(q)
        BY <3>1 DEF Extent
      <3>3. \A q \in Live \ {p} : Extent(q) # Extent(p)
        BY DEF Extent
      <3>4. live' = live \ {Extent(p)}
        BY <3>1, <3>2, <3>3
      <3> QED BY <3>4 DEF Abstract!Relinquish
    <2>3. ASSUME UNCHANGED <<hdr, offset, size, fault>> PROVE UNCHANGED live
      BY <2>3 DEF Extent, Live
    <2> QED BY <2>1, <2>2, <2>3, StepKinds DEF Abstract!Next
  <1> QED BY <1>1, <1>2, AlwaysIInv, PTL DEF Spec, ImplementsExtents, Abstract!Spec
=============================================================================
