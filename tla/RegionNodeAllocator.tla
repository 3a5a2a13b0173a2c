------------------------- MODULE RegionNodeAllocator -------------------------
(***************************************************************************)
(* The Region Node Allocator                                                *)
(* (Kernel/Source/Memory/PrivateVMM/RegionNodeAllocator.h): pages cut into  *)
(* slots, slot 0 holding the page's meta data.  RnaRelinquishNode has no    *)
(* callers and is not an action.                                            *)
(***************************************************************************)
EXTENDS Integers, FiniteSets, Sequences

CONSTANTS
  NrRnaSlots,   \* RNA_NUMBER_OF_SLOTS
  SignBit,      \* the sign bit of an int, the type of 1 in 1 << FreeSlot
  MaxRnaPages   \* bound: pages that PmAcquirePage can still give

ASSUME RnaAssumption ==
  /\ NrRnaSlots \in Nat \ {0} /\ SignBit \in 3 .. NrRnaSlots - 1
  /\ MaxRnaPages \in Nat \ {0}

SlotIDs == 0 .. NrRnaSlots - 1

VARIABLES
  rna,      \* the pages in list order; page 0 is not one of them
  nodes     \* history: the nodes handed out, as <<page, slot>>

rnaVars == <<rna, nodes>>

RnaPage(this, prev) == [This |-> this, Prev |-> prev, Bitmap |-> {0}, NrSlots |-> 1]

IVLDPGID == -1

RnaInit == rna = << RnaPage(1, IVLDPGID) >> /\ nodes = <<>>

LowestFree(bitmap) == CHOOSE s \in SlotIDs \ bitmap : \A t \in SlotIDs \ bitmap : s <= t

(* Wrong variant: the slot is left free. *)
BitUnset(s) == {}

(* 1 << s is an int: with the sign bit it extends to every bit above. *)
BitOf(s) == IF s = SignBit THEN SignBit .. NrRnaSlots - 1 ELSE {s}

(* A slot of page i of the list is marked, and the node is where the page  *)
(* says that it is.                                                        *)
TakeSlot(pages, i) ==
  LET s == LowestFree(pages[i].Bitmap)
  IN  /\ rna' = [pages EXCEPT ![i].Bitmap = @ \cup BitOf(s), ![i].NrSlots = @ + 1]
      /\ nodes' = Append(nodes, <<pages[i].This, s>>)

HasRoom(i) == rna[i].Bitmap # SlotIDs

(* The first page with a free slot. *)
RnaAcquireFromPage ==
  \E i \in DOMAIN rna :
     /\ HasRoom(i) /\ \A j \in 1 .. i - 1 : ~HasRoom(j)
     /\ TakeSlot(rna, i)

(* Every page is full: one more is linked behind the last.  Its This field *)
(* stays zero.                                                             *)
RnaAcquireFromNewPage ==
  /\ \A i \in DOMAIN rna : ~HasRoom(i)
  /\ Len(rna) < MaxRnaPages
  /\ TakeSlot(Append(rna, RnaPage(0, rna[Len(rna)].This)), Len(rna) + 1)

RnaOutOfMemory == (\A i \in DOMAIN rna : ~HasRoom(i)) /\ UNCHANGED rnaVars

RnaAcquireNode == RnaAcquireFromPage \/ RnaAcquireFromNewPage

RnaSpec == RnaInit /\ [][RnaAcquireNode]_rnaVars
-----------------------------------------------------------------------------
(* Properties *)

(* Two nodes never share a slot, and none is the slot of the meta data. *)
NodesAreDistinct ==
  /\ \A i, j \in DOMAIN nodes : nodes[i] = nodes[j] => i = j
  /\ \A i \in DOMAIN nodes : nodes[i][2] # 0

(* KrRnaMetaSlot.NrSlots "must always equal popcnt(Bitmap)". *)
NrSlotsIsPopcount == \A i \in DOMAIN rna : rna[i].NrSlots = Cardinality(rna[i].Bitmap)
=============================================================================
