---------------------------- MODULE HeapExtents ----------------------------
(***************************************************************************)
(* What a heap promises: an extent handed out lies inside the heap and      *)
(* apart from every other extent handed out, until it is given back.        *)
(***************************************************************************)
EXTENDS Naturals

CONSTANTS HeapSize, Sizes

VARIABLE live    \* the extents handed out: a set of [at, size]

Extents == [at : 0 .. HeapSize, size : Sizes]

Overlap(e, f) == e.at < f.at + f.size /\ f.at < e.at + e.size

Init == live = {}

Acquire ==
  \E e \in Extents :
     /\ e.at + e.size <= HeapSize
     /\ \A f \in live : ~Overlap(e, f)
     /\ live' = live \cup {e}

Relinquish == \E e \in live : live' = live \ {e}

Next == Acquire \/ Relinquish

Spec == Init /\ [][Next]_live
============================================================================
