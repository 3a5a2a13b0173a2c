--------------------------- MODULE MCPhysmemmgmt ---------------------------
(* Small instances of Physmemmgmt: bitmap bytes of two bits, five pages    *)
(* (so that the last byte has a bit past NrPages), pages 0 and 3 not free. *)
EXTENDS Physmemmgmt

MCFree == {1, 2, 4}

(* What the kernel asks for: single pages with the default hint            *)
(* (PmAcquirePage) and the dense block of KrInitPhysMetaArray.             *)
KernelRequests == {[n |-> 1, flags |-> {"SPARSE"}, hint |-> IVLDPGID],
                   [n |-> 2, flags |-> {"DENSE", "BASE_OUT_ONLY"}, hint |-> IVLDPGID]}

(* Explicit hints too: inside a byte, and a dense block from page 0. *)
HintedRequests == {[n |-> 1, flags |-> {"SPARSE"}, hint |-> 3],
                   [n |-> 2, flags |-> {"DENSE"}, hint |-> 0]}
                  \cup KernelRequests

DefaultRequests == {[n |-> 1, flags |-> {"SPARSE"}, hint |-> IVLDPGID]}

(* A sparse block, which the interface offers and no caller uses yet. *)
SparseRequests == {[n |-> 4, flags |-> {"SPARSE"}, hint |-> IVLDPGID]}
============================================================================
