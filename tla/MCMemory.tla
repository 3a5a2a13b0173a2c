------------------------------ MODULE MCMemory ------------------------------
(***************************************************************************)
(* Virtual memory in use, side by side: the kernel heap, the regions of    *)
(* the kernel address space and the page-fault handler.  They share no     *)
(* variable here, so a behaviour is one of a single part and the others    *)
(* stay where they start.                                                  *)
(***************************************************************************)
EXTENDS Krnlheap, PageFault, Virtmemmgmt

CONSTANTS v1, v2, v3, v4   \* pages of PageFault

(* Low map, heap, device window, binary and frame buffer in that order, a  *)
(* few pages each.                                                         *)
MCLowMap    == [start |-> 1, end |-> 3]
MCHeapRange == [start |-> 8, end |-> 12]
MCDevs      == {[paddr |-> 100, size |-> 1, large |-> FALSE],
                [paddr |-> 200, size |-> 2, large |-> TRUE],
                [paddr |-> 201, size |-> 1, large |-> TRUE]}

(* Two pages of one page table and one of another, and a page of a static  *)
(* region.                                                                 *)
KindOf == [v \in Vpages |-> IF v = v4 THEN "static" ELSE "demand"]
DirOf  == [v \in Vpages |-> IF v \in {v1, v2} THEN 1 ELSE 2]

(* All pages one after the other, with a frame too few; or two pages of    *)
(* one table at a time.                                                    *)
Serial == [pages |-> Vpages, frames |-> 1 .. 4, overlap |-> FALSE]
Overlap == [pages |-> {v1, v2}, frames |-> Frames, overlap |-> TRUE]
BothLoads == {Serial, Overlap}

VARIABLE part

AllVars == <<part, vars, vmmVars, faultVars>>

ASSUME MCMemoryAssumption == PageFaultAssumption

AllInit ==
  /\ part \in {"heap", "regions", "faults"}
  /\ HeapInit /\ SpaceInit /\ FaultInit
  /\ part # "faults" => load = Serial

AllNext ==
  /\ UNCHANGED part
  /\ \/ part = "heap" /\ Next /\ UNCHANGED <<vmmVars, faultVars>>
     \/ part = "regions" /\ SpaceNext /\ UNCHANGED <<vars, faultVars>>
     \/ part = "faults" /\ FaultNext /\ UNCHANGED <<vars, vmmVars>>

(* The fairness of PageFault, for the accesses to one page. *)
AllSpec ==
  /\ AllInit /\ [][AllNext]_AllVars
  /\ \A c \in Cpus : WF_faultVars(part = "faults" /\ Handle(c))
  /\ SF_faultVars(part = "faults" /\ \E c \in Cpus : Access(c, v1))
-----------------------------------------------------------------------------
(* PageFault: an access to a demand-paged page gets through, or the kernel *)
(* melts down.                                                             *)
AccessesGetThrough == part = "faults" /\ v1 \in load.pages ~> written[v1] # None \/ melted
=============================================================================
