---------------------------- MODULE MCPageFault ----------------------------
(* Two pages of one page table, accessed by CPUs whose handlers overlap.   *)
EXTENDS PageFault

CONSTANTS v1, v2

DemandRegion == [v \in {v1, v2} |-> "demand"]
OneDir       == [v \in {v1, v2} |-> 1]
OverlapLoads == {[pages |-> {v1, v2}, frames |-> Frames, overlap |-> TRUE]}
============================================================================
