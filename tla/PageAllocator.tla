--------------------------- MODULE PageAllocator ---------------------------
(***************************************************************************)
(* What Physmemmgmt promises its callers, with no bitmap, hint, lock or     *)
(* scan: every physical page is at all times free, owned by exactly one     *)
(* CPU, or outside the allocator; a reservation is for ever.                *)
(* Physmemmgmt.tla implements this specification.                           *)
(***************************************************************************)
EXTENDS Naturals

CONSTANTS Cpus,        \* the processors that call the allocator
          FreeAtBoot   \* the pages that can ever be handed out

VARIABLES held,        \* held[c]: pages returned to c and not given back
          reserved     \* pages that were reserved after they were acquired

allocVars == <<held, reserved>>

FreePages == {p \in FreeAtBoot : \A c \in Cpus : p \notin held[c]}

AllocInit == /\ held = [c \in Cpus |-> {}]
             /\ reserved = {}

(* One or several free pages become the property of c. *)
Acquire(c) == \E S \in SUBSET FreePages :
                 /\ S # {}
                 /\ held' = [held EXCEPT ![c] = @ \cup S]
                 /\ UNCHANGED reserved

(* c gives back a page of its own; a reserved page cannot be given back. *)
Relinquish(c) == \E p \in held[c] \ reserved :
                    /\ held' = [held EXCEPT ![c] = @ \ {p}]
                    /\ UNCHANGED reserved

(* c makes a page of its own permanent. *)
Reserve(c) == \E p \in held[c] :
                 /\ reserved' = reserved \cup {p}
                 /\ UNCHANGED held

AllocNext == \E c \in Cpus : Acquire(c) \/ Relinquish(c) \/ Reserve(c)

AllocSpec == AllocInit /\ [][AllocNext]_allocVars
============================================================================
