----------------------------- MODULE KeyEvents -----------------------------
(***************************************************************************)
(* What the keyboard path promises its reader: every press and release is  *)
(* reported once, in the order performed, with the key's new state and the *)
(* modifiers held at that moment.  `todo' holds the reports not yet read.  *)
(* The lossy variant may drop reports, but never reorders the others.      *)
(***************************************************************************)
EXTENDS Sequences, SequencesExt

CONSTANTS Keys,        \* the keys that can be held
          Pause,       \* the key that reports press and release at once
          Mods(_)      \* the modifiers that a set of held keys means

VARIABLES held, todo

vars == <<held, todo>>

Report(k, down, keys) == [key |-> k, down |-> down, mod |-> Mods(keys)]

Init == held = {} /\ todo = <<>>

Press(k) == /\ held' = held \cup {k}
            /\ todo' = Append(todo, Report(k, TRUE, held'))

Release(k) == /\ k \in held
              /\ held' = held \ {k}
              /\ todo' = Append(todo, Report(k, FALSE, held'))

Strike == /\ todo' = todo \o <<Report(Pause, TRUE, held), Report(Pause, FALSE, held)>>
          /\ UNCHANGED held

Read == /\ todo # <<>>
        /\ todo' = Tail(todo)
        /\ UNCHANGED held

Lose == /\ \E i \in 1..Len(todo) : todo' = RemoveAt(todo, i)
        /\ UNCHANGED held

Next == \/ \E k \in Keys : Press(k) \/ Release(k)
        \/ Strike
        \/ Read

Spec == Init /\ [][Next]_vars

LossySpec == Init /\ [][Next \/ Lose]_vars
=============================================================================
