----------------------------- MODULE RoutineLib -----------------------------
(***************************************************************************)
(* The library that the tools' actions are registered with and called      *)
(* through (Tools/RoutineLib/Source/RoutineLib.c), as Imgtool's main uses  *)
(* it: Help is registered, then a routine, then the command line is        *)
(* executed.                                                               *)
(*                                                                         *)
(* A parameter is [type, Optional, value]; without a default its value is  *)
(* Unset, whatever the memory held.  An argument is a text.  The usage     *)
(* string is left out.                                                     *)
(***************************************************************************)
EXTENDS Naturals, Sequences, SequencesExt, FiniteSets

CONSTANTS
  Shapes,        \* sequences of [type, Optional] a routine may be declared with
  CommandLines,  \* what follows the name of the tool
  Outcomes       \* what a handler may return

Unset == "unset"
Default == "default"

VARIABLES
  shape, argv,   \* the routine to be registered, and the command line
  main,          \* where main is
  routines,      \* g_pRoutines[0 .. g_szRoutines - 1]
  lost,          \* g_pRoutines is NULL, after a realloc that failed
  k,             \* the next parameter to be parsed
  seen,          \* history: the values the handler was called with
  exit           \* the exit status

routineVars == <<shape, argv, main, routines, lost, k, seen, exit>>

RoutineInit ==
  /\ shape \in Shapes /\ argv \in CommandLines
  /\ main = "init" /\ routines = <<>> /\ lost = FALSE /\ k = 1 /\ seen = <<>> /\ exit = "none"
----------------------------------------------------------------------------
(* Registration *)

(* An optional parameter is declared with its default. *)
Declared(s) == [j \in DOMAIN s |-> [type |-> s[j].type, Optional |-> s[j].Optional,
                                    value |-> IF s[j].Optional THEN Default ELSE Unset]]

FirstOptional(ps) == CHOOSE j \in DOMAIN ps : ps[j].Optional /\ \A l \in 1 .. j - 1 : ~ps[l].Optional
HasOptional(ps) == \E j \in DOMAIN ps : ps[j].Optional

(* Wrong variant: the first optional parameter is required too. *)
FinalizeOneMore(ps) ==
  LET min == IF HasOptional(ps) THEN FirstOptional(ps) ELSE 0
  IN  IF ps # <<>> /\ min = 0 THEN Len(ps) ELSE min

(* FinalizeRoutine: MinParameters is the index of the first optional       *)
(* parameter, and 0 stands for "all of them".  A parameter that is not     *)
(* optional behind one that is ends it early, with MinParameters set.      *)
FinalizeRoutine(ps) ==
  LET min == IF HasOptional(ps) THEN FirstOptional(ps) - 1 ELSE 0
  IN  IF ps # <<>> /\ min = 0 /\ \A j \in DOMAIN ps : HasOptional(SubSeq(ps, 1, j)) => ps[j].Optional
      THEN Len(ps) ELSE min

Routine(name, ps) == [Name |-> name, Parameters |-> ps, MinParameters |-> FinalizeRoutine(ps)]

(* RegisterRoutine keeps a routine whose FinalizeRoutine failed.  Without  *)
(* memory the array is gone, its length is not.                            *)
Register(r, next) ==
  /\ main' = next
  /\ \/ routines' = Append(routines, r) /\ UNCHANGED lost
     \/ lost' = TRUE /\ UNCHANGED routines
  /\ UNCHANGED <<shape, argv, k, seen>>

RoutineLibInit ==
  /\ main = "init"
  /\ \/ main' = "register" /\ routines' = <<Routine("Help", <<>>)>> /\ UNCHANGED exit
     \/ main' = "end" /\ exit' = "FAILURE" /\ UNCHANGED routines
  /\ UNCHANGED <<shape, argv, lost, k, seen>>

(* main does not look at the answer. *)
RegisterAction ==
  /\ main = "register" /\ Register(Routine("Action", Declared(shape)), "execute")
  /\ UNCHANGED exit
----------------------------------------------------------------------------
(* RoutineLibExecute *)

Args == Tail(argv)
Called == CHOOSE r \in ToSet(routines) : r.Name = argv[1]

End(status) == main' = "end" /\ exit' = status /\ UNCHANGED <<shape, argv, routines, lost, k, seen>>

Refused(r) == Len(Args) < r.MinParameters \/ Len(Args) > Len(r.Parameters)

Find ==
  /\ main = "execute"
  /\ \/ argv = <<>> /\ End("SUCCESS")
     \/ argv # <<>> /\ lost /\ End("SIGSEGV")
     \/ /\ argv # <<>> /\ ~lost
        /\ \/ (\A r \in ToSet(routines) : r.Name # argv[1]) /\ End("FAILURE")
           \/ /\ \E r \in ToSet(routines) : r.Name = argv[1]
              /\ \/ Refused(Called) /\ End("FAILURE")
                 \/ ~Refused(Called) /\ main' = "parse" /\ UNCHANGED <<shape, argv, routines, lost, k, seen, exit>>

(* strtol reads the digits at the beginning. *)
Strtol(text) == CASE text \in {"7", "7x"} -> "7" [] OTHER -> Unset

Position == CHOOSE n \in DOMAIN routines : routines[n] = Called
Store(v) == routines' = [routines EXCEPT ![Position].Parameters[k].value = v]

(* The next argument; a text that is no boolean is only complained about. *)
ParseArgument ==
  /\ main = "parse" /\ k <= Len(Args)
  /\ LET text == Args[k]
         type == Called.Parameters[k].type
     IN  \/ type = "INTEGER" /\ Strtol(text) = Unset /\ End("FAILURE")
         \/ /\ \/ type = "INTEGER" /\ Strtol(text) # Unset /\ Store(Strtol(text))
               \/ type = "STRING" /\ Store(text)
               \/ type = "BOOLEAN" /\ text \in {"True", "False"} /\ Store(text)
               \/ type = "BOOLEAN" /\ text \notin {"True", "False"} /\ UNCHANGED routines
            /\ k' = k + 1
            /\ UNCHANGED <<shape, argv, main, lost, seen, exit>>

CallHandler ==
  /\ main = "parse" /\ k > Len(Args)
  /\ seen' = Called.Parameters
  /\ main' = "end"
  /\ \E result \in Outcomes : exit' = IF result = "OK" THEN "SUCCESS" ELSE "FAILURE"
  /\ UNCHANGED <<shape, argv, routines, lost, k>>

RoutineNext == RoutineLibInit \/ RegisterAction \/ Find \/ ParseArgument \/ CallHandler

RoutineSpec == RoutineInit /\ [][RoutineNext]_routineVars /\ WF_routineVars(RoutineNext)
----------------------------------------------------------------------------
(* Properties *)

(* No mandatory parameter behind an optional one. *)
WellDeclared == \A i, j \in DOMAIN shape : i < j /\ shape[i].Optional => shape[j].Optional

(* The handler (RoutineLibExecute) finds the arguments as they were typed, *)
(* the defaults where there were none, and nothing that was never set,     *)
(* whatever was declared in the right order; excepted is a text that is no *)
(* boolean, for which it is called all the same.                           *)
HandlerSeesItsArguments ==
  WellDeclared =>
    \A j \in DOMAIN seen :
      IF j > Len(Args) THEN seen[j].value = Default
      ELSE CASE seen[j].type = "INTEGER" -> seen[j].value = Strtol(Args[j]) /\ seen[j].value # Unset
             [] seen[j].type = "STRING"  -> seen[j].value = Args[j]
             [] seen[j].type = "BOOLEAN" -> \/ seen[j].value = Args[j]
                                            \/ Args[j] \notin {"True", "False"}

(* A call with every mandatory argument is not refused for their number;   *)
(* excepted is a routine all of whose parameters are optional.             *)
EnoughIsEnough ==
  LET mandatory == {j \in DOMAIN shape : ~shape[j].Optional}
  IN  /\ main = "end" /\ exit = "FAILURE" /\ argv # <<>> /\ Head(argv) = "Action"
      /\ k = 1 /\ seen = <<>> /\ Len(routines) = 2
      /\ WellDeclared /\ mandatory # {}
      => \/ Len(Args) < Cardinality(mandatory) \/ Len(Args) > Len(shape)
         \/ shape[1].type = "INTEGER" /\ Strtol(Args[1]) = Unset

RoutinesAreCalledRight == HandlerSeesItsArguments /\ EnoughIsEnough
=============================================================================
