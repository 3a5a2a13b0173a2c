------------------------------ MODULE MCConsole ------------------------------
(***************************************************************************)
(* The operator's side of the kernel: the keyboard path, the text that     *)
(* several processors print, and the formatting of a message.  They share  *)
(* no variable, so a behaviour is one of a single part and the others stay *)
(* where they start.                                                       *)
(***************************************************************************)
EXTENDS Keyboard, Integers

CONSTANTS Cpus, Columns, Rows, Blank, MaxCalls,         \* of DisplaywideText
          NULL                                         \* of Krnlstring

(* Keys whose codes also occur inside the special sequences. *)
MCKeys == {LSHIFT, <<FALSE, 124>>, PRINT_SCREEN}

(* One typist uses them all and waits for the kernel, the other overruns   *)
(* the ring with a single key and Pause.                                   *)
Paced == [keys |-> MCKeys, paced |-> TRUE]
MCTypists == {Paced, [keys |-> {<<FALSE, 124>>}, paced |-> FALSE]}

(* Texts that wrap, that end or begin with a newline, that break off, and  *)
(* a reset.                                                                *)
Texts == {<<"a">>, <<"n">>, <<"n", "a">>, <<"a", "a", "n", "a">>, <<"a", "bad", "n">>,
          <<"reset">>}

(* Formats of one or two elements of every kind, with numbers up to the    *)
(* widest; a lone "%" and a lone "%R" only at the end, where they are that. *)
Element(f, a) == [format |-> f, args |-> a]
Numbers == {0, 7, 10, 255, 2147483647}
Elements ==
    {Element(<<"a">>, <<>>), Element(<<"%", "c">>, <<"z">>), Element(<<"%", "i">>, <<5>>),
     Element(<<"%", "%">>, <<>>), Element(<<"%">>, <<>>), Element(<<"%", "q">>, <<>>), Element(<<"%", "R">>, <<>>)}
    \cup {Element(<<"%", "s">>, <<s>>) : s \in {NULL, <<>>, <<"h", "i">>}}
    \cup {Element(<<"%", "d">>, <<n>>) : n \in Numbers \cup {-7, -10, -2147483647}}
    \cup {Element(<<"%">> \o s, <<n>>) : n \in Numbers,
            s \in {<<"u">>, <<"o">>, <<"x">>, <<"X">>, <<"p">>, <<"R", "u">>, <<"R", "x">>, <<"R", "X">>}}
    \cup {Element(<<"%", s>>, <<n>>) : n \in {0, 1}, s \in {"b", "B"}}
Calls ==
    {c \in [elements : UNION {[1..n -> Elements] : n \in 1..2}, Limit : {-1, 3}] :
       Len(c.elements) = 2 => c.elements[1].format \notin {<<"%">>, <<"%", "R">>}}
OneCall == [elements |-> <<Element(<<"a">>, <<>>)>>, Limit |-> -1]

VARIABLES part, formatCall, Format, Arguments, pieces, HexOrBoolCase, result,
          lock, call, text, CursorX, CursorY, ram, vram, paper, calls, residue

textVars == <<lock, call, text, CursorX, CursorY, ram, vram, paper, calls, residue>>
formatVars == <<formatCall, Format, Arguments, pieces, HexOrBoolCase, result>>
AllVars == <<part, vars, textVars, formatVars>>

Dwtp == INSTANCE DisplaywideText WITH pc <- call
Krtl == INSTANCE Krnlstring WITH call <- formatCall

ASSUME MCConsoleAssumption == Dwtp!GridAssumption

AllInit ==
    /\ part \in {"keyboard", "text", "format"}
    /\ Init /\ Dwtp!Init
    /\ part # "keyboard" => typist = Paced
    /\ formatCall \in IF part = "format" THEN Calls ELSE {OneCall}
    /\ Krtl!StringInit

AllNext ==
    /\ UNCHANGED part
    /\ \/ part = "keyboard" /\ Next /\ UNCHANGED <<textVars, formatVars>>
       \/ part = "text" /\ Dwtp!Next /\ UNCHANGED <<vars, formatVars>>
       \/ part = "format" /\ Krtl!StringNext /\ UNCHANGED <<vars, textVars>>

(* The fairness of the modules, each while its part runs. *)
AllSpec ==
    /\ AllInit /\ [][AllNext]_AllVars
    /\ WF_vars(part = "keyboard" /\ MainLoop)
    /\ WF_vars(part = "keyboard" /\ PS2_KeyboardInterrupt)
    /\ \A c \in Cpus : WF_textVars(part = "text" /\ Dwtp!Step(c))
-----------------------------------------------------------------------------
(* DisplaywideText: between calls the display shows consecutive lines of   *)
(* what was printed, each call whole.                                      *)
ScreenShowsPaper == Dwtp!TypeOK /\ Dwtp!ScreenShowsPaper

(* Krnlstring: every element of a format becomes its text, numbers in      *)
(* every radix and case included, and fits the buffer it is converted in.  *)
FormatIsRight == Krtl!FormatIsRight /\ Krtl!BuffersSuffice

(* Keyboard, DisplaywideText: the main loop keeps popping as long as bytes *)
(* keep arriving, and every text call returns unless one waits for its own *)
(* lock.                                                                   *)
ConsoleIsServed == TypingIsServed /\ Dwtp!CallsReturn
=============================================================================
