--------------------------- MODULE DisplaywideText ---------------------------
(***************************************************************************)
(* The Displaywide Text Protocol (DisplaywideTextProtocol.c): text calls   *)
(* of several CPUs draw glyphs into video memory and into a copy in RAM,   *)
(* one call at a time under sg_DwtpSpinlock, and scroll when the cursor    *)
(* runs off the display.                                                   *)
(*                                                                         *)
(* A text is a sequence of "a" (any glyph), "n" (newline) and "bad" (a     *)
(* conversion that KrdwtpOutFormatText does not know).  What a glyph looks *)
(* like is abstracted to the CPU that drew it, pixels to character cells.  *)
(* The RAM copy has twice the rows of the display, as the code allocates.  *)
(***************************************************************************)
EXTENDS Naturals, Sequences, SequencesExt

CONSTANTS Cpus, Texts, Columns, Rows, Blank,
          MaxCalls          \* bound on the number of calls made

GridAssumption == Columns \in Nat \ {0} /\ Rows \in Nat \ {0, 1}

VARIABLES lock,             \* sg_DwtpSpinlock
          pc, text,         \* per CPU: where its call is, what is left to print
          CursorX, CursorY,
          ram, vram,        \* rows of cells
          paper,            \* every line printed since the last reset
          calls,            \* number of calls made
          residue           \* history: a reset has left glyphs below the display

vars == <<lock, pc, text, CursorX, CursorY, ram, vram, paper, calls, residue>>
display == <<CursorX, CursorY, ram, vram>>

RamRows == 0..(2 * Rows - 1)
Screen == 0..(Rows - 1)
EmptyLine == [x \in 0..(Columns - 1) |-> Blank]

Init == /\ lock = FALSE
        /\ pc = [c \in Cpus |-> "idle"] /\ text = [c \in Cpus |-> <<>>]
        /\ CursorX = 0 /\ CursorY = 0
        /\ ram = [y \in RamRows |-> EmptyLine] /\ vram = [y \in Screen |-> EmptyLine]
        /\ paper = <<EmptyLine>>
        /\ calls = 0 /\ residue = FALSE

-----------------------------------------------------------------------------
(* What the calls should show: an endless paper, written one whole call    *)
(* at a time.  The state is [lines, x, on]: `on' until a "bad" is met.     *)

Feed(c, p, ch) ==
    CASE ~p.on       -> p
      [] ch = "bad"  -> [p EXCEPT !.on = FALSE]
      [] ch = "n"    -> [p EXCEPT !.lines = Append(@, EmptyLine), !.x = 0]
      [] ch = "reset" -> [p EXCEPT !.lines = <<EmptyLine>>, !.x = 0]
      [] ch = "a"    -> LET drawn == [p.lines EXCEPT ![Len(p.lines)][p.x] = c]
                        IN  IF p.x + 1 >= Columns
                            THEN [p EXCEPT !.lines = Append(drawn, EmptyLine), !.x = 0]
                            ELSE [p EXCEPT !.lines = drawn, !.x = @ + 1]

Written(c, t) ==
    FoldLeft(LAMBDA p, ch : Feed(c, p, ch), [lines |-> paper, x |-> CursorX, on |-> TRUE], t).lines

-----------------------------------------------------------------------------
(* The calls. *)

\* A CPU enters KrdwtpOut... or KrdwtpResetState and spins for the lock.
Call(c, t) == /\ pc[c] = "idle"
              /\ calls < MaxCalls
              /\ calls' = calls + 1
              /\ pc' = [pc EXCEPT ![c] = "wait"]
              /\ text' = [text EXCEPT ![c] = t]
              /\ UNCHANGED <<lock, display, paper, residue>>

\* AcquireOrWaitSpinlock succeeds.
Acquire(c) == /\ pc[c] = "wait" /\ ~lock
              /\ lock' = TRUE
              /\ pc' = [pc EXCEPT ![c] = "out"]
              /\ paper' = Written(c, text[c])
              /\ UNCHANGED <<text, display, calls, residue>>

\* What the CPU that holds the lock prints next.
Upcoming(c) == CASE pc[c] # "out"   -> "none"
                 [] text[c] = <<>>  -> "end"
                 [] OTHER           -> Head(text[c])

\* Mutant: the last display row is not cleared when it is scrolled away.
ScrollKeepsLast(r, y) ==
    [i \in RamRows |-> IF i < y /\ i < Rows THEN r[i + 1] ELSE r[i]]

\* The rows below the first move up by one; row y is cleared.
Scrolled(r, y) ==
    [i \in RamRows |-> IF i < y THEN r[i + 1] ELSE IF i = y THEN EmptyLine ELSE r[i]]

\* KrdwtpScroll_NoSpin on a cursor in row y > 0.
Scroll_NoSpin(y) ==
    /\ ram' = Scrolled(ram, y)
    /\ vram' = [i \in Screen |-> ram'[i]]
    /\ CursorY' = y - 1
    /\ CursorX' = 0

\* Mutant: the cursor may go two rows below the display.
OverLate(y) == y > Rows + 1

Over(y) == y > Rows

\* The newline path of KrdwtpOutColoredCharacter_NoSpin.
Newline(c) ==
    /\ Upcoming(c) = "n"
    /\ text' = [text EXCEPT ![c] = Tail(@)]
    /\ IF Over(CursorY + 1)
       THEN Scroll_NoSpin(CursorY + 1)
       ELSE CursorX' = 0 /\ CursorY' = CursorY + 1 /\ UNCHANGED <<ram, vram>>
    /\ UNCHANGED <<lock, pc, paper, calls, residue>>

\* Drawing a cell.  Row Rows lies below the display: it reaches the RAM copy
\* and video memory that is not shown.
Draw(c, x, y) ==
    /\ ram' = [ram EXCEPT ![y][x] = c]
    /\ vram' = IF y \in Screen THEN [vram EXCEPT ![y][x] = c] ELSE vram

\* The glyph path.  At the end of the last row it calls KrdwtpScroll, which
\* waits for the lock that this CPU holds: nobody is left to release it.
Glyph(c) ==
    /\ Upcoming(c) = "a"
    /\ text' = [text EXCEPT ![c] = Tail(@)]
    /\ Draw(c, CursorX, CursorY)
    /\ IF CursorX + 1 >= Columns
       THEN /\ CursorX' = 0 /\ CursorY' = CursorY + 1
            /\ pc' = IF Over(CursorY + 1) THEN [pc EXCEPT ![c] = "scroll"] ELSE pc
       ELSE CursorX' = CursorX + 1 /\ UNCHANGED <<CursorY, pc>>
    /\ UNCHANGED <<lock, paper, calls, residue>>

\* KrdwtpResetState clears what the display shows, of both buffers.
ResetState(c) ==
    /\ Upcoming(c) = "reset"
    /\ text' = [text EXCEPT ![c] = Tail(@)]
    /\ CursorX' = 0 /\ CursorY' = 0
    /\ ram' = [y \in RamRows |-> IF y \in Screen THEN EmptyLine ELSE ram[y]]
    /\ vram' = [y \in Screen |-> EmptyLine]
    /\ residue' = (residue \/ \E y \in RamRows \ Screen : ram[y] # EmptyLine)
    /\ UNCHANGED <<lock, pc, paper, calls>>

\* Mutant: the error exit of KrdwtpOutFormatText keeps the lock.
RelinquishUnlessBad(c) ==
    /\ Upcoming(c) \in {"end", "bad"}
    /\ lock' = (text[c] # <<>>)
    /\ pc' = [pc EXCEPT ![c] = "idle"]
    /\ text' = [text EXCEPT ![c] = <<>>]
    /\ UNCHANGED <<display, paper, calls, residue>>

\* The end of a text, or ErrorOut.
Relinquish(c) ==
    /\ Upcoming(c) \in {"end", "bad"}
    /\ lock' = FALSE
    /\ pc' = [pc EXCEPT ![c] = "idle"]
    /\ text' = [text EXCEPT ![c] = <<>>]
    /\ UNCHANGED <<display, paper, calls, residue>>

Step(c) == Acquire(c) \/ Newline(c) \/ Glyph(c) \/ ResetState(c) \/ Relinquish(c)

Next == \E c \in Cpus : (\E t \in Texts : Call(c, t)) \/ Step(c)

\* Every CPU runs.  The bound on the calls bounds how often a spinning CPU
\* can be overtaken; the spinlock itself is not fair.
Fairness == \A c \in Cpus : WF_vars(Step(c))

Spec == Init /\ [][Next]_vars /\ Fairness

-----------------------------------------------------------------------------
(* Properties. *)

\* The cursor stays in the columns and at most one row past the rows below
\* the display, so that drawing and scrolling stay inside the RAM copy that
\* KrdwtpInitialize allocates with twice the size of the display.
TypeOK == /\ lock \in BOOLEAN
          /\ pc \in [Cpus -> {"idle", "wait", "out", "scroll"}]
          /\ CursorX \in 0..(Columns - 1)
          /\ CursorY \in 0..(Rows + 1)
          /\ (\A c \in Cpus : pc[c] # "scroll") => CursorY <= Rows
          /\ ram \in [RamRows -> [0..(Columns - 1) -> Cpus \cup {Blank}]]
          /\ vram \in [Screen -> [0..(Columns - 1) -> Cpus \cup {Blank}]]

\* The line of the paper at the top of the display: the cursor stays on the
\* row below the display once it got there.
Top == IF Len(paper) > Rows + 1 THEN Len(paper) - Rows ELSE 1

\* Between calls the display shows consecutive lines of what was printed,
\* each call whole, whichever CPUs printed and however often it scrolled;
\* after KrdwtpResetState, which "Clears the framebuffer with given color"
\* (DisplaywideTextProtocol.h:57), nothing that was printed before it, unless the
\* reset left glyphs in the row below the display.
ScreenShowsPaper ==
    ~lock /\ ~residue => \A y \in Screen :
               vram[y] = IF Top + y <= Len(paper) THEN paper[Top + y] ELSE EmptyLine

\* "CPU is waiting to acquire spinlock that it already has the lock of"
\* is a meltdown cause (Spinlock.c:9): it must not come to that.
NoSelfDeadlock == \A c \in Cpus : pc[c] # "scroll"

\* Every call returns: the lock is released on every path out of a call,
\* the malformed formats included, until a call waits for its own lock.
CallsReturn == \A c \in Cpus : pc[c] = "wait" ~> pc[c] = "idle" \/ ~NoSelfDeadlock
=============================================================================
