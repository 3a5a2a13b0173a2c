------------------------------ MODULE Keyboard ------------------------------
(***************************************************************************)
(* The PS/2 keyboard driver (PS2Keyboard.c), the ring of keyboard events   *)
(* (KeyboardHub.c) and the kernel's main loop that drains it               *)
(* (KrKernelStart.c), all on the bootstrap processor: the offer for IRQ 1  *)
(* is made while it is the only active one.                                *)
(*                                                                         *)
(* The keyboard sends the scancode set 2 sequences listed at the top of    *)
(* PS2Scancodes.h, one byte per interrupt; a held key may repeat its make  *)
(* code.  The handler runs with interrupts off, hence as one step.  The    *)
(* main loop runs with them on: it can be interrupted between any two of   *)
(* its steps, also inside HiPopKeyboardEvent.  KeyevCount-- is one         *)
(* instruction in the -O2 build and is one step.                           *)
(***************************************************************************)
EXTENDS Naturals, Sequences

CONSTANTS Keys,                 \* keys used: elements <<extended, scancode>>
          MAX_KEYBOARD_EVENTS,
          Typists               \* the values of typist

XSCANCODE == 224      \* 0xE0
BREAK_PREFIX == 240   \* 0xF0
PAUSE_PREFIX == 225   \* 0xE1

LSHIFT == <<FALSE, 18>>       \* 0x12, also the second byte of Print Screen
RSHIFT == <<FALSE, 89>>
LCTRL  == <<FALSE, 20>>       \* 0x14, also the second byte of Pause
RCTRL  == <<TRUE, 20>>
LALT   == <<FALSE, 17>>
RALT   == <<TRUE, 17>>
PRINT_SCREEN == <<FALSE, 247>>   \* where the driver keeps its state, 0xF7
PAUSE        == <<FALSE, 248>>   \* 0xF8

ASSUME KeyboardAssumption ==
    /\ MAX_KEYBOARD_EVENTS \in Nat /\ MAX_KEYBOARD_EVENTS >= 2
    /\ Keys \subseteq (BOOLEAN \X (0..131)) \cup {PRINT_SCREEN}
    /\ <<TRUE, 18>> \notin Keys /\ <<TRUE, 124>> \notin Keys   \* KC_INVALID in the tables
    /\ Typists \subseteq [keys : SUBSET Keys, paced : BOOLEAN]

VARIABLES typist,                 \* [keys, paced]: the keys that are typed, and
                                  \* whether the ring always has room for an action
          Listen, ListenIdx,      \* where the decoder is in a sequence
          KeyStates,              \* the keys recorded as pressed
          ring, KeyevHeadidx, KeyevTailidx, KeyevCount,
          pc,                     \* the main loop
          wire,                   \* bytes the keyboard has yet to send
          held,                   \* keys that are physically down
          due                     \* reports the bytes on the wire stand for

vars == <<typist, Listen, ListenIdx, KeyStates, ring, KeyevHeadidx, KeyevTailidx,
          KeyevCount, pc, wire, held, due>>
driver == <<Listen, ListenIdx, KeyStates>>
keyboard == <<wire, held, due>>

Slots == 0..(MAX_KEYBOARD_EVENTS - 1)

Mods(keys) == {m \in {"CTRL", "ALT", "SHIFT"} :
                 CASE m = "CTRL"  -> {LCTRL, RCTRL} \cap keys # {}
                   [] m = "ALT"   -> {LALT, RALT} \cap keys # {}
                   [] m = "SHIFT" -> {LSHIFT, RSHIFT} \cap keys # {}}

PS2_SampleKeymod(keys) == Mods(keys)

\* .OldState is left out: the code derives it from NewState.
Event(k, down, keys) == [key |-> k, down |-> down, mod |-> PS2_SampleKeymod(keys)]

NoEvent == Event(<<FALSE, 0>>, FALSE, {})

Init == /\ typist \in Typists
        /\ Listen = {} /\ ListenIdx = 0 /\ KeyStates = {}
        /\ ring = [s \in Slots |-> NoEvent]
        /\ KeyevHeadidx = 0 /\ KeyevTailidx = 0 /\ KeyevCount = 0
        /\ pc = "check"
        /\ wire = <<>> /\ held = {} /\ due = <<>>

-----------------------------------------------------------------------------
(* The keyboard. *)

MakeCode(k) == IF k = PRINT_SCREEN THEN <<224, 18, 224, 124>>
               ELSE IF k[1] THEN <<XSCANCODE, k[2]>> ELSE <<k[2]>>

BreakCode(k) == IF k = PRINT_SCREEN THEN <<224, 240, 124, 224, 240, 18>>
                ELSE IF k[1] THEN <<XSCANCODE, BREAK_PREFIX, k[2]>>
                ELSE <<BREAK_PREFIX, k[2]>>

PauseCode == <<225, 20, 119, 225, 240, 20, 240, 119>>

MayAct == wire = <<>> /\ (typist.paced => KeyevCount + 2 <= MAX_KEYBOARD_EVENTS)

\* A key goes down, or stays down and repeats.
Press(k) == /\ MayAct
            /\ held' = held \cup {k}
            /\ wire' = MakeCode(k)
            /\ due' = <<Event(k, TRUE, held')>>
            /\ UNCHANGED <<typist, driver, ring, KeyevHeadidx, KeyevTailidx, KeyevCount, pc>>

Release(k) == /\ MayAct /\ k \in held
              /\ held' = held \ {k}
              /\ wire' = BreakCode(k)
              /\ due' = <<Event(k, FALSE, held')>>
              /\ UNCHANGED <<typist, driver, ring, KeyevHeadidx, KeyevTailidx, KeyevCount, pc>>

\* Pause has no break code of its own.
StrikePause == /\ MayAct
               /\ wire' = PauseCode
               /\ due' = <<Event(PAUSE, TRUE, held), Event(PAUSE, FALSE, held)>>
               /\ UNCHANGED <<typist, driver, held, ring, KeyevHeadidx, KeyevTailidx, KeyevCount, pc>>

-----------------------------------------------------------------------------
(* HiPushKeyboardEvent: a full ring is overwritten at the tail and the     *)
(* head stays where it is.                                                 *)

\* Mutant: an index may reach the length of the ring.
BumpLate(idx) == IF idx >= MAX_KEYBOARD_EVENTS THEN 0 ELSE idx + 1

Bump(idx) == IF idx + 1 >= MAX_KEYBOARD_EVENTS THEN 0 ELSE idx + 1

MACROMIN(a, b) == IF a < b THEN a ELSE b

PushState == [ring |-> ring, tail |-> KeyevTailidx, count |-> KeyevCount]

HiPushKeyboardEvent(q, e) ==
    [ring  |-> [q.ring EXCEPT ![q.tail] = e],
     tail  |-> Bump(q.tail),
     count |-> MACROMIN(MAX_KEYBOARD_EVENTS, q.count + 1)]

\* One event, or the two of Pause.
PushEvents(es) ==
    LET p == HiPushKeyboardEvent(PushState, es[1])
        q == IF Len(es) = 1 THEN p ELSE HiPushKeyboardEvent(p, es[2])
    IN  ring' = q.ring /\ KeyevTailidx' = q.tail /\ KeyevCount' = q.count

-----------------------------------------------------------------------------
(* The interrupt handler: what one byte does to the decoder.               *)

Finished == Listen' = {} /\ ListenIdx' = 0

Nothing == UNCHANGED <<KeyStates, ring, KeyevTailidx, KeyevCount>>

More(flags) == Listen' = Listen \cup flags /\ ListenIdx' = ListenIdx + 1 /\ Nothing

\* Mutant: a special sequence ends one byte early.
SwallowShort(last, es, states) ==
    IF ListenIdx = last - 1
    THEN Finished /\ KeyStates' = states /\ PushEvents(es)
    ELSE More({})

\* The rest of a special sequence is counted, not looked at.
Swallow(last, es, states) ==
    IF ListenIdx = last
    THEN Finished /\ KeyStates' = states /\ PushEvents(es)
    ELSE More({})

PrintScreenPress ==
    Swallow(3, <<Event(PRINT_SCREEN, TRUE, KeyStates)>>, KeyStates \cup {PRINT_SCREEN})

PrintScreenRelease ==
    Swallow(5, <<Event(PRINT_SCREEN, FALSE, KeyStates)>>, KeyStates \ {PRINT_SCREEN})

PausePress ==
    Swallow(7, <<Event(PAUSE, TRUE, KeyStates), Event(PAUSE, FALSE, KeyStates)>>, KeyStates)

\* Mutant: the modifiers are sampled before the table is updated.
OrdinaryKeySampledFirst(Data) ==
    LET k == <<"EXTENDED" \in Listen, Data>>
        down == "BROKEN" \notin Listen
    IN  /\ KeyStates' = IF down THEN KeyStates \cup {k} ELSE KeyStates \ {k}
        /\ PushEvents(<<Event(k, down, KeyStates)>>)
        /\ Finished

\* A byte that ends an ordinary sequence.
OrdinaryKey(Data) ==
    LET k == <<"EXTENDED" \in Listen, Data>>
        down == "BROKEN" \notin Listen
    IN  /\ KeyStates' = IF down THEN KeyStates \cup {k} ELSE KeyStates \ {k}
        /\ PushEvents(<<Event(k, down, KeyStates')>>)
        /\ Finished

StartsPrintScreen(Data) ==
    Data = 18 /\ ListenIdx = 1 /\ "EXTENDED" \in Listen

EndsPrintScreen(Data) ==
    Data = 124 /\ ListenIdx = 2 /\ {"EXTENDED", "BROKEN"} \subseteq Listen

Decode(Data) ==
    IF "PRTSCAS" \in Listen THEN PrintScreenPress
    ELSE IF "PRTSCDEAS" \in Listen THEN PrintScreenRelease
    ELSE IF "PAUSE" \in Listen THEN PausePress
    ELSE IF Data = XSCANCODE THEN More({"EXTENDED"})
    ELSE IF Data = BREAK_PREFIX THEN More({"BROKEN"})
    ELSE IF StartsPrintScreen(Data) THEN More({"PRTSCAS"})
    ELSE IF EndsPrintScreen(Data) THEN More({"PRTSCDEAS"})
    ELSE IF Data = PAUSE_PREFIX THEN More({"PAUSE"})
    ELSE OrdinaryKey(Data)

\* An interrupt ends a HLT.
Awaken == pc' = IF pc = "halted" THEN "while" ELSE pc

\* `due' loses what was pushed, so that a report in the ring counts once.
PS2_KeyboardInterrupt ==
    /\ wire # <<>>
    /\ wire' = Tail(wire)
    /\ Decode(Head(wire))
    /\ due' = IF Tail(wire) = <<>> THEN <<>> ELSE due
    /\ Awaken
    /\ UNCHANGED <<typist, held, KeyevHeadidx>>

-----------------------------------------------------------------------------
(* The main loop. *)

MainCheck == /\ pc = "check"
             /\ pc' = IF KeyevCount = 0 THEN "halt" ELSE "while"
             /\ UNCHANGED <<typist, driver, keyboard, ring, KeyevHeadidx, KeyevTailidx, KeyevCount>>

MainHalt == /\ pc = "halt"
            /\ pc' = "halted"
            /\ UNCHANGED <<typist, driver, keyboard, ring, KeyevHeadidx, KeyevTailidx, KeyevCount>>

\* Mutant: the loop test is inverted.
MainWhileInverted ==
    /\ pc = "while"
    /\ pc' = IF KeyevCount = 0 THEN "pop" ELSE "check"
    /\ UNCHANGED <<typist, driver, keyboard, ring, KeyevHeadidx, KeyevTailidx, KeyevCount>>

MainWhile == /\ pc = "while"
             /\ pc' = IF KeyevCount # 0 THEN "pop" ELSE "check"
             /\ UNCHANGED <<typist, driver, keyboard, ring, KeyevHeadidx, KeyevTailidx, KeyevCount>>

\* HiPopKeyboardEvent reads the head and moves it ...
HiPopTake == /\ pc = "pop"
             /\ pc' = "count"
             /\ KeyevHeadidx' = Bump(KeyevHeadidx)
             /\ UNCHANGED <<typist, driver, keyboard, ring, KeyevTailidx, KeyevCount>>

\* ... and then decrements the count.
HiPopCount == /\ pc = "count"
              /\ pc' = "while"
              /\ KeyevCount' = KeyevCount - 1
              /\ UNCHANGED <<typist, driver, keyboard, ring, KeyevHeadidx, KeyevTailidx>>

MainLoop == MainCheck \/ MainHalt \/ MainWhile \/ HiPopTake \/ HiPopCount

Next == \/ \E k \in typist.keys : Press(k) \/ Release(k)
        \/ StrikePause
        \/ PS2_KeyboardInterrupt
        \/ MainLoop

\* Nothing is assumed of the typist; the processor runs unless it is
\* halted, and a byte in the controller raises its interrupt.
Fairness == WF_vars(MainLoop) /\ WF_vars(PS2_KeyboardInterrupt)

Spec == Init /\ [][Next]_vars /\ Fairness

-----------------------------------------------------------------------------
(* Properties. *)

Flags == {"EXTENDED", "BROKEN", "PRTSCAS", "PRTSCDEAS", "PAUSE"}

Events == [key : Keys \cup {PAUSE, NoEvent.key}, down : BOOLEAN,
           mod : SUBSET {"CTRL", "ALT", "SHIFT"}]

\* The decoder's flags and index stay in range and no key is recorded
\* that the keyboard does not have (PS2Keyboard.c, KeyboardHub.c).
TypeOK == /\ Listen \subseteq Flags /\ ListenIdx \in 0..7
          /\ KeyStates \subseteq Keys
          /\ ring \in [Slots -> Events]
          /\ KeyevHeadidx \in Slots /\ KeyevTailidx \in Slots
          /\ KeyevCount \in 0..MAX_KEYBOARD_EVENTS
          /\ pc \in {"check", "halt", "halted", "while", "pop", "count"}

\* The events from the head on, as many as KeyevCount says, less the one
\* that HiPopKeyboardEvent has taken and not yet counted.
Waiting == LET n == IF pc = "count" THEN KeyevCount - 1 ELSE KeyevCount
           IN  [i \in 1..n |-> ring[(KeyevHeadidx + i - 1) % MAX_KEYBOARD_EVENTS]]

KE == INSTANCE KeyEvents WITH Pause <- PAUSE, todo <- Waiting \o due

\* While the ring has room, every press and release is decoded into exactly
\* one event with the modifiers held, and read once, in order: through byte
\* sequences that share their codes with other keys, wrap-around of the ring
\* and an interrupt inside HiPopKeyboardEvent.
ImplementsKeyEvents == KE!Init /\ [][typist.paced => KE!Next]_(KE!vars)

\* The ring loses events when it is full but hands out the rest in order:
\* "Pops from head, pushes from tail" (KeyboardHub.c:6).
ImplementsLossyKeyEvents == KE!LossySpec

\* Between key actions the driver's table, which PS2_KeyboardGetKeyState
\* answers from, records exactly the keys that are down, and the decoder
\* expects a new sequence.
KeyStatesAreExact ==
    wire = <<>> => KeyStates = held /\ Listen = {} /\ ListenIdx = 0

\* Both: the key table is that of the keys held down (PS2Keyboard.c:61).
KeyTableIsExact == TypeOK /\ KeyStatesAreExact

\* An event that waits is popped: ProcessorHalt is for
\* "Halt CPU for now, not indefinitely" (Halt.h:8).
EventsArePopped == Waiting # <<>> ~> pc = "count"

\* As long as the keyboard keeps interrupting, the main loop keeps popping:
\* HLT never costs more than the wait for the next byte.
TypingIsServed == []<><<PS2_KeyboardInterrupt>>_vars => EventsArePopped

=============================================================================
