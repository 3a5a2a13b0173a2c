--------------------------- MODULE KeyboardProofs ---------------------------
(***************************************************************************)
(* Proofs about the keyboard path, for any set of keys, any length of the  *)
(* ring, any typist and every interleaving of the keyboard's interrupts    *)
(* with the main loop; and about the set-up of its controller, for any     *)
(* number of resends, of bytes that are not understood and of keys.        *)
(***************************************************************************)
EXTENDS Keyboard, PS2Setup, SequenceTheorems, TLAPS
-----------------------------------------------------------------------------
(* The inductive invariant *)

(* Where the decoder is when the bytes w are still to come. *)
At(w, flags, n) == wire = w /\ Listen = flags /\ ListenIdx = n

(* The rest of a special sequence of length n, which is only counted. *)
Counting(flags, n) ==
  /\ Listen = flags /\ ListenIdx \in Nat \ {0}
  /\ wire \in Seq(Nat) /\ wire # <<>> /\ ListenIdx + Len(wire) = n

PressingPrintScreen ==
  \/ At(<<224, 18, 224, 124>>, {}, 0)
  \/ At(<<18, 224, 124>>, {"EXTENDED"}, 1)
  \/ Counting({"EXTENDED", "PRTSCAS"}, 4)

ReleasingPrintScreen ==
  \/ At(<<224, 240, 124, 224, 240, 18>>, {}, 0)
  \/ At(<<240, 124, 224, 240, 18>>, {"EXTENDED"}, 1)
  \/ At(<<124, 224, 240, 18>>, {"EXTENDED", "BROKEN"}, 2)
  \/ Counting({"EXTENDED", "BROKEN", "PRTSCDEAS"}, 6)

PressingExtended(c) ==
  At(<<224, c>>, {}, 0) \/ At(<<c>>, {"EXTENDED"}, 1)

ReleasingExtended(c) ==
  \/ At(<<224, 240, c>>, {}, 0)
  \/ At(<<240, c>>, {"EXTENDED"}, 1)
  \/ At(<<c>>, {"EXTENDED", "BROKEN"}, 2)

PressingStandard(c) == At(<<c>>, {}, 0)

ReleasingStandard(c) == At(<<240, c>>, {}, 0) \/ At(<<c>>, {"BROKEN"}, 1)

Pausing == At(PauseCode, {}, 0) \/ Counting({"PAUSE"}, 8)

Codes == 0..131

Pressing(k) ==
  \/ k = PRINT_SCREEN /\ PressingPrintScreen
  \/ \E c \in Codes : k = <<TRUE, c>> /\ PressingExtended(c)
  \/ \E c \in Codes : k = <<FALSE, c>> /\ PressingStandard(c)

Releasing(k) ==
  \/ k = PRINT_SCREEN /\ ReleasingPrintScreen
  \/ \E c \in Codes : k = <<TRUE, c>> /\ ReleasingExtended(c)
  \/ \E c \in Codes : k = <<FALSE, c>> /\ ReleasingStandard(c)

(* Between sequences the table is right; within one it is what it was      *)
(* before the key was moved, the decoder is where the bytes sent have led  *)
(* it, and one report is due, two for Pause.                               *)
Idle == At(<<>>, {}, 0) /\ due = <<>> /\ KeyStates = held

Making(k) ==
  Pressing(k) /\ held = KeyStates \cup {k} /\ due = <<Event(k, TRUE, held)>>

Breaking(k) ==
  Releasing(k) /\ held = KeyStates \ {k} /\ due = <<Event(k, FALSE, held)>>

Striking ==
  /\ Pausing /\ held = KeyStates
  /\ due = <<Event(PAUSE, TRUE, held), Event(PAUSE, FALSE, held)>>

Decoding == Idle \/ Striking \/ \E k \in Keys : Making(k) \/ Breaking(k)

(* The events that HiPopKeyboardEvent has not taken yet. *)
Unread == IF pc = "count" THEN KeyevCount - 1 ELSE KeyevCount

PopFindsAnEvent == pc \in {"pop", "count"} => KeyevCount >= 1

(* With a paced typist the reports due have room, and the tail is where    *)
(* the events that wait end.                                               *)
RingHasRoom ==
  typist.paced => /\ KeyevCount + Len(due) <= MAX_KEYBOARD_EVENTS
                  /\ KeyevTailidx = (KeyevHeadidx + Unread) % MAX_KEYBOARD_EVENTS

TypistOK == /\ typist \in Typists /\ typist.keys \subseteq Keys
            /\ typist.paced \in BOOLEAN /\ held \subseteq Keys

KeyIInv == TypistOK /\ TypeOK /\ Decoding /\ PopFindsAnEvent /\ RingHasRoom
-----------------------------------------------------------------------------
(* Constants and events *)

LEMMA KeyKinds ==
  ASSUME KeyboardAssumption, NEW k \in Keys
  PROVE  \/ k = PRINT_SCREEN
         \/ \E c \in Codes : k = <<TRUE, c>> /\ c # 18 /\ c # 124
         \/ \E c \in Codes : k = <<FALSE, c>>
  <1>1. CASE k = PRINT_SCREEN
    BY <1>1
  <1>2. CASE k \in BOOLEAN \X Codes
    <2>1. PICK b \in BOOLEAN, c \in Codes : k = <<b, c>>
      BY <1>2
    <2>2. CASE b = TRUE
      BY <2>1, <2>2 DEF KeyboardAssumption
    <2>3. CASE b = FALSE
      BY <2>1, <2>3
    <2> QED BY <2>1, <2>2, <2>3
  <1> QED BY <1>1, <1>2 DEF KeyboardAssumption, Codes

LEMMA EventIsEvent ==
  ASSUME NEW k \in Keys \cup {PAUSE}, NEW down \in BOOLEAN, NEW ks
  PROVE  Event(k, down, ks) \in Events
  <1>1. Mods(ks) \in SUBSET {"CTRL", "ALT", "SHIFT"}
    BY DEF Mods
  <1> QED BY <1>1 DEF Event, PS2_SampleKeymod, Events

LEMMA PrintScreenIsNoModifier ==
  ASSUME NEW ks
  PROVE  /\ Mods(ks \cup {PRINT_SCREEN}) = Mods(ks)
         /\ Mods(ks \ {PRINT_SCREEN}) = Mods(ks)
  <1>1. \A K \in {{LCTRL, RCTRL}, {LALT, RALT}, {LSHIFT, RSHIFT}} : PRINT_SCREEN \notin K
    <2>1. /\ PRINT_SCREEN[2] = 247 /\ LCTRL[2] = 20 /\ RCTRL[2] = 20
          /\ LALT[2] = 17 /\ RALT[2] = 17 /\ LSHIFT[2] = 18 /\ RSHIFT[2] = 89
      BY DEF LCTRL, RCTRL, LALT, RALT, LSHIFT, RSHIFT, PRINT_SCREEN
    <2> QED BY <2>1
  <1>2. \A K \in {{LCTRL, RCTRL}, {LALT, RALT}, {LSHIFT, RSHIFT}} :
          /\ K \cap (ks \cup {PRINT_SCREEN}) = K \cap ks
          /\ K \cap (ks \ {PRINT_SCREEN}) = K \cap ks
    BY <1>1
  <1> QED BY <1>2 DEF Mods
-----------------------------------------------------------------------------
(* One byte of a sequence *)

(* A byte that is not the last: the decoder has moved on, nothing else. *)
Onward == Nothing /\ due' = due /\ held' = held

(* The last byte: the reports due are pushed and the table is right again. *)
Delivered == PushEvents(due) /\ Idle'

LEMMA MoreByte ==
  ASSUME NEW flags, More(flags), Tail(wire) # <<>>, PS2_KeyboardInterrupt
  PROVE  Onward /\ wire' = Tail(wire) /\ Listen' = Listen \cup flags /\ ListenIdx' = ListenIdx + 1
  BY DEF PS2_KeyboardInterrupt, More, At, Onward

(* The bytes that are told apart. *)
LEMMA DecodeExtended ==
  ASSUME Listen = {}, Decode(224)
  PROVE  More({"EXTENDED"})
  BY DEF Decode, XSCANCODE

LEMMA DecodeBroken ==
  ASSUME Listen \in {{}, {"EXTENDED"}}, Decode(240)
  PROVE  More({"BROKEN"})
  BY DEF Decode, XSCANCODE, BREAK_PREFIX

LEMMA DecodePause ==
  ASSUME Listen = {}, Decode(225)
  PROVE  More({"PAUSE"})
  BY DEF Decode, XSCANCODE, BREAK_PREFIX, PAUSE_PREFIX, StartsPrintScreen, EndsPrintScreen

LEMMA DecodePrintScreen ==
  /\ Listen = {"EXTENDED"} /\ ListenIdx = 1 /\ Decode(18) => More({"PRTSCAS"})
  /\ Listen = {"EXTENDED", "BROKEN"} /\ ListenIdx = 2 /\ Decode(124) => More({"PRTSCDEAS"})
  BY DEF Decode, XSCANCODE, BREAK_PREFIX, StartsPrintScreen, EndsPrintScreen

LEMMA DecodeOrdinary ==
  ASSUME NEW c \in Codes, Decode(c), ListenIdx \in Nat,
         \/ Listen = {} \/ Listen = {"BROKEN"}
         \/ Listen \in {{"EXTENDED"}, {"EXTENDED", "BROKEN"}} /\ c # 18 /\ c # 124
  PROVE  OrdinaryKey(c)
  BY DEF Codes, Decode, XSCANCODE, BREAK_PREFIX, PAUSE_PREFIX, StartsPrintScreen, EndsPrintScreen

LEMMA DecodeSwallows ==
  /\ Listen = {"EXTENDED", "PRTSCAS"} /\ Decode(Head(wire)) => PrintScreenPress
  /\ Listen = {"EXTENDED", "BROKEN", "PRTSCDEAS"} /\ Decode(Head(wire)) => PrintScreenRelease
  /\ Listen = {"PAUSE"} /\ Decode(Head(wire)) => PausePress
  BY DEF Decode

(* The rest of a special sequence ends with its last byte. *)
LEMMA CountingByte ==
  ASSUME NEW flags, NEW n \in Nat, NEW es, NEW states, Counting(flags, n),
         Swallow(n - 1, es, states), PS2_KeyboardInterrupt
  PROVE  \/ Onward /\ Counting(flags, n)'
         \/ wire' = <<>> /\ Finished /\ KeyStates' = states /\ PushEvents(es) /\ due' = <<>>
  <1>1. Tail(wire) \in Seq(Nat) /\ Len(Tail(wire)) = Len(wire) - 1 /\ Len(wire) \in Nat \ {0}
    <2>1. wire \in Seq(Nat) /\ wire # <<>>
      BY DEF Counting
    <2> QED BY <2>1
  <1>a. /\ ListenIdx \in Nat /\ ListenIdx + Len(wire) = n
        /\ Len(Tail(wire)) = 0 <=> ListenIdx = n - 1
    <2>1. ListenIdx \in Nat /\ ListenIdx + Len(wire) = n
      BY DEF Counting
    <2>2. Len(Tail(wire)) = Len(wire) - 1 /\ Len(wire) \in Nat
      BY <1>1
    <2>3. Len(Tail(wire)) = 0 <=> ListenIdx = n - 1
      <3> DEFINE t == Len(Tail(wire))
                 len == Len(wire)
      <3>1. t = len - 1 /\ len \in Nat /\ ListenIdx \in Nat /\ ListenIdx + len = n
        BY <2>1, <2>2
      <3> HIDE DEF t, len
      <3>2. t = 0 <=> ListenIdx = n - 1
        BY <3>1
      <3> QED BY <3>2 DEF t
    <2> QED BY <2>1, <2>3, Zenon
  <1>b. Tail(wire) = <<>> <=> ListenIdx = n - 1
    <2>1. Tail(wire) = <<>> <=> Len(Tail(wire)) = 0
      BY <1>1, EmptySeq
    <2> QED BY <2>1, <1>a
  <1>2. CASE ListenIdx = n - 1
    <2>2. Tail(wire) = <<>>
      BY <1>2, <1>b
    <2> QED BY <1>2, <2>2 DEF Swallow, PS2_KeyboardInterrupt
  <1>3. CASE ListenIdx # n - 1
    <2>1. More({})
      BY <1>3 DEF Swallow
    <2>3. Tail(wire) # <<>>
      BY <1>3, <1>b
    <2>4. Onward /\ wire' = Tail(wire) /\ Listen' = Listen \cup {} /\ ListenIdx' = ListenIdx + 1
      BY <2>1, <2>3, MoreByte
    <2>5. ListenIdx' \in Nat \ {0} /\ ListenIdx' + Len(wire') = n
      BY <2>4, <1>1 DEF Counting
    <2> QED BY <2>3, <2>4, <2>5, <1>1 DEF Counting
  <1> QED BY <1>2, <1>3
-----------------------------------------------------------------------------
(* The byte of a phase: the next phase follows, or the report is pushed. *)

LEMMA OrdinaryDelivers ==
  ASSUME NEW c \in Codes, wire = <<c>>, OrdinaryKey(c), PS2_KeyboardInterrupt,
         NEW k, k = <<"EXTENDED" \in Listen, c>>,
         NEW down, down = ("BROKEN" \notin Listen),
         held = IF down THEN KeyStates \cup {k} ELSE KeyStates \ {k},
         due = <<Event(k, down, held)>>
  PROVE  Delivered
  <1>1. Tail(wire) = <<>>
    OBVIOUS
  <1>2. KeyStates' = held /\ PushEvents(<<Event(k, down, KeyStates')>>) /\ Finished
    BY DEF OrdinaryKey
  <1>3. PushEvents(due)
    BY <1>2
  <1> QED BY <1>1, <1>2, <1>3 DEF Delivered, Idle, At, Finished, PS2_KeyboardInterrupt
LEMMA ByteOf ==
  ASSUME PS2_KeyboardInterrupt
  PROVE  Decode(Head(wire))
  BY DEF PS2_KeyboardInterrupt

LEMMA FirstExtended ==
  ASSUME NEW w, NEW rest, At(w, {}, 0), Head(w) = 224, Tail(w) = rest, rest # <<>>,
         PS2_KeyboardInterrupt
  PROVE  Onward /\ At(rest, {"EXTENDED"}, 1)'
  <1>1. More({"EXTENDED"})
    BY DecodeExtended, ByteOf DEF At
  <1>2. Onward /\ wire' = Tail(wire) /\ Listen' = Listen \cup {"EXTENDED"}
        /\ ListenIdx' = ListenIdx + 1
    BY <1>1, MoreByte DEF At
  <1> QED BY <1>2 DEF At

LEMMA ThenBroken ==
  ASSUME Head(wire) = 240, Tail(wire) # <<>>, Listen \in {{}, {"EXTENDED"}},
         PS2_KeyboardInterrupt
  PROVE  Onward /\ wire' = Tail(wire) /\ Listen' = Listen \cup {"BROKEN"} /\ ListenIdx' = ListenIdx + 1
  <1>1. More({"BROKEN"})
    BY DecodeBroken, ByteOf
  <1> QED BY <1>1, MoreByte

LEMMA PrintScreenPressByte ==
  ASSUME PRINT_SCREEN \in Keys, Making(PRINT_SCREEN), PressingPrintScreen, PS2_KeyboardInterrupt
  PROVE  (Onward /\ PressingPrintScreen') \/ Delivered
  <1>1. CASE At(<<224, 18, 224, 124>>, {}, 0)
    <2>1. Head(<<224, 18, 224, 124>>) = 224 /\ Tail(<<224, 18, 224, 124>>) = <<18, 224, 124>>
          /\ <<18, 224, 124>> # <<>>
      OBVIOUS
    <2>2. Onward /\ At(<<18, 224, 124>>, {"EXTENDED"}, 1)'
      BY <1>1, <2>1, FirstExtended
    <2> QED BY <2>2 DEF PressingPrintScreen
  <1>2. CASE At(<<18, 224, 124>>, {"EXTENDED"}, 1)
    <2>1. Head(wire) = 18 /\ Tail(wire) = <<224, 124>>
      BY <1>2 DEF At
    <2>2. Decode(18)
      BY <2>1, ByteOf
    <2>3. More({"PRTSCAS"})
      BY <1>2, <2>2, DecodePrintScreen DEF At
    <2>4. Onward /\ wire' = Tail(wire) /\ Listen' = Listen \cup {"PRTSCAS"}
          /\ ListenIdx' = ListenIdx + 1
      BY <2>1, <2>3, MoreByte
    <2>5. <<224, 124>> \in Seq(Nat) /\ Len(<<224, 124>>) = 2 /\ <<224, 124>> # <<>>
      OBVIOUS
    <2>6. Counting({"EXTENDED", "PRTSCAS"}, 4)'
      BY <1>2, <2>1, <2>4, <2>5 DEF At, Counting
    <2> QED BY <2>4, <2>6 DEF PressingPrintScreen
  <1>3. CASE Counting({"EXTENDED", "PRTSCAS"}, 4)
    <2>1. PrintScreenPress
      BY <1>3, ByteOf, DecodeSwallows DEF Counting
    <2>2. Swallow(4 - 1, <<Event(PRINT_SCREEN, TRUE, KeyStates)>>, KeyStates \cup {PRINT_SCREEN})
      BY <2>1 DEF PrintScreenPress
    <2>3. \/ Onward /\ Counting({"EXTENDED", "PRTSCAS"}, 4)'
          \/ /\ wire' = <<>> /\ Finished /\ KeyStates' = KeyStates \cup {PRINT_SCREEN}
             /\ PushEvents(<<Event(PRINT_SCREEN, TRUE, KeyStates)>>) /\ due' = <<>>
      BY <1>3, <2>2, CountingByte
    <2>4. <<Event(PRINT_SCREEN, TRUE, KeyStates)>> = due /\ KeyStates \cup {PRINT_SCREEN} = held
          /\ held' = held
      BY PrintScreenIsNoModifier DEF Making, Event, PS2_SampleKeymod, PS2_KeyboardInterrupt
    <2> QED BY <2>3, <2>4 DEF PressingPrintScreen, Delivered, Idle, At, Finished
  <1> QED BY <1>1, <1>2, <1>3 DEF PressingPrintScreen

LEMMA MakingByte ==
  ASSUME KeyboardAssumption, NEW k \in Keys, Making(k), PS2_KeyboardInterrupt
  PROVE  (Onward /\ Making(k)') \/ Delivered
  <1>1. (Onward /\ Pressing(k)') \/ Delivered
    <2>1. CASE k = PRINT_SCREEN /\ PressingPrintScreen
      BY <2>1, PrintScreenPressByte DEF Pressing
    <2>2. CASE \E c \in Codes : k = <<TRUE, c>> /\ PressingExtended(c)
      <3>1. PICK c \in Codes : k = <<TRUE, c>> /\ PressingExtended(c)
        BY <2>2
      <3>2. CASE At(<<224, c>>, {}, 0)
        <4>1. Head(<<224, c>>) = 224 /\ Tail(<<224, c>>) = <<c>> /\ <<c>> # <<>>
          OBVIOUS
        <4>2. Onward /\ At(<<c>>, {"EXTENDED"}, 1)'
          BY <3>2, <4>1, FirstExtended
        <4> QED BY <3>1, <4>2 DEF Pressing, PressingExtended
      <3>3. CASE At(<<c>>, {"EXTENDED"}, 1)
        <4>1. Decode(c)
          BY <3>3, ByteOf DEF At
        <4>2. c # 18 /\ c # 124
          BY <3>1 DEF KeyboardAssumption
        <4>3. OrdinaryKey(c)
          BY <3>3, <4>1, <4>2, DecodeOrdinary DEF At
        <4>4. k = <<"EXTENDED" \in Listen, c>> /\ ("BROKEN" \notin Listen) = TRUE
          BY <3>1, <3>3 DEF At
        <4> QED BY <3>3, <4>3, <4>4, OrdinaryDelivers DEF At, Making
      <3> QED BY <3>1, <3>2, <3>3 DEF PressingExtended
    <2>3. CASE \E c \in Codes : k = <<FALSE, c>> /\ PressingStandard(c)
      <3>1. PICK c \in Codes : k = <<FALSE, c>> /\ PressingStandard(c)
        BY <2>3
      <3>2. Decode(c)
        BY <3>1, ByteOf DEF PressingStandard, At
      <3>3. OrdinaryKey(c)
        BY <3>1, <3>2, DecodeOrdinary DEF PressingStandard, At
      <3>4. k = <<"EXTENDED" \in Listen, c>> /\ ("BROKEN" \notin Listen) = TRUE
        <4>1. Listen = {} /\ k = <<FALSE, c>>
          BY <3>1 DEF PressingStandard, At
        <4>2. ("EXTENDED" \in Listen) = FALSE /\ ("BROKEN" \notin Listen) = TRUE
          BY <4>1
        <4> QED BY <4>1, <4>2
      <3> QED BY <3>1, <3>3, <3>4, OrdinaryDelivers DEF PressingStandard, At, Making
    <2> QED BY <2>1, <2>2, <2>3 DEF Making, Pressing
  <1>2. CASE Onward /\ Pressing(k)'
    <2>1. KeyStates' = KeyStates /\ due' = due /\ held' = held
      BY <1>2 DEF Onward, Nothing
    <2> QED BY <1>2, <2>1 DEF Making, Event, PS2_SampleKeymod
  <1> QED BY <1>1, <1>2

LEMMA PrintScreenReleaseByte ==
  ASSUME Breaking(PRINT_SCREEN), ReleasingPrintScreen, PS2_KeyboardInterrupt
  PROVE  (Onward /\ ReleasingPrintScreen') \/ Delivered
  <1>1. CASE At(<<224, 240, 124, 224, 240, 18>>, {}, 0)
    <2>1. /\ Head(<<224, 240, 124, 224, 240, 18>>) = 224
          /\ Tail(<<224, 240, 124, 224, 240, 18>>) = <<240, 124, 224, 240, 18>>
          /\ <<240, 124, 224, 240, 18>> # <<>>
      OBVIOUS
    <2>2. Onward /\ At(<<240, 124, 224, 240, 18>>, {"EXTENDED"}, 1)'
      BY <1>1, <2>1, FirstExtended
    <2> QED BY <2>2 DEF ReleasingPrintScreen
  <1>2. CASE At(<<240, 124, 224, 240, 18>>, {"EXTENDED"}, 1)
    <2>1. Head(wire) = 240 /\ Tail(wire) = <<124, 224, 240, 18>>
      BY <1>2 DEF At
    <2>2. Onward /\ wire' = Tail(wire) /\ Listen' = Listen \cup {"BROKEN"} /\ ListenIdx' = ListenIdx + 1
      BY <1>2, <2>1, ThenBroken DEF At
    <2>3. At(<<124, 224, 240, 18>>, {"EXTENDED", "BROKEN"}, 2)'
      BY <1>2, <2>1, <2>2 DEF At
    <2> QED BY <2>2, <2>3 DEF ReleasingPrintScreen
  <1>3. CASE At(<<124, 224, 240, 18>>, {"EXTENDED", "BROKEN"}, 2)
    <2>1. Head(wire) = 124 /\ Tail(wire) = <<224, 240, 18>>
      BY <1>3 DEF At
    <2>2. Decode(124)
      BY <2>1, ByteOf
    <2>3. More({"PRTSCDEAS"})
      BY <1>3, <2>2, DecodePrintScreen DEF At
    <2>4. Onward /\ wire' = Tail(wire) /\ Listen' = Listen \cup {"PRTSCDEAS"}
          /\ ListenIdx' = ListenIdx + 1
      BY <2>1, <2>3, MoreByte
    <2>5. <<224, 240, 18>> \in Seq(Nat) /\ Len(<<224, 240, 18>>) = 3 /\ <<224, 240, 18>> # <<>>
      OBVIOUS
    <2>6. Counting({"EXTENDED", "BROKEN", "PRTSCDEAS"}, 6)'
      BY <1>3, <2>1, <2>4, <2>5 DEF At, Counting
    <2> QED BY <2>4, <2>6 DEF ReleasingPrintScreen
  <1>4. CASE Counting({"EXTENDED", "BROKEN", "PRTSCDEAS"}, 6)
    <2>1. PrintScreenRelease
      BY <1>4, ByteOf, DecodeSwallows DEF Counting
    <2>2. Swallow(6 - 1, <<Event(PRINT_SCREEN, FALSE, KeyStates)>>, KeyStates \ {PRINT_SCREEN})
      BY <2>1 DEF PrintScreenRelease
    <2>3. \/ Onward /\ Counting({"EXTENDED", "BROKEN", "PRTSCDEAS"}, 6)'
          \/ /\ wire' = <<>> /\ Finished /\ KeyStates' = KeyStates \ {PRINT_SCREEN}
             /\ PushEvents(<<Event(PRINT_SCREEN, FALSE, KeyStates)>>) /\ due' = <<>>
      BY <1>4, <2>2, CountingByte
    <2>4. <<Event(PRINT_SCREEN, FALSE, KeyStates)>> = due /\ KeyStates \ {PRINT_SCREEN} = held
          /\ held' = held
      BY PrintScreenIsNoModifier DEF Breaking, Event, PS2_SampleKeymod, PS2_KeyboardInterrupt
    <2> QED BY <2>3, <2>4 DEF ReleasingPrintScreen, Delivered, Idle, At, Finished
  <1> QED BY <1>1, <1>2, <1>3, <1>4 DEF ReleasingPrintScreen

LEMMA BreakingByte ==
  ASSUME KeyboardAssumption, NEW k \in Keys, Breaking(k), PS2_KeyboardInterrupt
  PROVE  (Onward /\ Breaking(k)') \/ Delivered
  <1>1. (Onward /\ Releasing(k)') \/ Delivered
    <2>1. CASE k = PRINT_SCREEN /\ ReleasingPrintScreen
      BY <2>1, PrintScreenReleaseByte DEF Releasing
    <2>2. CASE \E c \in Codes : k = <<TRUE, c>> /\ ReleasingExtended(c)
      <3>1. PICK c \in Codes : k = <<TRUE, c>> /\ ReleasingExtended(c)
        BY <2>2
      <3>2. CASE At(<<224, 240, c>>, {}, 0)
        <4>1. Head(<<224, 240, c>>) = 224 /\ Tail(<<224, 240, c>>) = <<240, c>> /\ <<240, c>> # <<>>
          OBVIOUS
        <4>2. Onward /\ At(<<240, c>>, {"EXTENDED"}, 1)'
          BY <3>2, <4>1, FirstExtended
        <4> QED BY <3>1, <4>2 DEF Releasing, ReleasingExtended
      <3>3. CASE At(<<240, c>>, {"EXTENDED"}, 1)
        <4>1. Head(wire) = 240 /\ Tail(wire) = <<c>>
          BY <3>3 DEF At
        <4>2. Onward /\ wire' = Tail(wire) /\ Listen' = Listen \cup {"BROKEN"} /\ ListenIdx' = ListenIdx + 1
          BY <3>3, <4>1, ThenBroken DEF At
        <4>3. At(<<c>>, {"EXTENDED", "BROKEN"}, 2)'
          BY <3>3, <4>1, <4>2 DEF At
        <4> QED BY <3>1, <4>2, <4>3 DEF Releasing, ReleasingExtended
      <3>4. CASE At(<<c>>, {"EXTENDED", "BROKEN"}, 2)
        <4>1. Decode(c)
          BY <3>4, ByteOf DEF At
        <4>2. c # 18 /\ c # 124
          BY <3>1 DEF KeyboardAssumption
        <4>3. OrdinaryKey(c)
          BY <3>4, <4>1, <4>2, DecodeOrdinary DEF At
        <4>4. k = <<"EXTENDED" \in Listen, c>> /\ ("BROKEN" \notin Listen) = FALSE
          BY <3>1, <3>4 DEF At
        <4> QED BY <3>4, <4>3, <4>4, OrdinaryDelivers DEF At, Breaking
      <3> QED BY <3>1, <3>2, <3>3, <3>4 DEF ReleasingExtended
    <2>3. CASE \E c \in Codes : k = <<FALSE, c>> /\ ReleasingStandard(c)
      <3>1. PICK c \in Codes : k = <<FALSE, c>> /\ ReleasingStandard(c)
        BY <2>3
      <3>2. CASE At(<<240, c>>, {}, 0)
        <4>1. Head(wire) = 240 /\ Tail(wire) = <<c>>
          BY <3>2 DEF At
        <4>2. Onward /\ wire' = Tail(wire) /\ Listen' = Listen \cup {"BROKEN"} /\ ListenIdx' = ListenIdx + 1
          BY <3>2, <4>1, ThenBroken DEF At
        <4>3. At(<<c>>, {"BROKEN"}, 1)'
          BY <3>2, <4>1, <4>2 DEF At
        <4> QED BY <3>1, <4>2, <4>3 DEF Releasing, ReleasingStandard
      <3>3. CASE At(<<c>>, {"BROKEN"}, 1)
        <4>1. Decode(c)
          BY <3>3, ByteOf DEF At
        <4>2. OrdinaryKey(c)
          BY <3>3, <4>1, DecodeOrdinary DEF At
        <4>3. k = <<"EXTENDED" \in Listen, c>> /\ ("BROKEN" \notin Listen) = FALSE
          <5>1. Listen = {"BROKEN"} /\ k = <<FALSE, c>>
            BY <3>1, <3>3 DEF At
          <5>2. ("EXTENDED" \in Listen) = FALSE /\ ("BROKEN" \notin Listen) = FALSE
            BY <5>1
          <5> QED BY <5>1, <5>2
        <4> QED BY <3>3, <4>2, <4>3, OrdinaryDelivers DEF At, Breaking
      <3> QED BY <3>1, <3>2, <3>3 DEF ReleasingStandard
    <2> QED BY <2>1, <2>2, <2>3 DEF Breaking, Releasing
  <1>2. CASE Onward /\ Releasing(k)'
    <2>1. KeyStates' = KeyStates /\ due' = due /\ held' = held
      BY <1>2 DEF Onward, Nothing
    <2> QED BY <1>2, <2>1 DEF Breaking, Event, PS2_SampleKeymod
  <1> QED BY <1>1, <1>2

LEMMA StrikingByte ==
  ASSUME Striking, PS2_KeyboardInterrupt
  PROVE  (Onward /\ Striking') \/ Delivered
  <1>1. CASE At(PauseCode, {}, 0)
    <2>1. Head(wire) = 225 /\ Tail(wire) = <<20, 119, 225, 240, 20, 240, 119>>
      BY <1>1 DEF At, PauseCode
    <2>2. Decode(225)
      BY <2>1, ByteOf
    <2>3. More({"PAUSE"})
      BY <1>1, <2>2, DecodePause DEF At
    <2>4. Onward /\ wire' = Tail(wire) /\ Listen' = Listen \cup {"PAUSE"}
          /\ ListenIdx' = ListenIdx + 1
      BY <2>1, <2>3, MoreByte
    <2>5. /\ <<20, 119, 225, 240, 20, 240, 119>> \in Seq(Nat)
          /\ Len(<<20, 119, 225, 240, 20, 240, 119>>) = 7
          /\ <<20, 119, 225, 240, 20, 240, 119>> # <<>>
      OBVIOUS
    <2>6. Counting({"PAUSE"}, 8)'
      <3>1. Listen' = {"PAUSE"} /\ ListenIdx' = 1
        BY <1>1, <2>4 DEF At
      <3>2. wire' \in Seq(Nat) /\ Len(wire') = 7 /\ wire' # <<>>
        BY <2>1, <2>4, <2>5
      <3> QED BY <3>1, <3>2 DEF Counting
    <2>7. KeyStates' = KeyStates /\ due' = due /\ held' = held
      BY <2>4 DEF Onward, Nothing
    <2> QED BY <2>4, <2>6, <2>7 DEF Striking, Pausing, Event, PS2_SampleKeymod
  <1>2. CASE Counting({"PAUSE"}, 8)
    <2>1. PausePress
      BY <1>2, ByteOf, DecodeSwallows DEF Counting
    <2>2. Swallow(8 - 1, <<Event(PAUSE, TRUE, KeyStates), Event(PAUSE, FALSE, KeyStates)>>, KeyStates)
      BY <2>1 DEF PausePress
    <2>3. \/ Onward /\ Counting({"PAUSE"}, 8)'
          \/ /\ wire' = <<>> /\ Finished /\ KeyStates' = KeyStates /\ due' = <<>>
             /\ PushEvents(<<Event(PAUSE, TRUE, KeyStates), Event(PAUSE, FALSE, KeyStates)>>)
      BY <1>2, <2>2, CountingByte
    <2>4. /\ <<Event(PAUSE, TRUE, KeyStates), Event(PAUSE, FALSE, KeyStates)>> = due
          /\ KeyStates = held /\ held' = held
      BY DEF Striking, PS2_KeyboardInterrupt
    <2>5. CASE Onward /\ Counting({"PAUSE"}, 8)'
      <3>1. KeyStates' = KeyStates /\ due' = due /\ held' = held
        BY <2>5 DEF Onward, Nothing
      <3> QED BY <2>5, <3>1 DEF Striking, Pausing, Event, PS2_SampleKeymod
    <2> QED BY <2>3, <2>4, <2>5 DEF Delivered, Idle, At, Finished
  <1> QED BY <1>1, <1>2 DEF Striking, Pausing

(* Every byte leads the decoder on or delivers what is due. *)
LEMMA DecodingByte ==
  ASSUME KeyboardAssumption, Decoding, PS2_KeyboardInterrupt
  PROVE  /\ wire # <<>> /\ held' = held
         /\ (Onward /\ Decoding') \/ Delivered
  <1>1. ~Idle
    BY DEF Idle, At, PS2_KeyboardInterrupt
  <1>2. CASE Striking
    BY <1>2, StrikingByte DEF Decoding, PS2_KeyboardInterrupt
  <1>3. CASE \E k \in Keys : Making(k) \/ Breaking(k)
    <2>1. PICK k \in Keys : Making(k) \/ Breaking(k)
      BY <1>3
    <2> QED BY <2>1, MakingByte, BreakingByte DEF Decoding, PS2_KeyboardInterrupt
  <1> QED BY <1>1, <1>2, <1>3 DEF Decoding
-----------------------------------------------------------------------------
(* The ring *)

Contents(r, h, n) == [j \in 1..n |-> r[(h + j - 1) % MAX_KEYBOARD_EVENTS]]

Wrapped(x) == IF x < MAX_KEYBOARD_EVENTS THEN x ELSE x - MAX_KEYBOARD_EVENTS

LEMMA WrapAround ==
  ASSUME KeyboardAssumption, NEW x \in 0..(2 * MAX_KEYBOARD_EVENTS - 1)
  PROVE  x % MAX_KEYBOARD_EVENTS = Wrapped(x)
  BY DEF KeyboardAssumption, Wrapped

LEMMA BumpWraps ==
  ASSUME KeyboardAssumption, NEW h \in Slots, NEW n \in 0..MAX_KEYBOARD_EVENTS
  PROVE  /\ Bump(h) \in Slots
         /\ Bump(h) = (h + 1) % MAX_KEYBOARD_EVENTS
         /\ n < MAX_KEYBOARD_EVENTS =>
              Bump((h + n) % MAX_KEYBOARD_EVENTS) = (h + (n + 1)) % MAX_KEYBOARD_EVENTS
         /\ n > 0 => (Bump(h) + (n - 1)) % MAX_KEYBOARD_EVENTS = (h + n) % MAX_KEYBOARD_EVENTS
         /\ (h + n) % MAX_KEYBOARD_EVENTS \in Slots
  <1>1. h \in Nat /\ h < MAX_KEYBOARD_EVENTS /\ n \in Nat /\ n <= MAX_KEYBOARD_EVENTS
        /\ MAX_KEYBOARD_EVENTS \in Nat /\ MAX_KEYBOARD_EVENTS >= 2
    BY DEF Slots, KeyboardAssumption
  <1>2. Bump(h) \in Slots
    BY <1>1 DEF Slots, Bump
  <1>3. (h + 1) % MAX_KEYBOARD_EVENTS = Bump(h)
    <2> PICK x : x = h + 1
      OBVIOUS
    <2>1. x \in 0..(2 * MAX_KEYBOARD_EVENTS - 1)
      BY <1>1
    <2>2. x % MAX_KEYBOARD_EVENTS = Wrapped(x)
      BY <2>1, WrapAround, Zenon
    <2> QED BY <1>1, <2>2 DEF Bump, Wrapped
  <1>4. (h + n) % MAX_KEYBOARD_EVENTS
          = IF h + n < MAX_KEYBOARD_EVENTS THEN h + n ELSE h + n - MAX_KEYBOARD_EVENTS
    <2> PICK x : x = h + n
      OBVIOUS
    <2>1. x \in 0..(2 * MAX_KEYBOARD_EVENTS - 1)
      BY <1>1
    <2>2. x % MAX_KEYBOARD_EVENTS = Wrapped(x)
      BY <2>1, WrapAround, Zenon
    <2> QED BY <1>1, <2>2 DEF Wrapped
  <1>5. n < MAX_KEYBOARD_EVENTS =>
          (h + (n + 1)) % MAX_KEYBOARD_EVENTS
          = IF h + (n + 1) < MAX_KEYBOARD_EVENTS THEN h + (n + 1) ELSE h + (n + 1) - MAX_KEYBOARD_EVENTS
    <2> PICK x : x = h + (n + 1)
      OBVIOUS
    <2>1. n < MAX_KEYBOARD_EVENTS => x \in 0..(2 * MAX_KEYBOARD_EVENTS - 1)
      BY <1>1
    <2>2. n < MAX_KEYBOARD_EVENTS => x % MAX_KEYBOARD_EVENTS = Wrapped(x)
      BY <2>1, WrapAround, Zenon
    <2> QED BY <1>1, <2>2 DEF Wrapped
  <1>6. n > 0 => (Bump(h) + (n - 1)) % MAX_KEYBOARD_EVENTS
          = IF Bump(h) + (n - 1) < MAX_KEYBOARD_EVENTS THEN Bump(h) + (n - 1)
            ELSE Bump(h) + (n - 1) - MAX_KEYBOARD_EVENTS
    <2> DEFINE x == Bump(h) + (n - 1)
    <2>1. n > 0 => x \in 0..(2 * MAX_KEYBOARD_EVENTS - 1)
      BY <1>1, <1>2 DEF Slots
    <2> HIDE DEF x
    <2>2. n > 0 => x % MAX_KEYBOARD_EVENTS = Wrapped(x)
      BY <2>1, WrapAround, Zenon
    <2> QED BY <2>2, <1>1, <1>2 DEF x, Slots, Wrapped
  <1>7. n < MAX_KEYBOARD_EVENTS =>
          Bump((h + n) % MAX_KEYBOARD_EVENTS) = (h + (n + 1)) % MAX_KEYBOARD_EVENTS
    BY <1>1, <1>4, <1>5 DEF Bump
  <1>8. n > 0 => (Bump(h) + (n - 1)) % MAX_KEYBOARD_EVENTS = (h + n) % MAX_KEYBOARD_EVENTS
    BY <1>1, <1>4, <1>6 DEF Bump
  <1>9. (h + n) % MAX_KEYBOARD_EVENTS \in Slots
    BY <1>1, <1>4 DEF Slots
  <1> QED BY <1>2, <1>3, <1>7, <1>8, <1>9

LEMMA ContentsIsSeq ==
  ASSUME KeyboardAssumption, NEW r \in [Slots -> Events], NEW h \in Slots,
         NEW n \in 0..MAX_KEYBOARD_EVENTS
  PROVE  Contents(r, h, n) \in Seq(Events) /\ Len(Contents(r, h, n)) = n
  <1>1. MAX_KEYBOARD_EVENTS \in Nat /\ h \in Nat /\ h < MAX_KEYBOARD_EVENTS /\ n \in Nat
        /\ n <= MAX_KEYBOARD_EVENTS
    BY DEF Slots, KeyboardAssumption
  <1>2. \A j \in 1..n : (h + j - 1) % MAX_KEYBOARD_EVENTS \in Slots
    BY <1>1 DEF Slots
  <1>3. \A j \in 1..n : r[(h + j - 1) % MAX_KEYBOARD_EVENTS] \in Events
    BY <1>2
  <1> QED BY <1>1, <1>3 DEF Contents

LEMMA ContentsPush ==
  ASSUME KeyboardAssumption, NEW r \in [Slots -> Events], NEW h \in Slots,
         NEW n \in 0..(MAX_KEYBOARD_EVENTS - 1), NEW e \in Events
  PROVE  Contents([r EXCEPT ![(h + n) % MAX_KEYBOARD_EVENTS] = e], h, n + 1)
         = Append(Contents(r, h, n), e)
  <1> DEFINE M == MAX_KEYBOARD_EVENTS
             t == (h + n) % M
             r2 == [r EXCEPT ![t] = e]
             old == Contents(r, h, n)
             new == Contents(r2, h, n + 1)
  <1>1. M \in Nat /\ h \in Nat /\ h < M /\ n \in Nat /\ n < M
    BY DEF Slots, KeyboardAssumption
  <1>2. \A j \in 1..(n + 1) : (h + j - 1) % M = IF h + j - 1 < M THEN h + j - 1 ELSE h + j - 1 - M
    <2> SUFFICES ASSUME NEW j \in 1..(n + 1)
                 PROVE  (h + j - 1) % M = IF h + j - 1 < M THEN h + j - 1 ELSE h + j - 1 - M
      OBVIOUS
    <2> PICK x : x = h + j - 1
      OBVIOUS
    <2>1. x \in 0..(2 * M - 1)
      BY <1>1
    <2>2. x % M = Wrapped(x)
      BY <2>1, WrapAround, Zenon
    <2> QED BY <1>1, <2>2 DEF Wrapped
  <1>3. t = (h + (n + 1) - 1) % M /\ t \in Slots
    <2>1. h + (n + 1) - 1 = h + n
      BY <1>1
    <2>2. n \in 0..MAX_KEYBOARD_EVENTS
      BY <1>1
    <2> QED BY <2>1, <2>2, BumpWraps
  <1>4. \A j \in 1..(n + 1) : (h + j - 1) % M \in Slots
    BY <1>1, <1>2 DEF Slots
  <1>5. \A j \in 1..n : (h + j - 1) % M # t
    <2>1. t = IF h + n < M THEN h + n ELSE h + n - M
      <3> PICK x : x = h + n
        OBVIOUS
      <3>1. x \in 0..(2 * M - 1)
        BY <1>1
      <3>2. x % M = Wrapped(x)
        BY <3>1, WrapAround, Zenon
      <3> QED BY <1>1, <3>2 DEF Wrapped
    <2> QED BY <1>1, <1>2, <2>1
  <1>6. old \in Seq(Events) /\ Len(old) = n
    BY <1>1, ContentsIsSeq
  <1>7. new \in Seq(Events) /\ Len(new) = n + 1
    <2>1. r2 \in [Slots -> Events]
      BY <1>3
    <2>2. n + 1 \in 0..MAX_KEYBOARD_EVENTS
      BY <1>1
    <2> HIDE DEF r2
    <2> QED BY <2>1, <2>2, ContentsIsSeq
  <1>8. \A j \in 1..n : new[j] = old[j]
    BY <1>1, <1>4, <1>5 DEF Contents
  <1>9. new[n + 1] = e
    BY <1>1, <1>3 DEF Contents
  <1> HIDE DEF M, t, r2, old, new
  <1>10. /\ Append(old, e) \in Seq(Events) /\ Len(Append(old, e)) = n + 1
         /\ \A j \in 1..n : Append(old, e)[j] = old[j]
         /\ Append(old, e)[n + 1] = e
    BY <1>1, <1>6
  <1>11. \A j \in 1..(n + 1) : new[j] = Append(old, e)[j]
    BY <1>1, <1>8, <1>9, <1>10
  <1>12. new = Append(old, e)
    BY <1>7, <1>10, <1>11, SeqEqual
  <1> QED BY <1>12 DEF M, t, r2, old, new

LEMMA ContentsTail ==
  ASSUME KeyboardAssumption, NEW r \in [Slots -> Events], NEW h \in Slots,
         NEW n \in 1..MAX_KEYBOARD_EVENTS
  PROVE  /\ Contents(r, h, n) \in Seq(Events) /\ Contents(r, h, n) # <<>>
         /\ Contents(r, Bump(h), n - 1) = Tail(Contents(r, h, n))
  <1> DEFINE M == MAX_KEYBOARD_EVENTS
             b == Bump(h)
             old == Contents(r, h, n)
             new == Contents(r, b, n - 1)
  <1>1. M \in Nat /\ h \in Nat /\ h < M /\ n \in Nat /\ n <= M /\ n >= 1 /\ b \in Nat /\ b < M
        /\ b = IF h + 1 >= M THEN 0 ELSE h + 1
    BY DEF Slots, KeyboardAssumption, Bump
  <1>2. \A j \in 1..n : /\ (h + j - 1) % M = IF h + j - 1 < M THEN h + j - 1 ELSE h + j - 1 - M
                        /\ (h + j - 1) % M \in Slots
    <2> SUFFICES ASSUME NEW j \in 1..n
                 PROVE  /\ (h + j - 1) % M = IF h + j - 1 < M THEN h + j - 1 ELSE h + j - 1 - M
                        /\ (h + j - 1) % M \in Slots
      OBVIOUS
    <2> PICK x : x = h + j - 1
      OBVIOUS
    <2>1. x \in 0..(2 * M - 1) /\ x % M = Wrapped(x)
      <3>1. x \in 0..(2 * M - 1)
        BY <1>1
      <3> QED BY <3>1, WrapAround, Zenon
    <2>2. (h + j - 1) % M = IF h + j - 1 < M THEN h + j - 1 ELSE h + j - 1 - M
      BY <1>1, <2>1 DEF Wrapped
    <2> QED BY <1>1, <2>2 DEF Slots
  <1>3. \A j \in 1..(n - 1) : (b + j - 1) % M = (h + (j + 1) - 1) % M
    <2> SUFFICES ASSUME NEW j \in 1..(n - 1)
                 PROVE  (b + j - 1) % M = (h + (j + 1) - 1) % M
      OBVIOUS
    <2> HIDE DEF b
    <2> PICK x : x = b + j - 1
      OBVIOUS
    <2>1. x \in 0..(2 * M - 1) /\ x % M = Wrapped(x)
      <3>1. x \in 0..(2 * M - 1)
        BY <1>1
      <3> QED BY <3>1, WrapAround, Zenon
    <2>2. (b + j - 1) % M = IF b + j - 1 < M THEN b + j - 1 ELSE b + j - 1 - M
      BY <1>1, <2>1 DEF Wrapped
    <2>3. j + 1 \in 1..n
      BY <1>1
    <2>4. (h + (j + 1) - 1) % M = IF h + (j + 1) - 1 < M THEN h + (j + 1) - 1 ELSE h + (j + 1) - 1 - M
      BY <1>2, <2>3
    <2> QED BY <1>1, <2>2, <2>4
  <1>4. old \in Seq(Events) /\ Len(old) = n
    BY <1>1, ContentsIsSeq
  <1> HIDE DEF b
  <1>5. \A j \in 1..(n - 1) : r[(b + j - 1) % M] = r[(h + (j + 1) - 1) % M]
    BY <1>3
  <1>6. \A j \in 1..(n - 1) : j + 1 \in 1..n /\ old[j + 1] = r[(h + (j + 1) - 1) % M]
    BY <1>1 DEF Contents
  <1>7. \A j \in 1..(n - 1) : new[j] = old[j + 1]
    BY <1>5, <1>6 DEF Contents
  <1>8. new \in Seq(Events) /\ Len(new) = n - 1
    <2>1. b \in Slots /\ n - 1 \in 0..MAX_KEYBOARD_EVENTS
      BY <1>1 DEF Slots
    <2> QED BY <2>1, ContentsIsSeq
  <1> HIDE DEF M, old, new
  <1>9. old # <<>>
    BY <1>1, <1>4
  <1>10. /\ Tail(old) \in Seq(Events) /\ Len(Tail(old)) = n - 1
         /\ \A j \in 1..(n - 1) : Tail(old)[j] = old[j + 1]
    BY <1>1, <1>4, <1>9
  <1>11. \A j \in 1..(n - 1) : new[j] = Tail(old)[j]
    BY <1>7, <1>10
  <1>12. new = Tail(old)
    BY <1>8, <1>10, <1>11, SeqEqual
  <1> QED BY <1>4, <1>9, <1>12 DEF M, b, old, new
-----------------------------------------------------------------------------
(* Pushing what is due *)

LEMMA PushOne ==
  ASSUME NEW e, PushEvents(<<e>>)
  PROVE  /\ ring' = [ring EXCEPT ![KeyevTailidx] = e]
         /\ KeyevTailidx' = Bump(KeyevTailidx)
         /\ KeyevCount' = MACROMIN(MAX_KEYBOARD_EVENTS, KeyevCount + 1)
  BY DEF PushEvents, HiPushKeyboardEvent, PushState

LEMMA PushTwo ==
  ASSUME NEW e, NEW f, PushEvents(<<e, f>>)
  PROVE  /\ ring' = [[ring EXCEPT ![KeyevTailidx] = e] EXCEPT ![Bump(KeyevTailidx)] = f]
         /\ KeyevTailidx' = Bump(Bump(KeyevTailidx))
         /\ KeyevCount' = MACROMIN(MAX_KEYBOARD_EVENTS, MACROMIN(MAX_KEYBOARD_EVENTS, KeyevCount + 1) + 1)
  BY DEF PushEvents, HiPushKeyboardEvent, PushState

(* One report is due, two for Pause. *)
LEMMA DueReports ==
  ASSUME Decoding
  PROVE  \/ Idle
         \/ wire # <<>> /\ \E e \in Events : due = <<e>>
         \/ wire # <<>> /\ \E e, f \in Events : due = <<e, f>>
  <1>1. CASE Striking
    <2>1. wire # <<>>
      BY <1>1 DEF Striking, Pausing, At, Counting, PauseCode
    <2>2. Event(PAUSE, TRUE, held) \in Events /\ Event(PAUSE, FALSE, held) \in Events
      BY EventIsEvent
    <2> QED BY <1>1, <2>1, <2>2 DEF Striking
  <1>2. ASSUME NEW k \in Keys, Making(k)
        PROVE  wire # <<>> /\ \E e \in Events : due = <<e>>
    <2>1. wire # <<>>
      <3>1. PressingPrintScreen => wire # <<>>
        BY DEF PressingPrintScreen, At, Counting
      <3>2. \A c : PressingExtended(c) \/ PressingStandard(c) => wire # <<>>
        BY DEF PressingExtended, PressingStandard, At
      <3> QED BY <1>2, <3>1, <3>2 DEF Making, Pressing
    <2>2. Event(k, TRUE, held) \in Events
      BY EventIsEvent
    <2> QED BY <1>2, <2>1, <2>2 DEF Making
  <1>3. ASSUME NEW k \in Keys, Breaking(k)
        PROVE  wire # <<>> /\ \E e \in Events : due = <<e>>
    <2>1. wire # <<>>
      <3>1. ReleasingPrintScreen => wire # <<>>
        <4>1. /\ <<224, 240, 124, 224, 240, 18>> # <<>>
              /\ <<240, 124, 224, 240, 18>> # <<>> /\ <<124, 224, 240, 18>> # <<>>
          OBVIOUS
        <4> QED BY <4>1, Zenon DEF ReleasingPrintScreen, At, Counting
      <3>2. \A c : ReleasingExtended(c) \/ ReleasingStandard(c) => wire # <<>>
        BY DEF ReleasingExtended, ReleasingStandard, At
      <3> QED BY <1>3, <3>1, <3>2 DEF Breaking, Releasing
    <2>2. Event(k, FALSE, held) \in Events
      BY EventIsEvent
    <2> QED BY <1>3, <2>1, <2>2 DEF Breaking
  <1> QED BY <1>1, <1>2, <1>3 DEF Decoding

LEMMA UnreadFits ==
  ASSUME KeyboardAssumption, TypeOK, PopFindsAnEvent
  PROVE  Unread \in 0..MAX_KEYBOARD_EVENTS /\ Unread <= KeyevCount
  BY DEF KeyboardAssumption, TypeOK, PopFindsAnEvent, Unread

(* What is due lands behind what waits. *)
LandsBehind ==
  /\ KeyevCount' = KeyevCount + Len(due)
  /\ KeyevTailidx' = (KeyevHeadidx + (Unread + Len(due))) % MAX_KEYBOARD_EVENTS
  /\ Contents(ring', KeyevHeadidx, Unread + Len(due)) = Contents(ring, KeyevHeadidx, Unread) \o due

RingTypeOK == /\ ring \in [Slots -> Events] /\ KeyevTailidx \in Slots
              /\ KeyevCount \in 0..MAX_KEYBOARD_EVENTS

LEMMA OneLands ==
  ASSUME KeyboardAssumption, KeyIInv, NEW e \in Events, due = <<e>>, PushEvents(due)
  PROVE  RingTypeOK' /\ KeyevCount' >= 1 /\ (typist.paced => LandsBehind)
  <1>1. /\ ring' = [ring EXCEPT ![KeyevTailidx] = e]
        /\ KeyevTailidx' = Bump(KeyevTailidx)
        /\ KeyevCount' = MACROMIN(MAX_KEYBOARD_EVENTS, KeyevCount + 1)
    BY PushOne
  <1>2. /\ ring \in [Slots -> Events] /\ KeyevTailidx \in Slots /\ KeyevHeadidx \in Slots
        /\ KeyevCount \in Nat /\ KeyevCount <= MAX_KEYBOARD_EVENTS
        /\ MAX_KEYBOARD_EVENTS \in Nat /\ MAX_KEYBOARD_EVENTS >= 2
    BY DEF KeyIInv, TypeOK, KeyboardAssumption
  <1>3. Unread \in Nat /\ Unread <= KeyevCount
    BY <1>2, UnreadFits DEF KeyIInv
  <1>4. Bump(KeyevTailidx) \in Slots
    BY <1>2 DEF Bump, Slots
  <1>5. KeyevCount' \in 0..MAX_KEYBOARD_EVENTS /\ KeyevCount' >= 1
    BY <1>1, <1>2 DEF MACROMIN
  <1>6. RingTypeOK'
    BY <1>1, <1>2, <1>4, <1>5 DEF RingTypeOK
  <1>7. ASSUME typist.paced
        PROVE  LandsBehind
    <2>1. Len(due) = 1
      OBVIOUS
    <2>2. KeyevCount + 1 <= MAX_KEYBOARD_EVENTS
          /\ KeyevTailidx = (KeyevHeadidx + Unread) % MAX_KEYBOARD_EVENTS
      BY <1>7, <2>1 DEF KeyIInv, RingHasRoom
    <2>3. Unread \in 0..(MAX_KEYBOARD_EVENTS - 1) /\ Unread \in 0..MAX_KEYBOARD_EVENTS
          /\ Unread < MAX_KEYBOARD_EVENTS
      BY <1>2, <1>3, <2>2
    <2>4. KeyevCount' = KeyevCount + 1
      BY <1>1, <1>2, <2>2 DEF MACROMIN
    <2>5. KeyevTailidx' = (KeyevHeadidx + (Unread + 1)) % MAX_KEYBOARD_EVENTS
      BY <1>1, <1>2, <2>2, <2>3, BumpWraps
    <2>6. Contents(ring', KeyevHeadidx, Unread + 1) = Append(Contents(ring, KeyevHeadidx, Unread), e)
      BY <1>1, <1>2, <2>2, <2>3, ContentsPush
    <2>7. Contents(ring, KeyevHeadidx, Unread) \in Seq(Events)
      BY <1>2, <2>3, ContentsIsSeq
    <2>8. Append(Contents(ring, KeyevHeadidx, Unread), e) = Contents(ring, KeyevHeadidx, Unread) \o <<e>>
      BY <2>7, AppendIsConcat
    <2> QED BY <2>1, <2>4, <2>5, <2>6, <2>8 DEF LandsBehind
  <1> QED BY <1>5, <1>6, <1>7

LEMMA TwoLand ==
  ASSUME KeyboardAssumption, KeyIInv, NEW e \in Events, NEW f \in Events, due = <<e, f>>,
         PushEvents(due)
  PROVE  RingTypeOK' /\ KeyevCount' >= 1 /\ (typist.paced => LandsBehind)
  <1> DEFINE mid == [ring EXCEPT ![KeyevTailidx] = e]
             n == Unread
  <1>1. /\ ring' = [mid EXCEPT ![Bump(KeyevTailidx)] = f]
        /\ KeyevTailidx' = Bump(Bump(KeyevTailidx))
        /\ KeyevCount' = MACROMIN(MAX_KEYBOARD_EVENTS, MACROMIN(MAX_KEYBOARD_EVENTS, KeyevCount + 1) + 1)
    BY PushTwo
  <1>2. /\ ring \in [Slots -> Events] /\ KeyevTailidx \in Slots /\ KeyevHeadidx \in Slots
        /\ KeyevCount \in Nat /\ KeyevCount <= MAX_KEYBOARD_EVENTS
        /\ MAX_KEYBOARD_EVENTS \in Nat /\ MAX_KEYBOARD_EVENTS >= 2
    BY DEF KeyIInv, TypeOK, KeyboardAssumption
  <1>3. n \in Nat /\ n <= KeyevCount
    BY <1>2, UnreadFits DEF KeyIInv
  <1>4. Bump(KeyevTailidx) \in Slots /\ Bump(Bump(KeyevTailidx)) \in Slots
    BY <1>2 DEF Bump, Slots
  <1>5. KeyevCount' \in 0..MAX_KEYBOARD_EVENTS /\ KeyevCount' >= 1
    BY <1>1, <1>2 DEF MACROMIN
  <1>6. mid \in [Slots -> Events]
    BY <1>2
  <1>7. RingTypeOK'
    BY <1>1, <1>4, <1>5, <1>6 DEF RingTypeOK
  <1>8. ASSUME typist.paced
        PROVE  LandsBehind
    <2>1. Len(due) = 2
      OBVIOUS
    <2>2. KeyevCount + 2 <= MAX_KEYBOARD_EVENTS
          /\ KeyevTailidx = (KeyevHeadidx + n) % MAX_KEYBOARD_EVENTS
      BY <1>8, <2>1 DEF KeyIInv, RingHasRoom
    <2> HIDE DEF n
    <2>3. /\ n \in 0..(MAX_KEYBOARD_EVENTS - 1) /\ n \in 0..MAX_KEYBOARD_EVENTS /\ n < MAX_KEYBOARD_EVENTS
          /\ n + 1 \in 0..(MAX_KEYBOARD_EVENTS - 1) /\ n + 1 \in 0..MAX_KEYBOARD_EVENTS
          /\ n + 1 < MAX_KEYBOARD_EVENTS
      BY <1>2, <1>3, <2>2
    <2>4. KeyevCount' = KeyevCount + 2
      BY <1>1, <1>2, <2>2 DEF MACROMIN
    <2>5. Bump(KeyevTailidx) = (KeyevHeadidx + (n + 1)) % MAX_KEYBOARD_EVENTS
      BY <1>2, <2>2, <2>3, BumpWraps
    <2>6. KeyevTailidx' = (KeyevHeadidx + ((n + 1) + 1)) % MAX_KEYBOARD_EVENTS
      BY <1>1, <1>2, <2>5, <2>3, BumpWraps
    <2>7. Contents(mid, KeyevHeadidx, n + 1) = Append(Contents(ring, KeyevHeadidx, n), e)
      BY <1>2, <2>2, <2>3, ContentsPush
    <2> HIDE DEF mid
    <2>8. Contents(ring', KeyevHeadidx, (n + 1) + 1) = Append(Contents(mid, KeyevHeadidx, n + 1), f)
      <3>1. ring' = [mid EXCEPT ![(KeyevHeadidx + (n + 1)) % MAX_KEYBOARD_EVENTS] = f]
        BY <1>1, <2>5
      <3> QED BY <3>1, <1>2, <1>6, <2>3, ContentsPush
    <2>9. Contents(ring, KeyevHeadidx, n) \in Seq(Events)
      BY <1>2, <2>3, ContentsIsSeq
    <2>10. (n + 1) + 1 = n + 2
      BY <1>3
    <2>11. Contents(ring', KeyevHeadidx, n + 2) = Contents(ring, KeyevHeadidx, n) \o <<e, f>>
      <3> DEFINE s == Contents(ring, KeyevHeadidx, n)
      <3>1. Contents(ring', KeyevHeadidx, n + 2) = Append(Append(s, e), f)
        BY <2>7, <2>8, <2>10
      <3>2. s \in Seq(Events)
        BY <2>9
      <3> HIDE DEF s
      <3>3. Append(Append(s, e), f) = s \o <<e, f>>
        BY <3>2
      <3> QED BY <3>1, <3>3 DEF s
    <2>12. KeyevTailidx' = (KeyevHeadidx + (n + 2)) % MAX_KEYBOARD_EVENTS
      BY <2>6, <2>10
    <2> QED BY <2>1, <2>4, <2>11, <2>12 DEF LandsBehind, n
  <1> QED BY <1>5, <1>7, <1>8
-----------------------------------------------------------------------------
(* The invariant is preserved *)

LEMMA KeyInitIInv ==
  ASSUME KeyboardAssumption
  PROVE  Init => KeyIInv
  <1> SUFFICES ASSUME Init
               PROVE  KeyIInv
    OBVIOUS
  <1>1. TypistOK
    BY DEF Init, KeyboardAssumption, TypistOK
  <1>2. NoEvent \in Events
    <2>1. Mods({}) \in SUBSET {"CTRL", "ALT", "SHIFT"}
      BY DEF Mods
    <2>2. NoEvent.key = <<FALSE, 0>>
      BY DEF NoEvent, Event
    <2> QED BY <2>1, <2>2 DEF NoEvent, Event, PS2_SampleKeymod, Events
  <1>3. ring \in [Slots -> Events]
    BY <1>2 DEF Init
  <1>4. TypeOK
    BY <1>3 DEF Init, TypeOK, Slots, KeyboardAssumption
  <1>5. Decoding
    BY DEF Init, Decoding, Idle, At
  <1>6. PopFindsAnEvent
    BY DEF Init, PopFindsAnEvent
  <1>7. RingHasRoom
    <2>1. Len(<<>>) = 0 /\ (0 + 0) % MAX_KEYBOARD_EVENTS = 0
      BY DEF KeyboardAssumption
    <2> QED BY <2>1 DEF Init, RingHasRoom, Unread, KeyboardAssumption
  <1> QED BY <1>1, <1>4, <1>5, <1>6, <1>7 DEF KeyIInv

(* The keyboard acts only between two sequences, and leaves the kernel be. *)
Undisturbed ==
  /\ typist' = typist /\ Listen' = Listen /\ ListenIdx' = ListenIdx /\ KeyStates' = KeyStates
  /\ ring' = ring /\ KeyevHeadidx' = KeyevHeadidx /\ KeyevTailidx' = KeyevTailidx
  /\ KeyevCount' = KeyevCount /\ pc' = pc

LEMMA ActsWhenIdle ==
  ASSUME KeyIInv, MayAct
  PROVE  Idle
  BY DueReports DEF KeyIInv, MayAct

LEMMA ActStep ==
  ASSUME KeyboardAssumption, KeyIInv, MayAct, Undisturbed, held' \subseteq Keys, Decoding',
         Len(due') \in {1, 2}
  PROVE  KeyIInv'
  <1>1. TypistOK'
    BY DEF KeyIInv, TypistOK, Undisturbed
  <1>2. TypeOK'
    BY DEF KeyIInv, TypeOK, Undisturbed
  <1>3. PopFindsAnEvent'
    BY DEF KeyIInv, PopFindsAnEvent, Undisturbed
  <1>4. RingHasRoom'
    <2>1. KeyevCount \in Nat /\ MAX_KEYBOARD_EVENTS \in Nat
      BY DEF KeyIInv, TypeOK, KeyboardAssumption
    <2>2. typist.paced => KeyevCount + Len(due') <= MAX_KEYBOARD_EVENTS
      <3>1. typist.paced => KeyevCount + 2 <= MAX_KEYBOARD_EVENTS
        BY DEF MayAct
      <3>2. \A m \in {1, 2} : KeyevCount + 2 <= MAX_KEYBOARD_EVENTS => KeyevCount + m <= MAX_KEYBOARD_EVENTS
        BY <2>1
      <3> QED BY <3>1, <3>2, Zenon
    <2>3. Unread' = Unread
      BY DEF Undisturbed, Unread
    <2> QED BY <2>2, <2>3 DEF KeyIInv, RingHasRoom, Undisturbed
  <1> QED BY <1>1, <1>2, <1>3, <1>4 DEF KeyIInv

LEMMA PressStep ==
  ASSUME KeyboardAssumption, KeyIInv, NEW k \in typist.keys, Press(k)
  PROVE  KeyIInv' /\ Undisturbed /\ due = <<>> /\ k \in Keys
  <1>1. MayAct /\ Undisturbed
    BY DEF Press, Undisturbed, driver
  <1>2. Idle
    BY <1>1, ActsWhenIdle
  <1>3. k \in Keys /\ held \subseteq Keys
    BY DEF KeyIInv, TypistOK
  <1>4. held' = KeyStates' \cup {k} /\ due' = <<Event(k, TRUE, held')>> /\ held' \subseteq Keys
    BY <1>1, <1>2, <1>3 DEF Press, Idle, Undisturbed
  <1>5. Listen' = {} /\ ListenIdx' = 0 /\ wire' = MakeCode(k)
    BY <1>1, <1>2 DEF Press, Idle, At, Undisturbed
  <1>6. Pressing(k)'
    <2>1. CASE k = PRINT_SCREEN
      BY <1>5, <2>1 DEF MakeCode, Pressing, PressingPrintScreen, At
    <2>2. ASSUME NEW c \in Codes, k = <<TRUE, c>>
          PROVE  Pressing(k)'
      <3>1. k[1] = TRUE /\ k[2] = c /\ k # PRINT_SCREEN
        BY <2>2 DEF PRINT_SCREEN
      <3>2. wire' = <<224, c>>
        BY <1>5, <3>1 DEF MakeCode, XSCANCODE
      <3> QED BY <1>5, <2>2, <3>2 DEF Pressing, PressingExtended, At
    <2>3. ASSUME NEW c \in Codes, k = <<FALSE, c>>
          PROVE  Pressing(k)'
      <3>1. k[1] = FALSE /\ k[2] = c /\ k # PRINT_SCREEN
        BY <2>3 DEF PRINT_SCREEN, Codes
      <3>2. wire' = <<c>>
        BY <1>5, <3>1 DEF MakeCode
      <3> QED BY <1>5, <2>3, <3>2 DEF Pressing, PressingStandard, At
    <2> QED BY <1>3, <2>1, <2>2, <2>3, KeyKinds
  <1>7. Decoding'
    BY <1>3, <1>4, <1>6 DEF Decoding, Making, Event, PS2_SampleKeymod
  <1>8. Len(due') \in {1, 2}
    BY <1>4
  <1> QED BY <1>1, <1>2, <1>3, <1>4, <1>7, <1>8, ActStep DEF Idle

LEMMA ReleaseStep ==
  ASSUME KeyboardAssumption, KeyIInv, NEW k \in typist.keys, Release(k)
  PROVE  KeyIInv' /\ Undisturbed /\ due = <<>> /\ k \in Keys
  <1>1. MayAct /\ Undisturbed
    BY DEF Release, Undisturbed, driver
  <1>2. Idle
    BY <1>1, ActsWhenIdle
  <1>3. k \in Keys /\ held \subseteq Keys
    BY DEF KeyIInv, TypistOK
  <1>4. held' = KeyStates' \ {k} /\ due' = <<Event(k, FALSE, held')>> /\ held' \subseteq Keys
    BY <1>1, <1>2, <1>3 DEF Release, Idle, Undisturbed
  <1>5. Listen' = {} /\ ListenIdx' = 0 /\ wire' = BreakCode(k)
    BY <1>1, <1>2 DEF Release, Idle, At, Undisturbed
  <1>6. Releasing(k)'
    <2>1. CASE k = PRINT_SCREEN
      BY <1>5, <2>1 DEF BreakCode, Releasing, ReleasingPrintScreen, At
    <2>2. ASSUME NEW c \in Codes, k = <<TRUE, c>>
          PROVE  Releasing(k)'
      <3>1. k[1] = TRUE /\ k[2] = c /\ k # PRINT_SCREEN
        BY <2>2 DEF PRINT_SCREEN
      <3>2. wire' = <<224, 240, c>>
        BY <1>5, <3>1 DEF BreakCode, XSCANCODE, BREAK_PREFIX
      <3> QED BY <1>5, <2>2, <3>2 DEF Releasing, ReleasingExtended, At
    <2>3. ASSUME NEW c \in Codes, k = <<FALSE, c>>
          PROVE  Releasing(k)'
      <3>1. k[1] = FALSE /\ k[2] = c /\ k # PRINT_SCREEN
        BY <2>3 DEF PRINT_SCREEN, Codes
      <3>2. wire' = <<240, c>>
        BY <1>5, <3>1 DEF BreakCode, BREAK_PREFIX
      <3> QED BY <1>5, <2>3, <3>2 DEF Releasing, ReleasingStandard, At
    <2> QED BY <1>3, <2>1, <2>2, <2>3, KeyKinds
  <1>7. Decoding'
    BY <1>3, <1>4, <1>6 DEF Decoding, Breaking, Event, PS2_SampleKeymod
  <1>8. Len(due') \in {1, 2}
    BY <1>4
  <1> QED BY <1>1, <1>2, <1>3, <1>4, <1>7, <1>8, ActStep DEF Idle

LEMMA StrikeStep ==
  ASSUME KeyboardAssumption, KeyIInv, StrikePause
  PROVE  KeyIInv' /\ Undisturbed /\ due = <<>>
  <1>1. MayAct /\ Undisturbed
    BY DEF StrikePause, Undisturbed, driver
  <1>2. Idle
    BY <1>1, ActsWhenIdle
  <1>3. held' = held /\ held' \subseteq Keys
    BY DEF KeyIInv, TypistOK, StrikePause
  <1>4. Decoding'
    BY <1>1, <1>2 DEF StrikePause, Decoding, Striking, Pausing, At, Idle, Undisturbed, Event,
                      PS2_SampleKeymod, PauseCode
  <1>5. Len(due') \in {1, 2}
    BY DEF StrikePause
  <1> QED BY <1>1, <1>2, <1>3, <1>4, <1>5, ActStep DEF Idle

LEMMA CountingTypes ==
  ASSUME NEW flags, NEW n \in 0..8, Counting(flags, n)
  PROVE  Listen = flags /\ ListenIdx \in 0..7
  <1> DEFINE len == Len(wire)
  <1>1. len \in Nat /\ len # 0
    <2>1. wire \in Seq(Nat) /\ wire # <<>>
      BY DEF Counting
    <2> QED BY <2>1, EmptySeq
  <1>2. ListenIdx \in Nat /\ ListenIdx + len = n
    BY DEF Counting
  <1> HIDE DEF len
  <1>3. ListenIdx \in 0..7
    BY <1>1, <1>2
  <1> QED BY <1>3 DEF Counting

DecoderInRange == Listen \subseteq Flags /\ ListenIdx \in 0..7

LEMMA DecoderTypes == Decoding => DecoderInRange
  <1>1. \A flags \in SUBSET Flags : \A n \in 4..8 :
           Counting(flags, n) => Listen \subseteq Flags /\ ListenIdx \in 0..7
    BY CountingTypes
  <1>2. \A w : \A flags \in SUBSET Flags : \A n \in 0..2 :
           At(w, flags, n) => Listen \subseteq Flags /\ ListenIdx \in 0..7
    BY DEF At
  <1>3. /\ {} \in SUBSET Flags /\ {"EXTENDED"} \in SUBSET Flags /\ {"BROKEN"} \in SUBSET Flags
        /\ {"EXTENDED", "BROKEN"} \in SUBSET Flags /\ {"PAUSE"} \in SUBSET Flags
        /\ {"EXTENDED", "PRTSCAS"} \in SUBSET Flags
        /\ {"EXTENDED", "BROKEN", "PRTSCDEAS"} \in SUBSET Flags
    BY DEF Flags
  <1>4. 4 \in 4..8 /\ 6 \in 4..8 /\ 8 \in 4..8 /\ 0 \in 0..2 /\ 1 \in 0..2 /\ 2 \in 0..2
    OBVIOUS
  <1> DEFINE Right == Listen \subseteq Flags /\ ListenIdx \in 0..7
  <1> HIDE DEF Right
  <1>5. Idle => Right
    BY <1>2, <1>3, <1>4, Zenon DEF Idle, Right
  <1>6. Striking => Right
    BY <1>1, <1>2, <1>3, <1>4, Zenon DEF Striking, Pausing, Right
  <1>7. PressingPrintScreen => Right
    BY <1>1, <1>2, <1>3, <1>4, Zenon DEF PressingPrintScreen, Right
  <1>8. ReleasingPrintScreen => Right
    BY <1>1, <1>2, <1>3, <1>4, Zenon DEF ReleasingPrintScreen, Right
  <1>9. \A c : PressingExtended(c) \/ PressingStandard(c) => Right
    BY <1>2, <1>3, <1>4, Zenon DEF PressingExtended, PressingStandard, Right
  <1>10. \A c : ReleasingExtended(c) \/ ReleasingStandard(c) => Right
    BY <1>2, <1>3, <1>4, Zenon DEF ReleasingExtended, ReleasingStandard, Right
  <1>11. \A k : Making(k) => Right
    BY <1>7, <1>9, Zenon DEF Making, Pressing
  <1>12. \A k : Breaking(k) => Right
    BY <1>8, <1>10, Zenon DEF Breaking, Releasing
  <1>13. Decoding => Right
    BY <1>5, <1>6, <1>11, <1>12, Zenon DEF Decoding
  <1> QED BY <1>13 DEF Right, DecoderInRange

LEMMA AwakenSteps ==
  ASSUME Awaken, TypeOK
  PROVE  /\ pc' \in {"check", "halt", "halted", "while", "pop", "count"}
         /\ pc' \in {"pop", "count"} => pc' = pc
         /\ pc' = "count" <=> pc = "count"
  BY DEF Awaken, TypeOK

(* The last byte: what is due is now in the ring. *)
LEMMA DeliveredStep ==
  ASSUME KeyboardAssumption, KeyIInv, PS2_KeyboardInterrupt, Delivered
  PROVE  /\ RingTypeOK' /\ KeyevCount' >= 1
         /\ typist.paced => LandsBehind /\ Unread' = Unread + Len(due) /\ Len(due) \in Nat
  <1>1. RingTypeOK' /\ KeyevCount' >= 1 /\ (typist.paced => LandsBehind) /\ Len(due) \in Nat
    <2>1. ~Idle
      BY DEF Idle, At, PS2_KeyboardInterrupt
    <2>2. CASE \E e \in Events : due = <<e>>
      <3>1. PICK e \in Events : due = <<e>>
        BY <2>2
      <3>2. Len(due) \in Nat
        BY <3>1
      <3> QED BY <3>1, <3>2, OneLands DEF Delivered
    <2>3. CASE \E e, f \in Events : due = <<e, f>>
      <3>1. PICK e \in Events, f \in Events : due = <<e, f>>
        BY <2>3
      <3>2. Len(due) \in Nat
        BY <3>1
      <3> QED BY <3>1, <3>2, TwoLand DEF Delivered
    <2> QED BY <2>1, <2>2, <2>3, DueReports DEF KeyIInv
  <1>2. typist.paced => Unread' = Unread + Len(due)
    <2>1. pc' = "count" <=> pc = "count"
      BY AwakenSteps DEF KeyIInv, PS2_KeyboardInterrupt
    <2>2. typist.paced => KeyevCount' = KeyevCount + Len(due)
      BY <1>1 DEF LandsBehind
    <2>3. KeyevCount \in Nat /\ Len(due) \in Nat
      BY <1>1 DEF KeyIInv, TypeOK
    <2> QED BY <2>1, <2>2, <2>3 DEF Unread
  <1> QED BY <1>1, <1>2

LEMMA InterruptStep ==
  ASSUME KeyboardAssumption, KeyIInv, PS2_KeyboardInterrupt
  PROVE  KeyIInv'
  <1>1. /\ typist' = typist /\ held' = held /\ KeyevHeadidx' = KeyevHeadidx /\ Awaken
        /\ MAX_KEYBOARD_EVENTS \in Nat /\ KeyevCount \in Nat
    BY DEF PS2_KeyboardInterrupt, KeyboardAssumption, KeyIInv, TypeOK
  <1>2. /\ pc' \in {"check", "halt", "halted", "while", "pop", "count"}
        /\ pc' \in {"pop", "count"} => pc' = pc
        /\ pc' = "count" <=> pc = "count"
    BY <1>1, AwakenSteps DEF KeyIInv
  <1>3. TypistOK'
    BY <1>1 DEF KeyIInv, TypistOK
  <1>4. (Onward /\ Decoding') \/ Delivered
    BY DecodingByte DEF KeyIInv
  <1>5. Decoding'
    BY <1>4 DEF Delivered, Decoding
  <1>6. Listen' \subseteq Flags /\ ListenIdx' \in 0..7
    <2>1. DecoderInRange'
      BY <1>5, DecoderTypes, PTL
    <2> QED BY <2>1 DEF DecoderInRange
  <1>7. CASE Onward
    <2>1. KeyStates' = KeyStates /\ ring' = ring /\ KeyevTailidx' = KeyevTailidx
          /\ KeyevCount' = KeyevCount /\ due' = due
      BY <1>7 DEF Onward, Nothing
    <2>2. TypeOK'
      BY <1>1, <1>2, <1>6, <2>1 DEF KeyIInv, TypeOK
    <2>3. PopFindsAnEvent'
      BY <1>2, <2>1 DEF KeyIInv, PopFindsAnEvent
    <2>4. Unread' = Unread
      BY <1>2, <2>1 DEF Unread
    <2>5. RingHasRoom'
      BY <1>1, <2>1, <2>4 DEF KeyIInv, RingHasRoom
    <2> QED BY <1>3, <1>5, <2>2, <2>3, <2>5 DEF KeyIInv
  <1>8. CASE Delivered
    <2>1. /\ RingTypeOK' /\ KeyevCount' >= 1
          /\ typist.paced => LandsBehind /\ Unread' = Unread + Len(due) /\ Len(due) \in Nat
      BY <1>8, DeliveredStep
    <2>2. KeyStates' \subseteq Keys /\ due' = <<>>
      BY <1>1, <1>8 DEF Delivered, Idle, KeyIInv, TypistOK
    <2>3. TypeOK'
      BY <1>1, <1>2, <1>6, <2>1, <2>2 DEF KeyIInv, TypeOK, RingTypeOK
    <2>4. PopFindsAnEvent'
      BY <2>1 DEF PopFindsAnEvent
    <2>5. RingHasRoom'
      <3>1. Len(due') = 0
        BY <2>2
      <3>2. typist.paced => KeyevCount' + Len(due') <= MAX_KEYBOARD_EVENTS
        <4>1. KeyevCount' \in 0..MAX_KEYBOARD_EVENTS
          BY <2>1 DEF RingTypeOK
        <4>2. MAX_KEYBOARD_EVENTS \in Nat
          BY DEF KeyboardAssumption
        <4>3. \A m \in Nat : \A n \in 0..m : n + 0 <= m
          OBVIOUS
        <4> QED BY <3>1, <4>1, <4>2, <4>3, Zenon
      <3>3. typist.paced => KeyevTailidx' = (KeyevHeadidx' + Unread') % MAX_KEYBOARD_EVENTS
        BY <1>1, <2>1 DEF LandsBehind
      <3> QED BY <1>1, <3>2, <3>3 DEF RingHasRoom
    <2> QED BY <1>3, <1>5, <2>3, <2>4, <2>5 DEF KeyIInv
  <1> QED BY <1>4, <1>7, <1>8

LEMMA DecodingKept ==
  ASSUME Decoding, UNCHANGED <<driver, keyboard>>
  PROVE  Decoding'
  <1>1. /\ Listen' = Listen /\ ListenIdx' = ListenIdx /\ KeyStates' = KeyStates
        /\ wire' = wire /\ held' = held /\ due' = due
    BY DEF driver, keyboard
  <1>2. \A w, flags, n : At(w, flags, n)' <=> At(w, flags, n)
    BY <1>1 DEF At
  <1>3. \A flags, n : Counting(flags, n)' <=> Counting(flags, n)
    BY <1>1 DEF Counting
  <1>4. \A k : Pressing(k)' <=> Pressing(k)
    BY <1>2, <1>3, Zenon DEF Pressing, PressingPrintScreen, PressingExtended, PressingStandard
  <1>5. \A k : Releasing(k)' <=> Releasing(k)
    <2>1. ReleasingPrintScreen' <=> ReleasingPrintScreen
      BY <1>2, <1>3 DEF ReleasingPrintScreen
    <2>2. \A c : ReleasingExtended(c)' <=> ReleasingExtended(c)
      BY <1>2, Zenon DEF ReleasingExtended
    <2>3. \A c : ReleasingStandard(c)' <=> ReleasingStandard(c)
      BY <1>2, Zenon DEF ReleasingStandard
    <2> QED BY <2>1, <2>2, <2>3, Zenon DEF Releasing
  <1>6. Pausing' <=> Pausing
    BY <1>2, <1>3, Zenon DEF Pausing, PauseCode
  <1>7. \A k, down : Event(k, down, held)' = Event(k, down, held)
    BY <1>1 DEF Event, PS2_SampleKeymod
  <1>8. \A k : Making(k)' <=> Making(k)
    BY <1>1, <1>4, <1>7 DEF Making
  <1>9. \A k : Breaking(k)' <=> Breaking(k)
    BY <1>1, <1>5, <1>7 DEF Breaking
  <1>10. Striking' <=> Striking
    BY <1>1, <1>6, <1>7 DEF Striking, PAUSE
  <1>11. Idle' <=> Idle
    BY <1>1 DEF Idle, At
  <1> QED BY <1>8, <1>9, <1>10, <1>11, Zenon DEF Decoding

(* A step of the main loop that leaves the ring alone. *)
LEMMA LoopStep ==
  ASSUME KeyboardAssumption, KeyIInv, MainCheck \/ MainHalt \/ MainWhile
  PROVE  /\ KeyIInv' /\ held' = held /\ due' = due /\ ring' = ring
         /\ KeyevHeadidx' = KeyevHeadidx /\ Unread' = Unread
  <1>1. /\ typist' = typist /\ Listen' = Listen /\ ListenIdx' = ListenIdx /\ KeyStates' = KeyStates
        /\ wire' = wire /\ held' = held /\ due' = due /\ ring' = ring
        /\ KeyevHeadidx' = KeyevHeadidx /\ KeyevTailidx' = KeyevTailidx /\ KeyevCount' = KeyevCount
    BY DEF MainCheck, MainHalt, MainWhile, driver, keyboard
  <1>2. /\ pc \in {"check", "halt", "while"} /\ pc' \in {"check", "halt", "halted", "while", "pop"}
        /\ pc' = "pop" => KeyevCount # 0
    BY DEF MainCheck, MainHalt, MainWhile
  <1>3. TypistOK' /\ TypeOK'
    BY <1>1, <1>2 DEF KeyIInv, TypistOK, TypeOK
  <1>4. Decoding'
    BY <1>1, DecodingKept DEF KeyIInv, driver, keyboard
  <1>5. PopFindsAnEvent'
    BY <1>1, <1>2 DEF KeyIInv, TypeOK, PopFindsAnEvent
  <1>6. Unread' = Unread
    BY <1>1, <1>2 DEF Unread
  <1>7. RingHasRoom'
    BY <1>1, <1>6 DEF KeyIInv, RingHasRoom
  <1> QED BY <1>1, <1>3, <1>4, <1>5, <1>6, <1>7 DEF KeyIInv

LEMMA TakeStep ==
  ASSUME KeyboardAssumption, KeyIInv, HiPopTake
  PROVE  /\ KeyIInv' /\ held' = held /\ due' = due /\ ring' = ring
         /\ KeyevHeadidx' = Bump(KeyevHeadidx) /\ Unread' = Unread - 1
         /\ Unread \in 1..MAX_KEYBOARD_EVENTS
  <1>1. /\ typist' = typist /\ Listen' = Listen /\ ListenIdx' = ListenIdx /\ KeyStates' = KeyStates
        /\ wire' = wire /\ held' = held /\ due' = due /\ ring' = ring
        /\ KeyevHeadidx' = Bump(KeyevHeadidx) /\ KeyevTailidx' = KeyevTailidx
        /\ KeyevCount' = KeyevCount /\ pc = "pop" /\ pc' = "count"
    BY DEF HiPopTake, driver, keyboard
  <1>2. KeyevCount >= 1 /\ KeyevCount \in 0..MAX_KEYBOARD_EVENTS /\ KeyevHeadidx \in Slots
        /\ MAX_KEYBOARD_EVENTS \in Nat
    BY <1>1 DEF KeyIInv, PopFindsAnEvent, TypeOK, KeyboardAssumption
  <1>3. Unread = KeyevCount /\ Unread' = Unread - 1 /\ Unread \in 1..MAX_KEYBOARD_EVENTS
    BY <1>1, <1>2 DEF Unread
  <1>4. /\ Bump(KeyevHeadidx) \in Slots
        /\ (Bump(KeyevHeadidx) + (Unread - 1)) % MAX_KEYBOARD_EVENTS
             = (KeyevHeadidx + Unread) % MAX_KEYBOARD_EVENTS
    BY <1>2, <1>3, BumpWraps
  <1>5. TypistOK' /\ TypeOK'
    BY <1>1, <1>4 DEF KeyIInv, TypistOK, TypeOK
  <1>6. Decoding'
    BY <1>1, DecodingKept DEF KeyIInv, driver, keyboard
  <1>7. PopFindsAnEvent'
    BY <1>1, <1>2 DEF PopFindsAnEvent
  <1>8. RingHasRoom'
    BY <1>1, <1>3, <1>4 DEF KeyIInv, RingHasRoom
  <1> QED BY <1>1, <1>3, <1>5, <1>6, <1>7, <1>8 DEF KeyIInv

LEMMA CountStep ==
  ASSUME KeyboardAssumption, KeyIInv, HiPopCount
  PROVE  /\ KeyIInv' /\ held' = held /\ due' = due /\ ring' = ring
         /\ KeyevHeadidx' = KeyevHeadidx /\ Unread' = Unread
  <1>1. /\ typist' = typist /\ Listen' = Listen /\ ListenIdx' = ListenIdx /\ KeyStates' = KeyStates
        /\ wire' = wire /\ held' = held /\ due' = due /\ ring' = ring
        /\ KeyevHeadidx' = KeyevHeadidx /\ KeyevTailidx' = KeyevTailidx
        /\ KeyevCount' = KeyevCount - 1 /\ pc = "count" /\ pc' = "while"
    BY DEF HiPopCount, driver, keyboard
  <1>2. KeyevCount >= 1 /\ KeyevCount \in 0..MAX_KEYBOARD_EVENTS /\ MAX_KEYBOARD_EVENTS \in Nat
    BY <1>1 DEF KeyIInv, PopFindsAnEvent, TypeOK, KeyboardAssumption
  <1>3. Unread' = Unread
    BY <1>1 DEF Unread
  <1>4. TypistOK' /\ TypeOK'
    BY <1>1, <1>2 DEF KeyIInv, TypistOK, TypeOK
  <1>5. Decoding'
    BY <1>1, DecodingKept DEF KeyIInv, driver, keyboard
  <1>6. PopFindsAnEvent'
    BY <1>1 DEF PopFindsAnEvent
  <1>7. RingHasRoom'
    <2>1. Len(due) \in Nat
      <3>1. Len(<<>>) = 0 /\ (\A e : Len(<<e>>) = 1) /\ (\A e, f : Len(<<e, f>>) = 2)
        OBVIOUS
      <3> QED BY <3>1, DueReports DEF KeyIInv, Idle
    <2>2. typist.paced => KeyevCount' + Len(due) <= MAX_KEYBOARD_EVENTS
      BY <1>1, <1>2, <2>1 DEF KeyIInv, RingHasRoom
    <2> QED BY <1>1, <1>3, <2>2 DEF KeyIInv, RingHasRoom
  <1> QED BY <1>1, <1>3, <1>4, <1>5, <1>6, <1>7 DEF KeyIInv

LEMMA KeyNextIInv ==
  ASSUME KeyboardAssumption, KeyIInv, [Next]_vars
  PROVE  KeyIInv'
  <1>1. ASSUME NEW k \in typist.keys, Press(k) \/ Release(k)
        PROVE  KeyIInv'
    BY <1>1, PressStep, ReleaseStep
  <1>2. CASE StrikePause
    BY <1>2, StrikeStep
  <1>3. CASE PS2_KeyboardInterrupt
    BY <1>3, InterruptStep
  <1>4. CASE MainLoop
    BY <1>4, LoopStep, TakeStep, CountStep DEF MainLoop
  <1>5. CASE UNCHANGED vars
    <2>1. Decoding'
      BY <1>5, DecodingKept DEF KeyIInv, vars, driver, keyboard
    <2>2. TypistOK' /\ TypeOK' /\ PopFindsAnEvent'
      BY <1>5 DEF KeyIInv, TypistOK, TypeOK, PopFindsAnEvent, vars
    <2>3. RingHasRoom'
      BY <1>5 DEF KeyIInv, RingHasRoom, Unread, vars
    <2> QED BY <2>1, <2>2, <2>3 DEF KeyIInv
  <1> QED BY <1>1, <1>2, <1>3, <1>4, <1>5 DEF Next
-----------------------------------------------------------------------------
(* The theorems *)

(* Between key actions PS2_StandardKeyStates and PS2_ExtendedKeyStates     *)
(* record exactly the keys held down, whatever was typed and however the   *)
(* bytes of PS2_KeyboardInterrupt fall among the steps of the main loop.   *)
THEOREM KeyTableExact ==
  ASSUME KeyboardAssumption
  PROVE  Spec => []KeyTableIsExact
  <1>1. Init => KeyIInv
    BY KeyInitIInv
  <1>2. KeyIInv /\ [Next]_vars => KeyIInv'
    BY KeyNextIInv
  <1>3. KeyIInv => KeyTableIsExact
    <2> SUFFICES ASSUME KeyIInv
                 PROVE  KeyTableIsExact
      OBVIOUS
    <2>1. wire = <<>> => Idle
      BY DueReports DEF KeyIInv
    <2> QED BY <2>1 DEF KeyIInv, KeyTableIsExact, KeyStatesAreExact, Idle, At
  <1> QED BY <1>1, <1>2, <1>3, PTL DEF Spec
-----------------------------------------------------------------------------
(* The refinement *)

LEMMA WaitingIsContents == Waiting = Contents(ring, KeyevHeadidx, Unread)
  BY DEF Waiting, Contents, Unread

LEMMA WaitingIsContentsThen == Waiting' = Contents(ring', KeyevHeadidx', Unread')
  BY DEF Waiting, Contents, Unread

LEMMA WaitingIsSeq ==
  ASSUME KeyboardAssumption, KeyIInv
  PROVE  Waiting \in Seq(Events) /\ due \in Seq(Events)
  <1>1. Waiting \in Seq(Events)
    BY WaitingIsContents, ContentsIsSeq, UnreadFits DEF KeyIInv, TypeOK
  <1>2. <<>> \in Seq(Events) /\ \A e, f \in Events : <<e>> \in Seq(Events) /\ <<e, f>> \in Seq(Events)
    OBVIOUS
  <1>3. due \in Seq(Events)
    BY <1>2, DueReports DEF KeyIInv, Idle
  <1> QED BY <1>1, <1>3

(* The key actions of the abstract specification. *)
LEMMA UndisturbedWaits ==
  ASSUME Undisturbed
  PROVE  Waiting' = Waiting
  BY DEF Undisturbed, Waiting

LEMMA PressImplements ==
  ASSUME KeyboardAssumption, KeyIInv, NEW k \in typist.keys, Press(k)
  PROVE  KE!Next
  <1>1. Undisturbed /\ due = <<>> /\ k \in Keys
    BY PressStep
  <1>2. Waiting' = Waiting /\ Waiting \in Seq(Events)
    BY <1>1, UndisturbedWaits, WaitingIsSeq
  <1>3. held' = held \cup {k} /\ due' = <<Event(k, TRUE, held')>>
    BY DEF Press
  <1>4. Event(k, TRUE, held') = KE!Report(k, TRUE, held')
    BY DEF Event, PS2_SampleKeymod, KE!Report
  <1> DEFINE s == Waiting
             e == KE!Report(k, TRUE, held')
  <1>5. Waiting' \o due' = s \o <<e>> /\ Waiting \o due = s \o <<>> /\ s \in Seq(Events)
    BY <1>1, <1>2, <1>3, <1>4
  <1>6. e \in Events
    BY <1>1, <1>4, EventIsEvent
  <1> HIDE DEF s, e
  <1>7. s \o <<e>> = Append(s \o <<>>, e)
    BY <1>5, <1>6
  <1>8. KE!Press(k)
    BY <1>3, <1>5, <1>7 DEF KE!Press, e
  <1> QED BY <1>1, <1>8 DEF KE!Next

LEMMA ReleaseImplements ==
  ASSUME KeyboardAssumption, KeyIInv, NEW k \in typist.keys, Release(k)
  PROVE  KE!Next
  <1>1. Undisturbed /\ due = <<>> /\ k \in Keys
    BY ReleaseStep
  <1>2. Waiting' = Waiting /\ Waiting \in Seq(Events)
    BY <1>1, UndisturbedWaits, WaitingIsSeq
  <1>3. k \in held /\ held' = held \ {k} /\ due' = <<Event(k, FALSE, held')>>
    BY DEF Release
  <1>4. Event(k, FALSE, held') = KE!Report(k, FALSE, held')
    BY DEF Event, PS2_SampleKeymod, KE!Report
  <1> DEFINE s == Waiting
             e == KE!Report(k, FALSE, held')
  <1>5. Waiting' \o due' = s \o <<e>> /\ Waiting \o due = s \o <<>> /\ s \in Seq(Events)
    BY <1>1, <1>2, <1>3, <1>4
  <1>6. e \in Events
    BY <1>1, <1>4, EventIsEvent
  <1> HIDE DEF s, e
  <1>7. s \o <<e>> = Append(s \o <<>>, e)
    BY <1>5, <1>6
  <1>8. KE!Release(k)
    BY <1>3, <1>5, <1>7 DEF KE!Release, e
  <1> QED BY <1>1, <1>8 DEF KE!Next

LEMMA StrikeImplements ==
  ASSUME KeyboardAssumption, KeyIInv, StrikePause
  PROVE  KE!Next
  <1>1. Undisturbed /\ due = <<>>
    BY StrikeStep
  <1>2. Waiting' = Waiting /\ Waiting \in Seq(Events)
    BY <1>1, UndisturbedWaits, WaitingIsSeq
  <1>3. held' = held /\ due' = <<Event(PAUSE, TRUE, held), Event(PAUSE, FALSE, held)>>
    BY DEF StrikePause
  <1>4. /\ Event(PAUSE, TRUE, held) = KE!Report(PAUSE, TRUE, held)
        /\ Event(PAUSE, FALSE, held) = KE!Report(PAUSE, FALSE, held)
    BY DEF Event, PS2_SampleKeymod, KE!Report
  <1> DEFINE s == Waiting
             es == <<KE!Report(PAUSE, TRUE, held), KE!Report(PAUSE, FALSE, held)>>
  <1>5. Waiting' \o due' = s \o es /\ Waiting \o due = s \o <<>> /\ s \in Seq(Events)
    BY <1>1, <1>2, <1>3, <1>4
  <1> HIDE DEF s
  <1>6. s \o <<>> = s
    BY <1>5
  <1>7. Waiting' \o due' = (Waiting \o due) \o es
    BY <1>5, <1>6
  <1>8. KE!Strike
    BY <1>3, <1>7 DEF KE!Strike
  <1> QED BY <1>8 DEF KE!Next

(* A byte is no step of the abstract specification: the last one moves     *)
(* what is due into the ring.                                              *)
LEMMA InterruptStutters ==
  ASSUME KeyboardAssumption, KeyIInv, PS2_KeyboardInterrupt, typist.paced
  PROVE  held' = held /\ Waiting' \o due' = Waiting \o due
  <1>1. held' = held /\ KeyevHeadidx' = KeyevHeadidx
    BY DEF PS2_KeyboardInterrupt
  <1>2. pc' = "count" <=> pc = "count"
    BY AwakenSteps DEF KeyIInv, PS2_KeyboardInterrupt
  <1>3. CASE Onward
    <2>1. ring' = ring /\ KeyevCount' = KeyevCount /\ due' = due
      BY <1>3 DEF Onward, Nothing
    <2>2. Unread' = Unread
      BY <1>2, <2>1 DEF Unread
    <2>3. Waiting' = Waiting
      BY <1>1, <2>1, <2>2, WaitingIsContents, WaitingIsContentsThen
    <2> QED BY <1>1, <2>1, <2>3
  <1>4. CASE Delivered
    <2>1. LandsBehind /\ Unread' = Unread + Len(due)
      BY <1>4, DeliveredStep
    <2>2. Waiting' = Waiting \o due
      BY <1>1, <2>1, WaitingIsContents, WaitingIsContentsThen DEF LandsBehind
    <2>3. due' = <<>>
      BY <1>4 DEF Delivered, Idle
    <2> DEFINE s == Waiting \o due
    <2>4. s \in Seq(Events)
      BY WaitingIsSeq, ConcatProperties
    <2> HIDE DEF s
    <2>5. s \o <<>> = s
      BY <2>4
    <2> QED BY <1>1, <2>2, <2>3, <2>5 DEF s
  <1> QED BY <1>3, <1>4, DecodingByte DEF KeyIInv

LEMMA LoopStutters ==
  ASSUME KeyboardAssumption, KeyIInv, MainCheck \/ MainHalt \/ MainWhile \/ HiPopCount
  PROVE  held' = held /\ Waiting' \o due' = Waiting \o due
  <1>1. held' = held /\ due' = due /\ ring' = ring /\ KeyevHeadidx' = KeyevHeadidx /\ Unread' = Unread
    BY LoopStep, CountStep
  <1> QED BY <1>1, WaitingIsContents, WaitingIsContentsThen

(* The event is read when HiPopKeyboardEvent moves the head. *)
LEMMA TakeImplements ==
  ASSUME KeyboardAssumption, KeyIInv, HiPopTake
  PROVE  KE!Next
  <1>1. /\ held' = held /\ due' = due /\ ring' = ring
        /\ KeyevHeadidx' = Bump(KeyevHeadidx) /\ Unread' = Unread - 1
        /\ Unread \in 1..MAX_KEYBOARD_EVENTS
    BY TakeStep
  <1>2. ring \in [Slots -> Events] /\ KeyevHeadidx \in Slots
    BY DEF KeyIInv, TypeOK
  <1>3. Waiting # <<>> /\ Waiting' = Tail(Waiting)
    BY <1>1, <1>2, ContentsTail, WaitingIsContents, WaitingIsContentsThen
  <1> DEFINE s == Waiting
             d == due
  <1>4. s \in Seq(Events) /\ d \in Seq(Events) /\ s # <<>> /\ Waiting' = Tail(s)
    BY <1>3, WaitingIsSeq
  <1>5. Waiting' \o due' = Tail(s) \o d
    BY <1>1, <1>4
  <1> HIDE DEF s, d
  <1>6. s \o d # <<>> /\ Tail(s \o d) = Tail(s) \o d
    <2>2. Len(s) \in Nat \ {0} /\ Len(d) \in Nat
      BY <1>4, EmptySeq
    <2>3. s \o d \in Seq(Events) /\ Len(s \o d) = Len(s) + Len(d)
      BY <1>4, ConcatProperties
    <2>4. s \o d # <<>>
      BY <2>2, <2>3
    <2> QED BY <1>4, <2>4
  <1>7. KE!Read
    BY <1>1, <1>5, <1>6 DEF KE!Read, s, d
  <1> QED BY <1>7 DEF KE!Next

LEMMA NextImplements ==
  ASSUME KeyboardAssumption, KeyIInv, [Next]_vars
  PROVE  [typist.paced => KE!Next]_(KE!vars)
  <1>1. ASSUME NEW k \in typist.keys, Press(k) \/ Release(k)
        PROVE  KE!Next
    BY <1>1, PressImplements, ReleaseImplements
  <1>2. CASE StrikePause
    BY <1>2, StrikeImplements
  <1>3. CASE PS2_KeyboardInterrupt
    BY <1>3, InterruptStutters DEF KE!vars
  <1>4. CASE MainLoop
    BY <1>4, LoopStutters, TakeImplements DEF MainLoop, KE!vars
  <1>5. CASE UNCHANGED vars
    <2>1. held' = held /\ due' = due /\ Waiting' = Waiting
      BY <1>5 DEF vars, Waiting
    <2> QED BY <2>1 DEF KE!vars
  <1> QED BY <1>1, <1>2, <1>3, <1>4, <1>5 DEF Next

(* While the ring has room, the driver, the ring and the main loop         *)
(* implement KeyEvents: each press and release is reported once, in order, *)
(* with the modifiers held, also when PS2_KeyboardInterrupt comes inside   *)
(* HiPopKeyboardEvent.                                                     *)
THEOREM KeyboardImplementsKeyEvents ==
  ASSUME KeyboardAssumption
  PROVE  Spec => ImplementsKeyEvents
  <1>1. Init => KeyIInv
    BY KeyInitIInv
  <1>2. KeyIInv /\ [Next]_vars => KeyIInv'
    BY KeyNextIInv
  <1>3. Init => KE!Init
    <2> SUFFICES ASSUME Init
                 PROVE  KE!Init
      OBVIOUS
    <2>1. KeyIInv
      BY <1>1
    <2>2. Waiting \in Seq(Events) /\ Len(Waiting) = 0 /\ due = <<>> /\ held = {}
      <3>1. Waiting = Contents(ring, KeyevHeadidx, 0)
        BY WaitingIsContents DEF Unread, Init
      <3>2. ring \in [Slots -> Events] /\ KeyevHeadidx \in Slots /\ 0 \in 0..MAX_KEYBOARD_EVENTS
        BY <2>1 DEF KeyIInv, TypeOK, KeyboardAssumption
      <3> QED BY <3>1, <3>2, ContentsIsSeq DEF Init
    <2>3. Waiting = <<>>
      BY <2>2, EmptySeq
    <2>4. Waiting \o due = <<>>
      BY <2>2, <2>3
    <2> QED BY <2>2, <2>4 DEF KE!Init
  <1>4. KeyIInv /\ [Next]_vars => [typist.paced => KE!Next]_(KE!vars)
    BY NextImplements
  <1> QED BY <1>1, <1>2, <1>3, <1>4, PTL DEF Spec, ImplementsKeyEvents
-----------------------------------------------------------------------------
(* The set-up of the controller: the inductive invariant *)

READ == [cmd |-> TRUE, byte |-> Byte("READ_CCB")]
WRITE == [cmd |-> TRUE, byte |-> Byte("WRITE_CCB")]
GETSET == [cmd |-> FALSE, byte |-> Byte("GETSET_SCANSET")]
SELECT == [cmd |-> FALSE, byte |-> Byte("SET2")]

(* A configuration without the translation; that of the controller         *)
(* otherwise, when the driver has read it.                                 *)
NewConfig(r) ==
  \E f \in SUBSET {"INT", "DISABLED"} : r = [cmd |-> FALSE, byte |-> Ccb(f)] /\ (fast => f = {"INT"})

Pipe(waiting, working, more) == ibf = waiting /\ job = working /\ expects = more

(* An answer in the buffer is that to READ: the keyboard has not been      *)
(* spoken to.                                                              *)
KeyboardIsSilent == out = <<>> /\ (obf = TRUE => data.kind = "CCB") /\ NrResends = 0

Asking ==
  /\ KeyboardIsSilent /\ i = 0 /\ config = InitialConfig
  /\ \/ regStep = "ccb:send" /\ Pipe(NoByte, NoByte, FALSE) /\ obf = FALSE
     \/ regStep = "ccb:read" /\ Pipe(READ, NoByte, FALSE) /\ obf = FALSE
     \/ regStep = "ccb:read" /\ Pipe(NoByte, READ, FALSE) /\ obf = FALSE
     \/ /\ regStep = "ccb:read" /\ Pipe(NoByte, NoByte, FALSE) /\ obf = TRUE
        /\ data = Ccb(InitialConfig)

(* READ may still be in the works when the driver was too early. *)
Writing ==
  /\ KeyboardIsSilent /\ i = 0 /\ config = InitialConfig
  /\ fast => Response = Ccb(InitialConfig) /\ obf = FALSE /\ job # READ
  /\ \/ regStep = "ccb:command" /\ Pipe(NoByte, NoByte, FALSE)
     \/ regStep = "ccb:command" /\ Pipe(NoByte, READ, FALSE) /\ obf = FALSE
     \/ regStep = "ccb:write" /\ Pipe(WRITE, NoByte, FALSE)
     \/ regStep = "ccb:write" /\ Pipe(WRITE, READ, FALSE) /\ obf = FALSE
     \/ regStep = "ccb:write" /\ Pipe(NoByte, WRITE, FALSE)
     \/ regStep = "ccb:write" /\ Pipe(NoByte, NoByte, TRUE)

(* The configuration is on its way; a driver that takes the old answer for *)
(* that of the keyboard cannot send a second byte before it has arrived.   *)
Pending ==
  /\ KeyboardIsSilent /\ (fast => obf = FALSE)
  /\ \/ regStep = "set:send" /\ i = 0 /\ NewConfig(ibf) /\ Pipe(ibf, WRITE, FALSE)
     \/ regStep = "set:send" /\ i = 0 /\ NewConfig(ibf) /\ Pipe(ibf, NoByte, TRUE)
     \/ regStep = "set:send" /\ i = 0 /\ NewConfig(job) /\ Pipe(NoByte, job, TRUE)
     \/ regStep = "set:read" /\ i = 0 /\ NewConfig(job) /\ Pipe(GETSET, job, TRUE)
     \/ regStep = "set:send" /\ i = 1 /\ NewConfig(job) /\ Pipe(GETSET, job, TRUE) /\ ~fast

KeyboardBytes == {NoByte, GETSET, SELECT}

(* The configuration has arrived, and what follows is for the keyboard. *)
Configured ==
  /\ regStep \in {"set:send", "set:read", "route", "registered", "failed"}
  /\ ibf \in KeyboardBytes /\ job \in KeyboardBytes /\ expects = FALSE
  /\ config \subseteq {"INT", "DISABLED"} /\ (fast => config = {"INT"})
  /\ i \in 0..2 /\ NrResends \in 0..MAX_RESENDS
  /\ regStep = "set:read" => i < 2 /\ NrResends < MAX_RESENDS
  /\ i = 0 => NrResends = 0

(* An acknowledgement of the second byte means that it was understood. *)
Answer(a) == a = Byte("RESEND") \/ (a = Byte("ACK") /\ (i = 1 => scanset = 2))

Sent == IF i = 0 THEN GETSET ELSE SELECT

Resting == ibf = NoByte /\ job = NoByte

FastSend ==
  regStep = "set:send" =>
    /\ obf = FALSE /\ out = <<>> /\ Resting
    /\ i = 1 /\ NrResends > 0 => Response.kind = "RESEND"
    /\ i = 2 /\ Response.kind = "ACK" => scanset = 2

FastRead ==
  regStep = "set:read" =>
    \/ ibf = Sent /\ job = NoByte /\ obf = FALSE /\ out = <<>>
    \/ ibf = NoByte /\ job = Sent /\ obf = FALSE /\ out = <<>>
    \/ Resting /\ obf = FALSE /\ \E a \in Bytes : out = <<a>> /\ Answer(a)
    \/ Resting /\ obf = TRUE /\ out = <<>> /\ Answer(data)

FastEnd == regStep \in {"route", "registered"} => scanset = 2

Setting == Configured /\ (fast => FastSend /\ FastRead /\ FastEnd)

Ps2Types ==
  /\ obf \in BOOLEAN /\ awaits \in BOOLEAN /\ edge \in BOOLEAN /\ fast \in BOOLEAN
  /\ scanset \in {1, 2} /\ config \subseteq ConfigFlags
  /\ Response \in Bytes /\ data \in Bytes /\ out \in Seq(Bytes)
  /\ regStep # "registered" => routed = FALSE /\ edge = FALSE

Stages == Asking \/ Writing \/ Pending \/ Setting

Ps2IInv == Ps2Types /\ Stages
-----------------------------------------------------------------------------
(* Bytes *)

LEMMA ByteTypes ==
  /\ InitialConfig \in SUBSET ConfigFlags
  /\ \A f \in SUBSET ConfigFlags : Ccb(f) \in Bytes /\ Ccb(f).kind = "CCB" /\ Ccb(f).flags = f
  /\ Byte("ACK") \in Bytes /\ Byte("ACK").kind = "ACK"
  /\ Byte("RESEND") \in Bytes /\ Byte("RESEND").kind = "RESEND"
  /\ Byte("SCAN") \in Bytes /\ Byte("SCAN").kind = "SCAN"
  BY DEF Ccb, Byte, Bytes, InitialConfig, ConfigFlags

LEMMA RequestFields ==
  /\ READ.cmd = TRUE /\ READ.byte.kind = "READ_CCB"
  /\ WRITE.cmd = TRUE /\ WRITE.byte.kind = "WRITE_CCB"
  /\ GETSET.cmd = FALSE /\ GETSET.byte.kind = "GETSET_SCANSET"
  /\ SELECT.cmd = FALSE /\ SELECT.byte.kind = "SET2"
  BY DEF READ, WRITE, GETSET, SELECT, Byte

LEMMA RequestsAreBytes ==
  ASSUME PS2Assumption
  PROVE  READ # NoByte /\ WRITE # NoByte /\ GETSET # NoByte /\ SELECT # NoByte
  <1>1. /\ Byte("READ_CCB") \in Bytes /\ Byte("WRITE_CCB") \in Bytes
        /\ Byte("GETSET_SCANSET") \in Bytes /\ Byte("SET2") \in Bytes
    BY DEF Byte, Bytes
  <1>2. \A cmd \in BOOLEAN, byte \in Bytes : NoByte # [cmd |-> cmd, byte |-> byte]
    BY DEF PS2Assumption
  <1> QED BY <1>1, <1>2 DEF READ, WRITE, GETSET, SELECT

LEMMA NewConfigFields ==
  ASSUME PS2Assumption, NEW r, NewConfig(r)
  PROVE  /\ r.cmd = FALSE /\ r.byte.flags \subseteq {"INT", "DISABLED"} /\ r.byte.kind = "CCB"
         /\ fast => r.byte.flags = {"INT"}
         /\ r # NoByte
  <1>1. PICK f \in SUBSET {"INT", "DISABLED"} : r = [cmd |-> FALSE, byte |-> Ccb(f)] /\ (fast => f = {"INT"})
    BY DEF NewConfig
  <1>2. Ccb(f) \in Bytes /\ Ccb(f).flags = f /\ Ccb(f).kind = "CCB"
    BY ByteTypes DEF InitialConfig, ConfigFlags
  <1>3. \A cmd \in BOOLEAN, byte \in Bytes : NoByte # [cmd |-> cmd, byte |-> byte]
    BY DEF PS2Assumption
  <1>4. r # NoByte
    BY <1>1, <1>2, <1>3
  <1> QED BY <1>1, <1>2, <1>4

LEMMA RequestsDiffer ==
  /\ READ # WRITE /\ READ # GETSET /\ READ # SELECT /\ WRITE # GETSET /\ WRITE # SELECT
  /\ GETSET # SELECT
  BY RequestFields
-----------------------------------------------------------------------------
(* What the controller does with a request *)

LEMMA WorkRead ==
  ASSUME Work, job = READ
  PROVE  /\ ~obf /\ Offer(Ccb(config)) /\ job' = NoByte
         /\ UNCHANGED <<config, expects, ps2Keyboard, fast, registration, ibf, routed>>
  BY RequestFields DEF Work

LEMMA WorkWrite ==
  ASSUME Work, job = WRITE
  PROVE  /\ expects' = TRUE /\ job' = NoByte
         /\ UNCHANGED <<data, obf, edge, config, ps2Keyboard, fast, registration, ibf, routed>>
  BY RequestFields DEF Work

LEMMA WorkConfig ==
  ASSUME PS2Assumption, Work, NewConfig(job), expects = TRUE
  PROVE  /\ config' = job.byte.flags /\ expects' = FALSE /\ job' = NoByte
         /\ UNCHANGED <<data, obf, edge, ps2Keyboard, fast, registration, ibf, routed>>
  BY NewConfigFields DEF Work

LEMMA WorkKeyboard ==
  ASSUME Work, job \in {GETSET, SELECT}, expects = FALSE
  PROVE  /\ KeyboardTakes(job.byte) /\ job' = NoByte /\ config' = config \ {"DISABLED"}
         /\ UNCHANGED <<data, obf, edge, expects, fast, registration, ibf, routed>>
  BY RequestFields DEF Work
-----------------------------------------------------------------------------
(* Each step keeps the invariant *)

(* Whether Ps2Types is kept is a matter of the bytes that move. *)
LEMMA Ps2InitIInv == Ps2Init /\ PS2Assumption => Ps2IInv
  <1> SUFFICES ASSUME Ps2Init, PS2Assumption PROVE Ps2IInv OBVIOUS
  <1>1. fast \in BOOLEAN
    BY DEF Ps2Init, PS2Assumption
  <1>2. Response \in Bytes /\ data \in Bytes
    <2>1. OldBytes \subseteq Bytes
      BY DEF OldBytes, Bytes, InitialConfig, ConfigFlags
    <2> QED BY <2>1, ByteTypes DEF Ps2Init
  <1>3. out \in Seq(Bytes)
    BY DEF Ps2Init
  <1>4. Ps2Types
    BY <1>1, <1>2, <1>3, ByteTypes DEF Ps2Init, Ps2Types
  <1>5. Asking
    BY DEF Ps2Init, Asking, KeyboardIsSilent, Pipe
  <1> QED BY <1>4, <1>5 DEF Ps2IInv, Stages

LEMMA IssueToCommandPortStep ==
  ASSUME PS2Assumption, Ps2IInv, IssueToCommandPort
  PROVE  Ps2IInv'
  <1>1. Ps2Types'
    BY DEF Ps2IInv, Ps2Types, IssueToCommandPort, DriverStep, ps2Keyboard
  <1>2. Asking
    BY DEF Ps2IInv, Stages, Writing, Pending, Setting, Configured, IssueToCommandPort
  <1>3. /\ KeyboardIsSilent /\ i = 0 /\ config = InitialConfig
        /\ Pipe(NoByte, NoByte, FALSE) /\ obf = FALSE
    BY <1>2 DEF Asking, IssueToCommandPort
  <1>4. Asking'
    BY <1>3 DEF Asking, KeyboardIsSilent, Pipe, READ, IssueToCommandPort, Send, DriverStep,
                ps2Keyboard
  <1> QED BY <1>1, <1>4 DEF Ps2IInv, Stages

LEMMA ReadConfigurationStep ==
  ASSUME PS2Assumption, Ps2IInv, ReadConfiguration
  PROVE  Ps2IInv'
  <1>1. Ps2Types'
    BY DEF Ps2IInv, Ps2Types, ReadConfiguration, DriverStep, ps2Keyboard
  <1>2. Asking
    BY DEF Ps2IInv, Stages, Writing, Pending, Setting, Configured, ReadConfiguration
  <1>3. ibf = NoByte /\ NoByte # READ
    BY RequestsAreBytes DEF ReadConfiguration
  <1>4. /\ KeyboardIsSilent /\ i = 0 /\ config = InitialConfig /\ ibf = NoByte /\ expects = FALSE
        /\ \/ job = READ /\ obf = FALSE
           \/ job = NoByte /\ obf = TRUE /\ data = Ccb(InitialConfig)
    BY <1>2, <1>3 DEF Asking, ReadConfiguration, Pipe
  <1>5. fast => job # READ /\ data = Ccb(InitialConfig)
    BY <1>3, <1>4 DEF ReadConfiguration
  <1>6. KeyboardIsSilent' /\ (i = 0)' /\ (config = InitialConfig)'
    BY <1>4 DEF KeyboardIsSilent, ReadConfiguration, DriverStep, ps2Keyboard
  <1>7. (fast => Response = Ccb(InitialConfig) /\ obf = FALSE /\ job # READ)'
    BY <1>5 DEF ReadConfiguration, DriverStep
  <1>8. (\/ regStep = "ccb:command" /\ Pipe(NoByte, NoByte, FALSE)
         \/ regStep = "ccb:command" /\ Pipe(NoByte, READ, FALSE) /\ obf = FALSE)'
    BY <1>4 DEF Pipe, READ, ReadConfiguration, DriverStep
  <1>9. Writing'
    BY <1>6, <1>7, <1>8 DEF Writing
  <1> QED BY <1>1, <1>9 DEF Ps2IInv, Stages

LEMMA WriteConfigurationStep ==
  ASSUME PS2Assumption, Ps2IInv, WriteConfiguration
  PROVE  Ps2IInv'
  <1>1. Ps2Types'
    BY DEF Ps2IInv, Ps2Types, WriteConfiguration, DriverStep, ps2Keyboard
  <1>2. Writing
    BY DEF Ps2IInv, Stages, Asking, Pending, Setting, Configured, WriteConfiguration
  <1>3. ibf = NoByte /\ NoByte # WRITE
    BY RequestsAreBytes DEF WriteConfiguration, Send
  <1>4. KeyboardIsSilent' /\ KeyboardIsSilent
    BY <1>2 DEF Writing, KeyboardIsSilent, WriteConfiguration, DriverStep, ps2Keyboard
  <1>5. CASE regStep = "ccb:command"
    <2>1. \/ Pipe(NoByte, NoByte, FALSE)
          \/ Pipe(NoByte, READ, FALSE) /\ obf = FALSE
      BY <1>2, <1>5 DEF Writing
    <2>2. ibf' = WRITE /\ regStep' = "ccb:write"
      BY <1>5 DEF WriteConfiguration, Send, WRITE
    <2>3. UNCHANGED <<job, expects, obf, fast, Response, i, config>>
      BY DEF WriteConfiguration, DriverStep
    <2>4. (\/ regStep = "ccb:write" /\ Pipe(WRITE, NoByte, FALSE)
           \/ regStep = "ccb:write" /\ Pipe(WRITE, READ, FALSE) /\ obf = FALSE)'
      BY <2>1, <2>2, <2>3 DEF Pipe, READ, WRITE
    <2>5. (i = 0 /\ config = InitialConfig)'
          /\ (fast => Response = Ccb(InitialConfig) /\ obf = FALSE /\ job # READ)'
      BY <1>2, <2>3 DEF Writing
    <2>6. Writing'
      BY <1>4, <2>4, <2>5 DEF Writing
    <2> QED BY <1>1, <2>6 DEF Ps2IInv, Stages
  <1>6. CASE regStep = "ccb:write"
    <2>1. Pipe(NoByte, WRITE, FALSE) \/ Pipe(NoByte, NoByte, TRUE)
      BY <1>2, <1>3, <1>6 DEF Writing, Pipe
    <2> DEFINE f == WithoutTranslate(Response)
    <2>2. ibf' = [cmd |-> FALSE, byte |-> Ccb(f)] /\ regStep' = "set:send"
      BY <1>6 DEF WriteConfiguration, Send
    <2>3. UNCHANGED <<job, expects, obf, fast, Response, i>>
      BY DEF WriteConfiguration, DriverStep
    <2>4. f \in SUBSET {"INT", "DISABLED"}
      BY DEF Ps2IInv, Ps2Types, Bytes, InitialConfig, ConfigFlags, WithoutTranslate
    <2>5. fast => f = {"INT"}
      BY <1>2, ByteTypes DEF Writing, InitialConfig, ConfigFlags, WithoutTranslate
    <2> HIDE DEF f
    <2>6. NewConfig(ibf)'
      BY <2>2, <2>3, <2>4, <2>5 DEF NewConfig, Ccb
    <2>7. (i = 0)' /\ (fast => obf = FALSE)'
      BY <1>2, <2>3 DEF Writing
    <2>8. Pipe(ibf, WRITE, FALSE)' \/ Pipe(ibf, NoByte, TRUE)'
      BY <2>1, <2>3 DEF Pipe, WRITE
    <2>9. Pending'
      BY <1>4, <2>2, <2>6, <2>7, <2>8 DEF Pending
    <2> QED BY <1>1, <2>9 DEF Ps2IInv, Stages
  <1> QED BY <1>5, <1>6 DEF WriteConfiguration

LEMMA SentBytes ==
  /\ Len(SetScanset2) = 2
  /\ i \in 0..1 => [cmd |-> FALSE, byte |-> SetScanset2[i + 1]] = Sent
  <1>1. Len(SetScanset2) = 2 /\ SetScanset2[1] = Byte("GETSET_SCANSET") /\ SetScanset2[2] = Byte("SET2")
    BY DEF SetScanset2
  <1>2. i = 0 => [cmd |-> FALSE, byte |-> SetScanset2[i + 1]] = Sent
    <2> SUFFICES ASSUME i = 0 PROVE [cmd |-> FALSE, byte |-> SetScanset2[i + 1]] = Sent OBVIOUS
    <2>1. SetScanset2[i + 1] = Byte("GETSET_SCANSET")
      <3>1. i + 1 = 1
        OBVIOUS
      <3> QED BY <1>1, <3>1
    <2>2. Sent = GETSET
      BY DEF Sent
    <2> QED BY <2>1, <2>2 DEF GETSET
  <1>3. i = 1 => [cmd |-> FALSE, byte |-> SetScanset2[i + 1]] = Sent
    <2> SUFFICES ASSUME i = 1 PROVE [cmd |-> FALSE, byte |-> SetScanset2[i + 1]] = Sent OBVIOUS
    <2>1. SetScanset2[i + 1] = Byte("SET2")
      <3>1. i + 1 = 2
        OBVIOUS
      <3> QED BY <1>1, <3>1
    <2>2. Sent = SELECT
      BY DEF Sent
    <2> QED BY <2>1, <2>2 DEF SELECT
  <1> QED BY <1>1, <1>2, <1>3

LEMMA IssueToKeyboardStep ==
  ASSUME PS2Assumption, Ps2IInv, IssueToKeyboard
  PROVE  Ps2IInv'
  <1>1. Ps2Types'
    BY DEF Ps2IInv, Ps2Types, IssueToKeyboard, DriverStep, ps2Keyboard
  <1>2. Pending \/ Setting
    BY DEF Ps2IInv, Stages, Asking, Writing, IssueToKeyboard
  <1>3. regStep = "set:send"
    BY DEF IssueToKeyboard
  <1>4. UNCHANGED <<i, NrResends, Response, data, obf, fast, job, config, expects, out, scanset>>
    BY DEF IssueToKeyboard, DriverStep, ps2Keyboard
  <1>5. MAX_RESENDS \in Nat /\ MAX_RESENDS > 0
    BY DEF PS2Assumption
  <1>6. LoopGoesOn(Len(SetScanset2)) /\ i \in 0..1 =>
          ibf = NoByte /\ ibf' = Sent /\ regStep' = "set:read"
    BY SentBytes DEF IssueToKeyboard, Send
  <1>7. CASE Pending
    <2>1. i \in 0..1 /\ NrResends = 0
      <3>1. NrResends = 0
        BY <1>7 DEF Pending, KeyboardIsSilent
      <3>2. i = 0 \/ i = 1
        BY <1>7, Zenon DEF Pending
      <3> QED BY <3>1, <3>2
    <2>2. LoopGoesOn(Len(SetScanset2))
      BY <1>5, <2>1, SentBytes DEF LoopGoesOn
    <2>3. ibf = NoByte /\ ibf' = Sent /\ regStep' = "set:read"
      BY <1>6, <2>1, <2>2
    <2>4. i = 0 /\ NewConfig(job) /\ Pipe(NoByte, job, TRUE)
      BY <1>7, <2>3, <1>3, NewConfigFields, RequestsAreBytes DEF Pending, Pipe
    <2>5. NewConfig(job)'
      BY <1>4, <2>4 DEF NewConfig, Ccb
    <2>6. Pipe(GETSET, job, TRUE)'
      BY <1>4, <2>3, <2>4 DEF Pipe, Sent, GETSET
    <2>7. KeyboardIsSilent' /\ (fast => obf = FALSE)' /\ (i = 0)'
      BY <1>4, <1>7, <2>4 DEF Pending, KeyboardIsSilent
    <2>8. Pending'
      BY <2>3, <2>5, <2>6, <2>7 DEF Pending
    <2> QED BY <1>1, <2>8 DEF Ps2IInv, Stages
  <1>8. CASE Setting
    <2>1. Configured /\ i \in 0..2 /\ NrResends \in 0..MAX_RESENDS
      BY <1>8 DEF Setting, Configured
    <2>2. CASE LoopGoesOn(Len(SetScanset2))
      <3>1. i < 2 /\ NrResends < MAX_RESENDS /\ i \in 0..1
        BY <2>1, <2>2, SentBytes DEF LoopGoesOn
      <3>2. ibf = NoByte /\ ibf' = Sent /\ regStep' = "set:read"
        BY <1>6, <2>2, <3>1
      <3>3. Sent \in KeyboardBytes
        BY DEF Sent, KeyboardBytes
      <3>4. Configured'
        BY <1>4, <2>1, <3>1, <3>2, <3>3 DEF Configured, KeyboardBytes, GETSET, SELECT
      <3>5. Sent' = Sent
        BY <1>4 DEF Sent, GETSET, SELECT
      <3>6. fast => (ibf = Sent /\ job = NoByte /\ obf = FALSE /\ out = <<>>)'
        BY <1>3, <1>4, <1>8, <3>2, <3>5 DEF Setting, FastSend, Resting
      <3>7. (fast => FastSend /\ FastRead /\ FastEnd)'
        BY <1>4, <3>2, <3>6 DEF FastSend, FastRead, FastEnd
      <3> QED BY <1>1, <3>4, <3>7 DEF Ps2IInv, Stages, Setting
    <2>3. CASE ~LoopGoesOn(Len(SetScanset2))
      <3>1. regStep' = (IF Response.kind = "ACK" THEN "route" ELSE "failed") /\ UNCHANGED ibf
        BY <2>3 DEF IssueToKeyboard
      <3>2. i = 2 \/ NrResends = MAX_RESENDS
        BY <1>5, <2>1, <2>3, SentBytes DEF LoopGoesOn
      <3>3. i = 2 \/ (i = 1 /\ NrResends > 0)
        BY <1>5, <2>1, <3>2 DEF Configured
      <3>4. fast /\ Response.kind = "ACK" => scanset = 2
        BY <1>3, <1>8, <3>3 DEF Setting, FastSend
      <3>5. Configured'
        BY <1>4, <2>1, <3>1 DEF Configured, KeyboardBytes, GETSET, SELECT
      <3>6. (fast => FastSend /\ FastRead /\ FastEnd)'
        BY <1>4, <3>1, <3>4 DEF FastSend, FastRead, FastEnd
      <3> QED BY <1>1, <3>5, <3>6 DEF Ps2IInv, Stages, Setting
    <2> QED BY <2>2, <2>3
  <1> QED BY <1>2, <1>7, <1>8

LEMMA ReadAnswerStep ==
  ASSUME PS2Assumption, Ps2IInv, ReadAnswer
  PROVE  Ps2IInv'
  <1>1. Ps2Types'
    BY DEF Ps2IInv, Ps2Types, ReadAnswer, Answered, DriverStep, ps2Keyboard
  <1>2. Pending \/ Setting
    BY DEF Ps2IInv, Stages, Asking, Writing, ReadAnswer
  <1>3. regStep = "set:read" /\ obf /\ (fast => Settled) /\ Response' = data /\ obf' = FALSE
    BY DEF ReadAnswer
  <1>4. UNCHANGED <<ibf, data, fast, job, config, expects, out, scanset>>
    BY DEF ReadAnswer, DriverStep, ps2Keyboard
  <1>5. /\ regStep' = "set:send"
        /\ data.kind = "RESEND" => i' = 1 /\ NrResends' = NrResends + 1
        /\ data.kind # "RESEND" => i' = i + 1 /\ NrResends' = NrResends
    BY DEF ReadAnswer, Answered
  <1>6. obf = TRUE /\ MAX_RESENDS \in Nat
    BY <1>3 DEF Ps2IInv, Ps2Types, PS2Assumption
  <1>7. CASE Pending
    <2>1. i = 0 /\ NewConfig(job) /\ Pipe(GETSET, job, TRUE) /\ ~fast /\ NrResends = 0
      BY <1>3, <1>6, <1>7 DEF Pending, KeyboardIsSilent
    <2>2. data.kind = "CCB" /\ out = <<>>
      BY <1>6, <1>7 DEF Pending, KeyboardIsSilent
    <2>3. i' = 1 /\ NrResends' = 0
      BY <1>5, <2>1, <2>2
    <2>4. NewConfig(job)'
      BY <1>4, <2>1 DEF NewConfig, Ccb
    <2>5. Pipe(GETSET, job, TRUE)' /\ (~fast)'
      BY <1>4, <2>1 DEF Pipe, GETSET
    <2>6. KeyboardIsSilent' /\ (fast => obf = FALSE)'
      BY <1>3, <1>4, <2>2, <2>3 DEF KeyboardIsSilent
    <2>7. Pending'
      BY <1>5, <2>3, <2>4, <2>5, <2>6 DEF Pending
    <2> QED BY <1>1, <2>7 DEF Ps2IInv, Stages
  <1>8. CASE Setting
    <2>1. /\ Configured /\ i \in 0..2 /\ NrResends \in 0..MAX_RESENDS /\ i < 2
          /\ NrResends < MAX_RESENDS /\ (i = 0 => NrResends = 0)
      BY <1>3, <1>8 DEF Setting, Configured
    <2>2. i' \in 1..2 /\ NrResends' \in 0..MAX_RESENDS
      BY <1>5, <1>6, <2>1
    <2>3. Configured'
      BY <1>4, <1>5, <2>1, <2>2 DEF Configured, KeyboardBytes, GETSET, SELECT
    <2>4. ASSUME fast PROVE FastSend'
      <3>1. Resting /\ out = <<>>
        BY <1>3, <2>4 DEF Settled, Resting
      <3>2. Answer(data)
        BY <1>3, <1>6, <1>8, <2>4, <3>1 DEF Setting, FastRead
      <3>3. data.kind = "RESEND" \/ (data.kind = "ACK" /\ (i = 1 => scanset = 2))
        BY <3>2, ByteTypes DEF Answer
      <3>4. (i = 1 /\ NrResends > 0 => Response.kind = "RESEND")'
        BY <1>3, <1>5, <2>1, <3>3
      <3>5. (i = 2 /\ Response.kind = "ACK" => scanset = 2)'
        BY <1>3, <1>4, <1>5, <2>1, <3>3
      <3> QED BY <1>3, <1>4, <3>1, <3>4, <3>5 DEF FastSend, Resting
    <2>5. (fast => FastSend /\ FastRead /\ FastEnd)'
      BY <1>4, <1>5, <2>4 DEF FastRead, FastEnd
    <2> QED BY <1>1, <2>3, <2>5 DEF Ps2IInv, Stages, Setting
  <1> QED BY <1>2, <1>7, <1>8

(* Only a registered keyboard has its interrupt routed. *)
LEMMA RouteStep ==
  ASSUME Ps2IInv, Route
  PROVE  Ps2IInv'
  <1>1. Ps2Types'
    BY DEF Ps2IInv, Ps2Types, Route, DriverStep, ps2Keyboard
  <1>2. Setting
    BY DEF Ps2IInv, Stages, Asking, Writing, Pending, Route
  <1>3. Configured'
    BY <1>2 DEF Setting, Configured, KeyboardBytes, GETSET, SELECT, Route, DriverStep
  <1>4. (fast => FastSend /\ FastRead /\ FastEnd)'
    BY <1>2 DEF Setting, FastSend, FastRead, FastEnd, Route, DriverStep, ps2Keyboard
  <1> QED BY <1>1, <1>3, <1>4 DEF Ps2IInv, Stages, Setting

LEMMA KeyboardInterruptStep ==
  ASSUME Ps2IInv, KeyboardInterrupt
  PROVE  Ps2IInv'
  <1>1. Ps2Types'
    BY DEF Ps2IInv, Ps2Types, KeyboardInterrupt, DriverStep, ps2Keyboard, registration
  <1>2. regStep = "registered"
    BY DEF Ps2IInv, Ps2Types, KeyboardInterrupt
  <1>3. Setting
    BY <1>2 DEF Ps2IInv, Stages, Asking, Writing, Pending
  <1>4. Configured'
    BY <1>3 DEF Setting, Configured, KeyboardBytes, GETSET, SELECT, KeyboardInterrupt, DriverStep,
                registration
  <1>5. (fast => FastSend /\ FastRead /\ FastEnd)'
    BY <1>2, <1>3 DEF Setting, FastSend, FastRead, FastEnd, KeyboardInterrupt, DriverStep,
                      ps2Keyboard, registration
  <1> QED BY <1>1, <1>4, <1>5 DEF Ps2IInv, Stages, Setting

LEMMA TakeRequestStep ==
  ASSUME PS2Assumption, Ps2IInv, Take
  PROVE  Ps2IInv'
  <1>1. Ps2Types'
    BY DEF Ps2IInv, Ps2Types, Take, ps2Keyboard, registration
  <1>2. ibf # NoByte /\ job = NoByte /\ job' = ibf /\ ibf' = NoByte
    BY DEF Take
  <1>3. UNCHANGED <<fast, regStep, i, NrResends, Response, data, obf, config, expects, scanset, out>>
    BY DEF Take, registration, ps2Keyboard
  <1>4. KeyboardIsSilent => KeyboardIsSilent'
    BY <1>3 DEF KeyboardIsSilent
  <1>5. READ # NoByte /\ WRITE # NoByte /\ WRITE # READ
    BY RequestsAreBytes, RequestsDiffer
  <1>6. ASSUME Asking PROVE Asking'
    <2>1. regStep = "ccb:read" /\ Pipe(READ, NoByte, FALSE) /\ obf = FALSE
      BY <1>2, <1>5, <1>6 DEF Asking, Pipe
    <2>2. (regStep = "ccb:read" /\ Pipe(NoByte, READ, FALSE) /\ obf = FALSE)'
      BY <1>2, <1>3, <2>1 DEF Pipe, READ
    <2> QED BY <1>3, <1>4, <1>6, <2>2 DEF Asking
  <1>7. ASSUME Writing PROVE Writing'
    <2>1. regStep = "ccb:write" /\ Pipe(WRITE, NoByte, FALSE)
      BY <1>2, <1>5, <1>7 DEF Writing, Pipe
    <2>2. (regStep = "ccb:write" /\ Pipe(NoByte, WRITE, FALSE))'
      BY <1>2, <1>3, <2>1 DEF Pipe, WRITE
    <2>3. (fast => Response = Ccb(InitialConfig) /\ obf = FALSE /\ job # READ)'
      BY <1>2, <1>3, <1>5, <1>7, <2>1 DEF Writing, Pipe, READ
    <2>4. KeyboardIsSilent' /\ (i = 0 /\ config = InitialConfig)'
      BY <1>3, <1>4, <1>7 DEF Writing
    <2> QED BY <2>2, <2>3, <2>4 DEF Writing
  <1>8. ASSUME Pending PROVE Pending'
    <2>1. regStep = "set:send" /\ i = 0 /\ NewConfig(ibf) /\ Pipe(ibf, NoByte, TRUE)
      BY <1>2, <1>5, <1>8, NewConfigFields DEF Pending, Pipe
    <2>2. NewConfig(job)'
      BY <1>2, <1>3, <2>1 DEF NewConfig, Ccb
    <2>3. (regStep = "set:send" /\ i = 0 /\ Pipe(NoByte, job, TRUE))'
      BY <1>2, <1>3, <2>1 DEF Pipe
    <2>4. KeyboardIsSilent' /\ (fast => obf = FALSE)'
      BY <1>3, <1>4, <1>8 DEF Pending
    <2> QED BY <2>2, <2>3, <2>4 DEF Pending
  <1>9. ASSUME Setting PROVE Setting'
    <2>1. Configured'
      BY <1>2, <1>3, <1>9 DEF Setting, Configured, KeyboardBytes, GETSET, SELECT
    <2>2. ASSUME fast PROVE FastSend' /\ FastEnd'
      BY <1>2, <1>3, <1>9, <2>2 DEF Setting, FastSend, FastEnd, Resting
    <2>3. ASSUME fast PROVE FastRead'
      <3> SUFFICES ASSUME regStep = "set:read" PROVE FastRead'
        BY <1>3 DEF FastRead
      <3>2. ibf = Sent /\ obf = FALSE /\ out = <<>>
        BY <1>2, <1>9, <2>3 DEF Setting, FastRead, Resting
      <3>3. Sent' = Sent
        BY <1>3 DEF Sent, GETSET, SELECT
      <3> QED BY <1>2, <1>3, <3>2, <3>3 DEF FastRead
    <2> QED BY <1>3, <2>1, <2>2, <2>3 DEF Setting
  <1> QED BY <1>1, <1>6, <1>7, <1>8, <1>9 DEF Ps2IInv, Stages

(* The keyboard says "resend", or it acknowledges what it has understood. *)
LEMMA KeyboardAnswers ==
  ASSUME Ps2Types, job = Sent, KeyboardTakes(job.byte), UNCHANGED i
  PROVE  \E a \in Bytes : out' = Append(out, a) /\ Answer(a)'
  <1>1. Byte("RESEND") \in Bytes /\ Byte("ACK") \in Bytes
    BY ByteTypes
  <1>2. \A a : (Answer(a)' <=> \/ a = Byte("RESEND")
                                \/ (a = Byte("ACK") /\ (i' = 1 => scanset' = 2)))
    BY DEF Answer, Byte
  <1>3. i = 1 => job.byte.kind = "SET2"
    BY RequestFields DEF Sent
  <1>4. CASE out' = Append(out, Byte("RESEND"))
    BY <1>1, <1>2, <1>4
  <1>5. CASE out' # Append(out, Byte("RESEND"))
    <2>1. out' = Append(out, Byte("ACK"))
      BY <1>5 DEF KeyboardTakes
    <2>2. i = 1 => scanset' = 2
      BY <1>3, <1>5 DEF KeyboardTakes
    <2> QED BY <1>1, <1>2, <2>1, <2>2
  <1> QED BY <1>4, <1>5

LEMMA KeyboardTakesTypes ==
  ASSUME Ps2Types, NEW b, KeyboardTakes(b)
  PROVE  out' \in Seq(Bytes) /\ awaits' \in BOOLEAN /\ scanset' \in {1, 2}
  <1>1. Byte("RESEND") \in Bytes /\ Byte("ACK") \in Bytes
    BY ByteTypes
  <1>2. out' = Append(out, Byte("RESEND")) \/ out' = Append(out, Byte("ACK"))
    BY DEF KeyboardTakes
  <1>3. out' \in Seq(Bytes)
    BY <1>1, <1>2 DEF Ps2Types
  <1>4. awaits' \in BOOLEAN /\ scanset' \in {1, 2}
    BY DEF KeyboardTakes, Ps2Types
  <1> QED BY <1>3, <1>4

LEMMA WorkSetting ==
  ASSUME PS2Assumption, Ps2Types, Setting, Work
  PROVE  Ps2IInv'
  <1>1. job \in {GETSET, SELECT} /\ expects = FALSE /\ job # NoByte
    BY DEF Setting, Configured, KeyboardBytes, Work
  <1>2. KeyboardTakes(job.byte) /\ job' = NoByte
    BY <1>1, WorkKeyboard
  <1>3. UNCHANGED <<data, obf, edge, expects, fast, regStep, i, NrResends, Response, ibf, routed>>
    BY <1>1, WorkKeyboard DEF registration
  <1>11. config' \subseteq config /\ (fast => config' = {"INT"})
    BY <1>1, WorkKeyboard DEF Setting, Configured
  <1>4. out' \in Seq(Bytes) /\ awaits' \in BOOLEAN /\ scanset' \in {1, 2}
    BY <1>2, KeyboardTakesTypes
  <1>5. Ps2Types'
    BY <1>3, <1>4, <1>11 DEF Ps2Types
  <1>6. Configured'
    BY <1>2, <1>3, <1>11 DEF Setting, Configured, KeyboardBytes, GETSET, SELECT
  <1>7. ASSUME fast PROVE FastSend'
    BY <1>1, <1>3, <1>7 DEF Setting, FastSend, Resting
  <1>8. ASSUME fast PROVE FastEnd'
    BY <1>2, <1>3, <1>8 DEF Setting, FastEnd, KeyboardTakes
  <1>9. ASSUME fast, regStep = "set:read" PROVE FastRead'
    <2>1. job = Sent /\ ibf = NoByte /\ obf = FALSE /\ out = <<>>
      BY <1>1, <1>9 DEF Setting, FastRead, Resting
    <2>2. PICK a \in Bytes : out' = Append(out, a) /\ Answer(a)'
      BY <1>2, <1>3, <2>1, KeyboardAnswers
    <2>3. out' = <<a>>
      BY <2>1, <2>2
    <2>4. (Resting /\ obf = FALSE)'
      BY <1>2, <1>3, <2>1 DEF Resting
    <2> QED BY <2>2, <2>3, <2>4 DEF FastRead
  <1>10. (fast => FastSend /\ FastRead /\ FastEnd)'
    BY <1>3, <1>7, <1>8, <1>9 DEF FastRead
  <1> QED BY <1>5, <1>6, <1>10 DEF Ps2IInv, Stages, Setting

LEMMA WorkAsking ==
  ASSUME PS2Assumption, Ps2Types, Asking, Work
  PROVE  Ps2IInv'
  <1>1. job # NoByte
    BY DEF Work
  <1>2. regStep = "ccb:read" /\ Pipe(NoByte, READ, FALSE) /\ obf = FALSE
    BY <1>1 DEF Asking, Pipe
  <1>3. KeyboardIsSilent /\ i = 0 /\ config = InitialConfig /\ job = READ
    BY <1>2 DEF Asking, Pipe
  <1>4. /\ data' = Ccb(config) /\ obf' = TRUE /\ edge' = (edge \/ (routed /\ "INT" \in config))
        /\ job' = NoByte
    BY <1>3, WorkRead DEF Offer
  <1>5. /\ UNCHANGED <<config, expects, fast, regStep, i, NrResends, Response, ibf, routed>>
        /\ UNCHANGED <<scanset, awaits, out>>
    BY <1>3, WorkRead DEF registration, ps2Keyboard
  <1>6. data' = Ccb(InitialConfig) /\ data' \in Bytes /\ data'.kind = "CCB"
    BY <1>3, <1>4, ByteTypes
  <1>7. edge' = FALSE
    BY <1>2, <1>4 DEF Ps2Types
  <1>8. Ps2Types'
    BY <1>2, <1>4, <1>5, <1>6, <1>7 DEF Ps2Types
  <1>9. KeyboardIsSilent' /\ (i = 0 /\ config = InitialConfig)'
    BY <1>3, <1>5, <1>6 DEF KeyboardIsSilent
  <1>10. (regStep = "ccb:read" /\ Pipe(NoByte, NoByte, FALSE) /\ obf = TRUE /\ data = Ccb(InitialConfig))'
    BY <1>2, <1>4, <1>5, <1>6 DEF Pipe, Ccb
  <1>11. Asking'
    BY <1>9, <1>10 DEF Asking
  <1> QED BY <1>8, <1>11 DEF Ps2IInv, Stages

LEMMA WorkWriting ==
  ASSUME PS2Assumption, Ps2Types, Writing, Work
  PROVE  Ps2IInv'
  <1>1. job # NoByte
    BY DEF Work
  <1>2. \/ job = READ /\ obf = FALSE /\ ~fast
        \/ job = WRITE /\ regStep = "ccb:write" /\ Pipe(NoByte, WRITE, FALSE)
    BY <1>1 DEF Writing, Pipe, Ps2Types
  <1>3. KeyboardIsSilent /\ i = 0 /\ config = InitialConfig /\ regStep \in {"ccb:command", "ccb:write"}
    BY DEF Writing
  <1>4. CASE job = READ /\ obf = FALSE /\ ~fast
    <2>1. \/ regStep = "ccb:command" /\ Pipe(NoByte, READ, FALSE)
          \/ regStep = "ccb:write" /\ Pipe(WRITE, READ, FALSE)
      BY <1>1, <1>4, RequestsDiffer DEF Writing, Pipe
    <2>2. /\ data' = Ccb(config) /\ obf' = TRUE /\ edge' = (edge \/ (routed /\ "INT" \in config))
          /\ job' = NoByte
      BY <1>4, WorkRead DEF Offer
    <2>3. /\ UNCHANGED <<config, expects, fast, regStep, i, NrResends, Response, ibf, routed>>
          /\ UNCHANGED <<scanset, awaits, out>>
      BY <1>4, WorkRead DEF registration, ps2Keyboard
    <2>4. data' \in Bytes /\ data'.kind = "CCB"
      BY <1>3, <2>2, ByteTypes
    <2>5. edge' = FALSE
      BY <1>3, <2>2 DEF Ps2Types
    <2>6. Ps2Types'
      BY <1>3, <2>2, <2>3, <2>4, <2>5 DEF Ps2Types
    <2>7. KeyboardIsSilent' /\ (i = 0 /\ config = InitialConfig)' /\ (~fast)'
      BY <1>3, <1>4, <2>3, <2>4 DEF KeyboardIsSilent
    <2>8. (\/ regStep = "ccb:command" /\ Pipe(NoByte, NoByte, FALSE)
           \/ regStep = "ccb:write" /\ Pipe(WRITE, NoByte, FALSE))'
      BY <2>1, <2>2, <2>3 DEF Pipe, WRITE
    <2>9. Writing'
      BY <2>7, <2>8 DEF Writing
    <2> QED BY <2>6, <2>9 DEF Ps2IInv, Stages
  <1>5. CASE job = WRITE /\ regStep = "ccb:write" /\ Pipe(NoByte, WRITE, FALSE)
    <2>1. expects' = TRUE /\ job' = NoByte
      BY <1>5, WorkWrite
    <2>2. /\ UNCHANGED <<data, obf, edge, config, fast, regStep, i, NrResends, Response, ibf, routed>>
          /\ UNCHANGED <<scanset, awaits, out>>
      BY <1>5, WorkWrite DEF registration, ps2Keyboard
    <2>3. Ps2Types'
      BY <2>2 DEF Ps2Types
    <2>4. KeyboardIsSilent' /\ (i = 0 /\ config = InitialConfig)'
      BY <1>3, <2>2 DEF KeyboardIsSilent
    <2>5. (regStep = "ccb:write" /\ Pipe(NoByte, NoByte, TRUE))'
      BY <1>5, <2>1, <2>2 DEF Pipe
    <2>6. (job # READ)'
      BY <2>1, RequestsAreBytes DEF READ, Byte
    <2>7. (fast => Response = Ccb(InitialConfig) /\ obf = FALSE /\ job # READ)'
      BY <2>2, <2>6 DEF Writing
    <2>8. Writing'
      BY <2>4, <2>5, <2>7 DEF Writing
    <2> QED BY <2>3, <2>8 DEF Ps2IInv, Stages
  <1> QED BY <1>2, <1>4, <1>5

(* The configuration arrives, and the set-up of the keyboard starts. *)
LEMMA WorkPending ==
  ASSUME PS2Assumption, Ps2Types, Pending, Work
  PROVE  Ps2IInv'
  <1>1. job # NoByte
    BY DEF Work
  <1>2. \/ regStep = "set:send" /\ i = 0 /\ NewConfig(ibf) /\ Pipe(ibf, WRITE, FALSE)
        \/ /\ NewConfig(job) /\ expects = TRUE
           /\ \/ regStep = "set:send" /\ i = 0 /\ ibf = NoByte
              \/ regStep = "set:read" /\ i = 0 /\ ibf = GETSET
              \/ regStep = "set:send" /\ i = 1 /\ ibf = GETSET /\ ~fast
    BY <1>1 DEF Pending, Pipe
  <1>3. KeyboardIsSilent /\ (fast => obf = FALSE)
    BY DEF Pending
  <1>4. CASE regStep = "set:send" /\ i = 0 /\ NewConfig(ibf) /\ Pipe(ibf, WRITE, FALSE)
    <2>1. job = WRITE
      BY <1>4 DEF Pipe
    <2>2. expects' = TRUE /\ job' = NoByte
      BY <2>1, WorkWrite
    <2>3. /\ UNCHANGED <<data, obf, edge, config, fast, regStep, i, NrResends, Response, ibf, routed>>
          /\ UNCHANGED <<scanset, awaits, out>>
      BY <2>1, WorkWrite DEF registration, ps2Keyboard
    <2>4. Ps2Types'
      BY <2>3 DEF Ps2Types
    <2>5. KeyboardIsSilent' /\ (fast => obf = FALSE)'
      BY <1>3, <2>3 DEF KeyboardIsSilent
    <2>6. NewConfig(ibf)'
      BY <1>4, <2>3 DEF NewConfig, Ccb
    <2>7. (regStep = "set:send" /\ i = 0 /\ Pipe(ibf, NoByte, TRUE))'
      BY <1>4, <2>2, <2>3 DEF Pipe
    <2>8. Pending'
      BY <2>5, <2>6, <2>7 DEF Pending
    <2> QED BY <2>4, <2>8 DEF Ps2IInv, Stages
  <1>5. CASE /\ NewConfig(job) /\ expects = TRUE
             /\ \/ regStep = "set:send" /\ i = 0 /\ ibf = NoByte
                \/ regStep = "set:read" /\ i = 0 /\ ibf = GETSET
                \/ regStep = "set:send" /\ i = 1 /\ ibf = GETSET /\ ~fast
    <2>1. config' = job.byte.flags /\ expects' = FALSE /\ job' = NoByte
      BY <1>5, WorkConfig
    <2>2. /\ UNCHANGED <<data, obf, edge, fast, regStep, i, NrResends, Response, ibf, routed>>
          /\ UNCHANGED <<scanset, awaits, out>>
      BY <1>5, WorkConfig DEF registration, ps2Keyboard
    <2>3. config' \subseteq {"INT", "DISABLED"} /\ (fast => config' = {"INT"})
      BY <1>5, <2>1, NewConfigFields
    <2>4. config' \subseteq ConfigFlags
      BY <2>3 DEF InitialConfig, ConfigFlags
    <2>5. Ps2Types'
      BY <2>2, <2>4 DEF Ps2Types
    <2>6. NrResends = 0 /\ out = <<>> /\ MAX_RESENDS \in Nat /\ MAX_RESENDS > 0
      BY <1>3 DEF KeyboardIsSilent, PS2Assumption
    <2>7. (ibf \in KeyboardBytes /\ job \in KeyboardBytes)'
      BY <1>5, <2>1, <2>2 DEF KeyboardBytes, GETSET
    <2>8. (/\ regStep \in {"set:send", "set:read", "route", "registered", "failed"}
           /\ i \in 0..2 /\ NrResends \in 0..MAX_RESENDS
           /\ regStep = "set:read" => i < 2 /\ NrResends < MAX_RESENDS
           /\ i = 0 => NrResends = 0)'
      BY <1>5, <2>2, <2>6
    <2>9. Configured'
      BY <2>1, <2>2, <2>3, <2>7, <2>8 DEF Configured
    <2>10. ASSUME fast PROVE FastSend' /\ FastEnd'
      BY <1>3, <1>5, <2>1, <2>2, <2>6, <2>10, RequestsAreBytes DEF FastSend, FastEnd, Resting
    <2>11. ASSUME fast, regStep = "set:read" PROVE FastRead'
      <3>1. ibf' = Sent'
        BY <1>5, <2>2, <2>11 DEF Sent, GETSET
      <3> QED BY <1>3, <2>1, <2>2, <2>6, <2>11, <3>1 DEF FastRead
    <2>12. (fast => FastSend /\ FastRead /\ FastEnd)'
      BY <2>2, <2>10, <2>11 DEF FastRead
    <2> QED BY <2>5, <2>9, <2>12 DEF Ps2IInv, Stages, Setting
  <1> QED BY <1>2, <1>4, <1>5

LEMMA HandOverStep ==
  ASSUME PS2Assumption, Ps2IInv, HandOver
  PROVE  Ps2IInv'
  <1>1. out # <<>> /\ ~obf /\ data' = Head(out) /\ obf' = TRUE /\ out' = Tail(out)
        /\ edge' = (edge \/ (routed /\ "INT" \in config))
    BY DEF HandOver, Offer
  <1>2. UNCHANGED <<fast, regStep, i, NrResends, Response, ibf, job, config, expects, scanset, awaits, routed>>
    BY DEF HandOver, registration
  <1>3. Setting
    BY <1>1 DEF Ps2IInv, Stages, Asking, Writing, Pending, KeyboardIsSilent
  <1>4. out \in Seq(Bytes)
    BY DEF Ps2IInv, Ps2Types
  <1>5. data' \in Bytes /\ out' \in Seq(Bytes)
    BY <1>1, <1>4
  <1>6. edge' \in BOOLEAN /\ (regStep # "registered" => edge' = FALSE)
    BY <1>1 DEF Ps2IInv, Ps2Types
  <1>7. Ps2Types'
    BY <1>1, <1>2, <1>5, <1>6 DEF Ps2IInv, Ps2Types
  <1>8. Configured'
    BY <1>2, <1>3 DEF Setting, Configured, KeyboardBytes, GETSET, SELECT
  <1>9. ASSUME fast PROVE FastSend' /\ FastEnd'
    BY <1>1, <1>2, <1>3, <1>9 DEF Setting, FastSend, FastEnd
  <1>10. ASSUME fast, regStep = "set:read" PROVE FastRead'
    <2>1. PICK a \in Bytes : Resting /\ out = <<a>> /\ Answer(a)
      BY <1>1, <1>3, <1>10 DEF Setting, FastRead
    <2>2. data' = a /\ out' = <<>>
      BY <1>1, <2>1
    <2>3. Answer(data)'
      BY <1>2, <2>1, <2>2 DEF Answer, Byte
    <2>4. Resting'
      BY <1>2, <2>1 DEF Resting
    <2> QED BY <1>1, <2>2, <2>3, <2>4 DEF FastRead
  <1>11. (fast => FastSend /\ FastRead /\ FastEnd)'
    BY <1>2, <1>9, <1>10 DEF FastRead
  <1> QED BY <1>7, <1>8, <1>11 DEF Ps2IInv, Stages, Setting

LEMMA PressKeyStep ==
  ASSUME Ps2IInv, PressKey
  PROVE  Ps2IInv'
  <1>1. regStep = "registered" /\ out' = Append(out, Byte("SCAN"))
    BY DEF PressKey
  <1>2. /\ UNCHANGED <<fast, regStep, i, NrResends, Response, ibf, job, data, obf, config, expects>>
        /\ UNCHANGED <<scanset, awaits, routed, edge>>
    BY DEF PressKey, registration
  <1>3. out' \in Seq(Bytes)
    BY <1>1, ByteTypes DEF Ps2IInv, Ps2Types
  <1>4. Ps2Types'
    BY <1>2, <1>3 DEF Ps2IInv, Ps2Types
  <1>5. Setting
    BY <1>1 DEF Ps2IInv, Stages, Asking, Writing, Pending
  <1>6. Configured'
    BY <1>2, <1>5 DEF Setting, Configured, KeyboardBytes, GETSET, SELECT
  <1>7. (fast => FastSend /\ FastRead /\ FastEnd)'
    BY <1>1, <1>2, <1>5 DEF Setting, FastSend, FastRead, FastEnd
  <1> QED BY <1>4, <1>6, <1>7 DEF Ps2IInv, Stages, Setting

LEMMA Ps2Stutter ==
  ASSUME Ps2IInv, UNCHANGED ps2Vars
  PROVE  Ps2IInv'
  <1>1. /\ UNCHANGED <<fast, regStep, i, NrResends, Response, ibf, job, data, obf, config, expects>>
        /\ UNCHANGED <<scanset, awaits, out, routed, edge>>
    BY DEF ps2Vars, registration, ps2Keyboard
  <1>2. Ps2Types'
    BY <1>1 DEF Ps2IInv, Ps2Types
  <1>3. Stages'
    BY <1>1 DEF Ps2IInv, Stages, Asking, Writing, Pending, Setting, Configured, KeyboardIsSilent,
                Pipe, NewConfig, FastSend, FastRead, FastEnd, Resting, Answer, Sent, KeyboardBytes,
                READ, WRITE, GETSET, SELECT, Byte, Ccb, InitialConfig, ConfigFlags, Bytes
  <1> QED BY <1>2, <1>3 DEF Ps2IInv

LEMMA Ps2NextIInv ==
  ASSUME PS2Assumption, Ps2IInv, [Ps2Next]_ps2Vars
  PROVE  Ps2IInv'
  <1>1. CASE PS2_KeyboardDriverRegister
    BY <1>1, IssueToCommandPortStep, ReadConfigurationStep, WriteConfigurationStep,
       IssueToKeyboardStep, ReadAnswerStep, RouteStep DEF PS2_KeyboardDriverRegister
  <1>2. CASE KeyboardInterrupt
    BY <1>2, KeyboardInterruptStep
  <1>3. CASE Hardware
    <2>1. CASE Work
      BY <2>1, WorkAsking, WorkWriting, WorkPending, WorkSetting DEF Ps2IInv, Stages
    <2> QED BY <1>3, <2>1, TakeRequestStep, HandOverStep DEF Hardware
  <1>4. CASE PressKey
    BY <1>4, PressKeyStep
  <1>5. CASE UNCHANGED ps2Vars
    BY <1>5, Ps2Stutter
  <1> QED BY <1>1, <1>2, <1>3, <1>4, <1>5 DEF Ps2Next

LEMMA StagesConfigure ==
  ASSUME PS2Assumption, Ps2IInv
  PROVE  KeyboardIsConfigured
  <1>1. Len(SetScanset2) = 2 /\ MAX_RESENDS \in Nat
    BY SentBytes DEF PS2Assumption
  <1>2. i \in 0..2
    <2>1. Asking \/ Writing \/ Pending => i = 0 \/ i = 1
      BY Zenon DEF Asking, Writing, Pending
    <2> QED BY <2>1 DEF Ps2IInv, Stages, Setting, Configured
  <1>3. NrResends \in 0..MAX_RESENDS
    <2>1. Asking \/ Writing \/ Pending => NrResends = 0
      BY DEF Asking, Writing, Pending, KeyboardIsSilent
    <2> QED BY <1>1, <2>1 DEF Ps2IInv, Stages, Setting, Configured
  <1>4. Ps2TypeOK
    BY <1>1, <1>2, <1>3 DEF Ps2TypeOK, Ps2IInv, Ps2Types
  <1>5. ASSUME regStep \in {"route", "registered"}
        PROVE  config \subseteq {"INT", "DISABLED"} /\ (fast => config = {"INT"} /\ scanset = 2)
    <2>1. Setting
      BY <1>5 DEF Ps2IInv, Stages, Asking, Writing, Pending
    <2> QED BY <1>5, <2>1 DEF Setting, Configured, FastEnd
  <1>6. RegisteredIsConfigured /\ TranslationIsOff
    BY <1>5 DEF RegisteredIsConfigured, TranslationIsOff
  <1> QED BY <1>4, <1>6 DEF KeyboardIsConfigured

(* A keyboard that PS2_KeyboardDriverRegister registers has the            *)
(* translation off, and, when the hardware answers before the driver       *)
(* looks, scancode set 2 and its interrupt on: for any number of resends   *)
(* the driver allows, faults of the keyboard and keys pressed.             *)
THEOREM KeyboardConfigured ==
  ASSUME PS2Assumption
  PROVE  Ps2Spec => []KeyboardIsConfigured
  <1>1. Ps2Init => Ps2IInv
    BY Ps2InitIInv
  <1>2. Ps2IInv /\ [Ps2Next]_ps2Vars => Ps2IInv'
    BY Ps2NextIInv
  <1>3. Ps2IInv => KeyboardIsConfigured
    BY StagesConfigure
  <1> QED BY <1>1, <1>2, <1>3, PTL DEF Ps2Spec
=============================================================================
