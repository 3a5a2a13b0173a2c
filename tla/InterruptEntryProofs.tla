------------------------ MODULE InterruptEntryProofs ------------------------
(***************************************************************************)
(* Interrupts nest on one stack, to any depth: proofs about                *)
(* InterruptEntry.                                                         *)
(*                                                                         *)
(* The invariant speaks of every activation, not only of the innermost:    *)
(* which words of the stack are its own, what they hold, and that all      *)
(* later activations lie above them.  An outer activation is frozen in the *)
(* step, at the depth and with the registers that the next one found when  *)
(* it began, so that what is true of the innermost activation is still     *)
(* true of it when it is interrupted, and true again when it goes on.      *)
(***************************************************************************)
EXTENDS InterruptEntry, SequenceTheorems, TLAPS

Tags == {"SS", "RSP", "RFLAGS", "CS", "RIP", "EC", "vector", "register", "local"}
Words == [what : Tags, n : Int]
Steps == {"code", "stub", "save", "dispatch", "restore", "iretq"} \cup {"halt", "meltdown"}
Activations == [vector : Vectors, regs : [1..NREGS -> Words], depth : Nat,
                intFlag : BOOLEAN, step : Steps]

Typed ==
    /\ stack \in Seq(Words) /\ regs \in [1..NREGS -> Words]
    /\ intFlag \in BOOLEAN /\ isr \subseteq {TIMER, DEVICE}
    /\ step \in Steps /\ levels \in Seq(Activations)

(* Where activation k is: its step, its stack pointer and its registers,   *)
(* now or when the next activation began.                                  *)
StepOf(k) == IF k = Level THEN step ELSE levels[k + 1].step
DepthOf(k) == IF k = Level THEN Depth ELSE levels[k + 1].depth
RegsOf(k) == IF k = Level THEN regs ELSE levels[k + 1].regs

(* Its frame begins at the aligned depth at which it was entered.          *)
Base(k) == levels[k].depth + (levels[k].depth % 2)
InC(s) == s \in {"code", "halt", "meltdown"}
HoldsVector(s) == s \in {"save", "dispatch", "restore"} \/ InC(s)
HoldsRegs(s) == s \in {"dispatch", "restore"} \/ InC(s)

(* The number of words in its frame.                                       *)
Held(k) == CASE HoldsRegs(StepOf(k)) -> 7 + NREGS
             [] StepOf(k) = "save" -> 7
             [] StepOf(k) = "stub" /\ levels[k].vector \in PUSHES_EC -> 6
             [] OTHER -> 5
End(k) == Base(k) + Held(k)

(* C code may have more than the frame on the stack, assembly has not.     *)
Placed(k) ==
    /\ End(k) <= Depth /\ End(k) <= DepthOf(k)
    /\ \A j \in k + 1..Level : End(k) <= levels[j].depth
    /\ ~InC(StepOf(k)) => DepthOf(k) = End(k)

(* What the words of the frame hold, and where the registers of the        *)
(* interrupted code are: in the frame, or in the processor.                *)
Saved(k) ==
    /\ stack[Base(k) + 2] = Word("RSP", levels[k].depth)
    /\ stack[Base(k) + 3] = Word("RFLAGS", IF levels[k].intFlag THEN 1 ELSE 0)
    /\ stack[Base(k) + 5] = Word("RIP", k - 1)
Coded(k) ==
    /\ HoldsVector(StepOf(k)) =>
         /\ stack[Base(k) + 6] = Word("EC", IF levels[k].vector \in PUSHES_EC
                                            THEN levels[k].vector ELSE 0)
         /\ stack[Base(k) + 7] = Word("vector", levels[k].vector)
    /\ StepOf(k) = "stub" /\ levels[k].vector \in PUSHES_EC =>
         stack[Base(k) + 6] = Word("EC", levels[k].vector)
Kept(k) ==
    /\ HoldsRegs(StepOf(k)) =>
         \A r \in 1..NREGS : stack[Base(k) + 7 + r] = levels[k].regs[r]
    /\ ~HoldsRegs(StepOf(k)) => RegsOf(k) = levels[k].regs

Framed(k) == Placed(k) /\ Saved(k) /\ Coded(k) /\ Kept(k)
Frames == \A k \in 1..Level : Framed(k)

(* Only an interrupt leaves C code; what has ended is never interrupted.   *)
Entered ==
    /\ Level = 0 => step = "code"
    /\ Level > 0 => levels[1].step = "code"
    /\ \A k \in 1..Level : levels[k].step \notin Ended

(* The interrupts of the local APIC whose handlers have not returned are   *)
(* those in service, and each has a higher vector than those it            *)
(* interrupted: the end of interrupt ends the innermost.                   *)
Open(k) == levels[k].vector \in {TIMER, DEVICE} /\ StepOf(k) \notin {"restore", "iretq"}
InService ==
    /\ \A v \in {TIMER, DEVICE} : v \in isr <=> \E k \in 1..Level : Open(k) /\ levels[k].vector = v
    /\ \A j, k \in 1..Level : j < k /\ Open(j) /\ Open(k) => levels[j].vector < levels[k].vector

IInv == Typed /\ Frames /\ Entered /\ InService
-----------------------------------------------------------------------------
(***************************************************************************)
(* Words and sequences of words.                                           *)
(***************************************************************************)
LEMMA WordTyped ==
    ASSUME NEW w \in Tags, NEW i \in Int
    PROVE  Word(w, i) \in Words
    BY DEF Word, Words

LEMMA WordInjective ==
    ASSUME NEW w \in Tags, NEW i \in Int
    PROVE  Word(w, i).what = w /\ Word(w, i).n = i
    BY DEF Word

LEMMA CLocalsTyped ==
    ASSUME NEW m \in Nat
    PROVE  CLocals(m) \in Seq(Words) /\ Len(CLocals(m)) = m
    <1>1. Word("local", 0) \in Words
        BY DEF Word, Words, Tags
    <1>2. CLocals(m) \in [1..m -> Words]
        BY <1>1 DEF CLocals
    <1> QED BY <1>2

(* Pushing leaves what is there; cutting leaves what is below.             *)
Extended(words) ==
    /\ stack' \in Seq(Words) /\ Len(stack') = Depth + Len(words)
    /\ \A i \in 1..Depth : stack'[i] = stack[i]
    /\ \A i \in 1..Len(words) : stack'[Depth + i] = words[i]
Shortened(m) ==
    /\ stack' \in Seq(Words) /\ Len(stack') = m
    /\ \A i \in 1..m : stack'[i] = stack[i]

LEMMA PushExtends ==
    ASSUME stack \in Seq(Words), NEW words \in Seq(Words), Push(words)
    PROVE  Extended(words)
    <1>1. stack' = stack \o words
        BY DEF Push
    <1>2. /\ stack \o words \in Seq(Words)
          /\ Len(stack \o words) = Len(stack) + Len(words)
          /\ \A i \in 1..Len(stack) + Len(words) :
               (stack \o words)[i] = IF i <= Len(stack) THEN stack[i] ELSE words[i - Len(stack)]
        BY ConcatProperties
    <1>3. Len(stack) \in Nat /\ Len(words) \in Nat
        OBVIOUS
    <1>4. \A i \in 1..Len(stack) : stack'[i] = stack[i]
        BY <1>1, <1>2, <1>3
    <1>5. \A i \in 1..Len(words) : stack'[Len(stack) + i] = words[i]
        BY <1>1, <1>2, <1>3
    <1> QED BY <1>1, <1>2, <1>4, <1>5 DEF Extended, Depth

LEMMA CutShortens ==
    ASSUME stack \in Seq(Words), NEW m \in 0..Depth, stack' = SubSeq(stack, 1, m)
    PROVE  Shortened(m)
    <1>1. \A i \in 1..m : stack[i] \in Words
        BY DEF Depth
    <1>2. m \in Int /\ (IF 1 <= m THEN m - 1 + 1 ELSE 0) = m /\ m - 1 + 1 = m
        BY DEF Depth
    <1>3. /\ SubSeq(stack, 1, m) \in Seq(Words)
          /\ Len(SubSeq(stack, 1, m)) = IF 1 <= m THEN m - 1 + 1 ELSE 0
          /\ \A i \in 1..m - 1 + 1 : SubSeq(stack, 1, m)[i] = stack[1 + i - 1]
        BY <1>1, <1>2, SubSeqProperties
    <1>4. \A i \in 1..m : SubSeq(stack, 1, m)[i] = stack[i]
        BY <1>2, <1>3
    <1> QED BY <1>2, <1>3, <1>4 DEF Shortened

-----------------------------------------------------------------------------
(***************************************************************************)
(* Frames.                                                                 *)
(***************************************************************************)
LEMMA Located ==
    ASSUME EntryAssumption, Typed, NEW k \in 1..Level
    PROVE  /\ levels[k] \in Activations
           /\ Base(k) \in Nat /\ Base(k) >= levels[k].depth /\ Base(k) % 2 = 0
           /\ Held(k) \in Nat /\ Held(k) >= 5 /\ End(k) \in Nat /\ End(k) = Base(k) + Held(k)
           /\ Depth \in Nat /\ Level \in Nat
    <1>0. levels[k] \in Activations
        BY ElementOfSeq DEF Typed, Level
    <1>1. levels[k] \in Activations /\ levels[k].depth \in Nat
        BY <1>0 DEF Activations
    <1>2. Base(k) \in Nat /\ Base(k) >= levels[k].depth /\ Base(k) % 2 = 0
        BY <1>1 DEF Base
    <1>3. Held(k) \in Nat /\ Held(k) >= 5
        BY DEF Held, EntryAssumption
    <1> QED BY <1>1, <1>2, <1>3 DEF End, Typed, Depth, Level

LEMMA HeldWords ==
    ASSUME NEW k
    PROVE  /\ HoldsRegs(StepOf(k)) => Held(k) = 7 + NREGS
           /\ StepOf(k) = "save" => Held(k) = 7
           /\ StepOf(k) = "stub" => Held(k) = IF levels[k].vector \in PUSHES_EC THEN 6 ELSE 5
           /\ StepOf(k) = "iretq" => Held(k) = 5
    BY DEF Held, HoldsRegs, InC

LEMMA HoldsFacts ==
    ASSUME NEW s \in Steps
    PROVE  /\ HoldsRegs(s) <=> s \notin {"stub", "save", "iretq"}
           /\ HoldsVector(s) <=> s \notin {"stub", "iretq"}
    BY DEF Steps, HoldsRegs, HoldsVector, InC

LEMMA StepTyped ==
    ASSUME Typed, NEW k \in 1..Level
    PROVE  StepOf(k) \in Steps
    <1>1. CASE k = Level
        BY <1>1 DEF Typed, StepOf
    <1>2. CASE k # Level
        <2>1. k + 1 \in 1..Len(levels)
            BY <1>2 DEF Typed, Level
        <2>2. levels[k + 1] \in Activations
            BY <2>1, ElementOfSeq DEF Typed
        <2>3. levels[k + 1].step \in Steps
            BY <2>2 DEF Activations
        <2> QED BY <1>2, <2>3 DEF StepOf
    <1> QED BY <1>1, <1>2

(* An activation whose frame is left alone keeps it.                       *)
Undisturbed(k) ==
    /\ k \in 1..Level /\ k \in 1..Level' /\ levels'[k] = levels[k]
    /\ StepOf(k)' = StepOf(k) /\ DepthOf(k)' = DepthOf(k)
    /\ RegsOf(k)' = RegsOf(k) \/ HoldsRegs(StepOf(k))
    /\ End(k) <= Depth'
    /\ \A j \in k + 1..Level' : End(k) <= levels'[j].depth
    /\ \A i \in 1..End(k) : stack'[i] = stack[i]

LEMMA FrameKept ==
    ASSUME EntryAssumption, Typed, NEW k, Undisturbed(k), Framed(k)
    PROVE  Framed(k)'
    <1>1. /\ k \in 1..Level /\ levels'[k] = levels[k] /\ StepOf(k)' = StepOf(k)
          /\ DepthOf(k)' = DepthOf(k)
          /\ RegsOf(k)' = RegsOf(k) \/ HoldsRegs(StepOf(k))
          /\ End(k) <= Depth' /\ \A j \in k + 1..Level' : End(k) <= levels'[j].depth
          /\ \A i \in 1..End(k) : stack'[i] = stack[i]
        BY DEF Undisturbed
    <1>2. Base(k)' = Base(k)
        BY <1>1 DEF Base
    <1>3. Held(k)' = Held(k) /\ End(k)' = End(k)
        BY <1>1, <1>2 DEF Held, End
    <1>4. Placed(k)'
        <2>1. End(k) <= DepthOf(k) /\ (~InC(StepOf(k)) => DepthOf(k) = End(k))
            BY DEF Framed, Placed
        <2> HIDE DEF End, DepthOf, StepOf, Depth, Level, InC
        <2>2. /\ End(k)' <= Depth' /\ End(k)' <= DepthOf(k)'
              /\ \A j \in k + 1..Level' : End(k)' <= levels'[j].depth
            BY <1>1, <1>3, <2>1
        <2>3. ~InC(StepOf(k)') => DepthOf(k)' = End(k)'
            BY <1>1, <1>3, <2>1
        <2> QED BY <2>2, <2>3 DEF Placed
    <1>5. Base(k) \in Nat /\ Held(k) >= 5 /\ Held(k) \in Nat /\ End(k) = Base(k) + Held(k)
        BY <1>1, Located
    <1>6. Saved(k)'
        <2>1. {Base(k) + 2, Base(k) + 3, Base(k) + 5} \subseteq 1..End(k)
            BY <1>5
        <2> QED BY <1>1, <1>2, <2>1 DEF Framed, Saved
    <1>7. Coded(k)'
        <2>1. CASE HoldsVector(StepOf(k))
            <3>1. Held(k) >= 7
                BY <2>1, HeldWords DEF HoldsVector, HoldsRegs, EntryAssumption
            <3>2. Base(k) + 6 \in 1..End(k) /\ Base(k) + 7 \in 1..End(k) /\ StepOf(k) # "stub"
                BY <1>5, <2>1, <3>1 DEF HoldsVector, InC
            <3> QED BY <1>1, <1>2, <2>1, <3>2 DEF Framed, Coded
        <2>2. CASE StepOf(k) = "stub" /\ levels[k].vector \in PUSHES_EC
            <3>1. Held(k) = 6
                BY <2>2, HeldWords
            <3>2. Base(k) + 6 \in 1..End(k)
                BY <1>5, <3>1
            <3>3. ~HoldsVector(StepOf(k))
                BY <2>2 DEF HoldsVector, InC
            <3> QED BY <1>1, <1>2, <2>2, <3>2, <3>3 DEF Framed, Coded
        <2> QED BY <1>1, <2>1, <2>2 DEF Coded
    <1>8. Kept(k)'
        <2>1. CASE HoldsRegs(StepOf(k))
            <3>1. Held(k) = 7 + NREGS /\ NREGS \in Nat
                BY <2>1, HeldWords DEF EntryAssumption
            <3>2. \A r \in 1..NREGS : Base(k) + 7 + r \in 1..End(k)
                BY <1>5, <3>1
            <3> QED BY <1>1, <1>2, <2>1, <3>2 DEF Framed, Kept
        <2>2. CASE ~HoldsRegs(StepOf(k))
            BY <1>1, <2>2 DEF Framed, Kept
        <2> QED BY <2>1, <2>2
    <1> QED BY <1>4, <1>6, <1>7, <1>8 DEF Framed

(* A step of the innermost activation on its own part of the stack leaves  *)
(* the others alone.                                                       *)
LEMMA OuterFramesKept ==
    ASSUME EntryAssumption, Typed, Frames, levels' = levels, Level > 0,
           Depth' \in Nat, Depth' >= levels[Level].depth,
           \A i \in 1..levels[Level].depth : stack'[i] = stack[i],
           NEW k \in 1..Level - 1
    PROVE  Framed(k)'
    <1>1. Level \in Nat /\ k \in 1..Level /\ Level \in k + 1..Level /\ Level' = Level /\ k # Level
        BY DEF Typed, Level
    <1>2. Framed(k) /\ Placed(k)
        BY <1>1 DEF Frames, Framed
    <1>3. End(k) \in Nat
        BY <1>1, Located
    <1>4. levels[Level].depth \in Nat
        BY <1>1, Located DEF Activations
    <1>5. End(k) <= levels[Level].depth /\ \A j \in k + 1..Level : End(k) <= levels[j].depth
        BY <1>1, <1>2 DEF Placed
    <1>6. StepOf(k)' = StepOf(k) /\ DepthOf(k)' = DepthOf(k) /\ RegsOf(k)' = RegsOf(k)
        BY <1>1 DEF StepOf, DepthOf, RegsOf
    <1>7. End(k) <= Depth' /\ \A i \in 1..End(k) : stack'[i] = stack[i]
        BY <1>3, <1>4, <1>5
    <1>8. Undisturbed(k)
        BY <1>1, <1>5, <1>6, <1>7 DEF Undisturbed
    <1> QED BY <1>2, <1>8, FrameKept

LEMMA FramesFromInnermost ==
    ASSUME EntryAssumption, Typed, Frames, levels' = levels, Level > 0,
           Depth' \in Nat, Depth' >= levels[Level].depth,
           \A i \in 1..levels[Level].depth : stack'[i] = stack[i],
           \A k : k = Level => Framed(k)'
    PROVE  Frames'
    <1>1. Level' = Level /\ Level \in Nat
        BY DEF Level, Typed
    <1>2. \A k \in 1..Level - 1 : Framed(k)'
        BY OuterFramesKept
    <1>3. \A k \in 1..Level : k = Level \/ k \in 1..Level - 1
        BY <1>1
    <1>4. SUFFICES ASSUME NEW k \in 1..Level PROVE Framed(k)'
        BY <1>1 DEF Frames
    <1>5. CASE k \in 1..Level - 1
        BY <1>2, <1>5
    <1>6. CASE k = Level
        BY <1>6
    <1> QED BY <1>3, <1>5, <1>6
-----------------------------------------------------------------------------
(***************************************************************************)
(* The processor enters an interrupt.                                      *)
(***************************************************************************)
Aligned == Depth + (Depth % 2)

EnterPushed(v) ==
    /\ stack' \in Seq(Words) /\ Depth' = Aligned + IF v \in PUSHES_EC THEN 6 ELSE 5
    /\ \A i \in 1..Depth : stack'[i] = stack[i]
    /\ stack'[Aligned + 2] = Word("RSP", Depth)
    /\ stack'[Aligned + 3] = Word("RFLAGS", IF intFlag THEN 1 ELSE 0)
    /\ stack'[Aligned + 5] = Word("RIP", Level)
    /\ v \in PUSHES_EC => stack'[Aligned + 6] = Word("EC", v)

LEMMA EnterPushes ==
    ASSUME EntryAssumption, Typed, NEW v \in Vectors, Enter(v)
    PROVE  EnterPushed(v)
    <1> DEFINE padding == CLocals(Depth % 2)
               flag == IF intFlag THEN 1 ELSE 0
               saved == <<Word("SS", Level), Word("RSP", Depth), Word("RFLAGS", flag),
                          Word("CS", Level), Word("RIP", Level)>>
               words == IF v \in PUSHES_EC THEN Append(saved, Word("EC", v)) ELSE saved
               count == IF v \in PUSHES_EC THEN 6 ELSE 5
    <1>1. Push(padding \o words)
        BY DEF Enter
    <1>2. Depth \in Nat /\ Level \in Nat /\ Depth % 2 \in Nat /\ flag \in Int /\ v \in Int
        BY DEF Typed, Depth, Level, Vectors, Exceptions, Irqs, BREAKPOINT, TIMER, DEVICE, SPURIOUS,
               NMI, PAGE_FAULT
    <1>3. padding \in Seq(Words) /\ Len(padding) = Depth % 2
        BY <1>2, CLocalsTyped
    <1>4. /\ Word("SS", Level) \in Words /\ Word("RSP", Depth) \in Words
          /\ Word("RFLAGS", flag) \in Words /\ Word("CS", Level) \in Words
          /\ Word("RIP", Level) \in Words /\ Word("EC", v) \in Words
        BY <1>2, WordTyped DEF Tags
    <1>5. /\ saved \in Seq(Words) /\ Len(saved) = 5 /\ saved[2] = Word("RSP", Depth)
          /\ saved[3] = Word("RFLAGS", flag) /\ saved[5] = Word("RIP", Level)
        <2> HIDE DEF flag
        <2> QED BY <1>4
    <1> HIDE DEF saved
    <1>6. /\ words \in Seq(Words) /\ Len(words) = count /\ words[2] = Word("RSP", Depth)
          /\ words[3] = Word("RFLAGS", flag) /\ words[5] = Word("RIP", Level)
          /\ v \in PUSHES_EC => words[6] = Word("EC", v)
        <2>1. CASE v \in PUSHES_EC
            <3> DEFINE ec == Word("EC", v)
            <3>0. saved \in Seq(Words) /\ ec \in Words
                BY <1>4, <1>5
            <3> HIDE DEF ec
            <3>1. /\ Append(saved, ec) \in Seq(Words)
                  /\ Len(Append(saved, ec)) = Len(saved) + 1
                  /\ \A i \in 1..Len(saved) : Append(saved, ec)[i] = saved[i]
                  /\ Append(saved, ec)[Len(saved) + 1] = ec
                BY <3>0, AppendProperties
            <3>2. words = Append(saved, ec) /\ count = 6
                BY <2>1 DEF ec
            <3> HIDE DEF words, count
            <3>3. words \in Seq(Words) /\ Len(words) = count /\ words[6] = ec
                BY <1>5, <3>1, <3>2
            <3>4. words[2] = saved[2] /\ words[3] = saved[3] /\ words[5] = saved[5]
                BY <1>5, <3>1, <3>2
            <3> QED BY <1>5, <3>3, <3>4 DEF ec
        <2>2. CASE v \notin PUSHES_EC
            BY <1>5, <2>2
        <2> QED BY <2>1, <2>2
    <1> HIDE DEF words, padding, flag
    <1>7. /\ padding \o words \in Seq(Words)
          /\ Len(padding \o words) = Len(padding) + Len(words)
          /\ \A i \in 1..Len(padding) + Len(words) :
               (padding \o words)[i] = IF i <= Len(padding) THEN padding[i] ELSE words[i - Len(padding)]
        BY <1>3, <1>6, ConcatProperties
    <1>8. Len(padding \o words) = (Depth % 2) + count /\ count \in 5..6
        BY <1>3, <1>6, <1>7
    <1>9. ASSUME NEW i \in 1..count PROVE (padding \o words)[(Depth % 2) + i] = words[i]
        <2>1. Len(words) = count /\ Len(padding) = Depth % 2 /\ Depth % 2 \in Nat /\ count \in Nat
            BY <1>2, <1>3, <1>6, <1>8
        <2> HIDE DEF count
        <2> DEFINE both == padding \o words
                   m == (Depth % 2) + i
        <2>3. \A l \in 1..Len(padding) + Len(words) :
                both[l] = IF l <= Len(padding) THEN padding[l] ELSE words[l - Len(padding)]
            BY <1>7
        <2>4. m \in 1..Len(padding) + Len(words) /\ ~(m <= Len(padding)) /\ m - Len(padding) = i
            BY <2>1
        <2> HIDE DEF both, m
        <2>5. both[m] = words[i]
            BY <2>3, <2>4
        <2> QED BY <2>5 DEF both, m
    <1>10. Extended(padding \o words)
        BY <1>1, <1>7, PushExtends DEF Typed
    <1>11. stack' \in Seq(Words) /\ \A i \in 1..Depth : stack'[i] = stack[i]
        BY <1>10 DEF Extended
    <1>12. Depth' = Aligned + count
        BY <1>2, <1>8, <1>10 DEF Extended, Depth, Aligned
    <1>13. ASSUME NEW i \in 1..count PROVE stack'[Aligned + i] = words[i]
        <2>1. (Depth % 2) + i \in 1..Len(padding \o words) /\ Depth + ((Depth % 2) + i) = Aligned + i
            BY <1>2, <1>8 DEF Aligned
        <2>2. stack'[Depth + ((Depth % 2) + i)] = (padding \o words)[(Depth % 2) + i]
            BY <1>10, <2>1 DEF Extended
        <2> QED BY <1>9, <2>1, <2>2
    <1>14. {2, 3, 5} \subseteq 1..count /\ (v \in PUSHES_EC => 6 \in 1..count)
        OBVIOUS
    <1> QED BY <1>6, <1>11, <1>12, <1>13, <1>14 DEF EnterPushed, flag

LEMMA VectorsAreInts == \A v \in Vectors : v \in Nat /\ v \in Int
    BY DEF Vectors, Exceptions, Irqs, BREAKPOINT, TIMER, DEVICE, SPURIOUS, NMI, PAGE_FAULT

(* The activation that begins, above the others.                           *)
Begun(v) == [vector |-> v, regs |-> regs, depth |-> Depth, intFlag |-> intFlag, step |-> step]
LevelAdded(v) ==
    /\ levels' \in Seq(Activations) /\ Level' = Level + 1
    /\ \A k \in 1..Level : levels'[k] = levels[k]
    /\ levels'[Level + 1] = Begun(v)

LEMMA EnterAddsLevel ==
    ASSUME Typed, NEW v \in Vectors, Enter(v)
    PROVE  LevelAdded(v)
    <1>1. levels' = Append(levels, Begun(v))
        BY DEF Enter, Begun
    <1>2. Begun(v) \in Activations
        BY DEF Typed, Begun, Activations, Depth
    <1>3. /\ Append(levels, Begun(v)) \in Seq(Activations)
          /\ Len(Append(levels, Begun(v))) = Len(levels) + 1
          /\ \A i \in 1..Len(levels) : Append(levels, Begun(v))[i] = levels[i]
          /\ Append(levels, Begun(v))[Len(levels) + 1] = Begun(v)
        BY <1>2, AppendProperties DEF Typed
    <1> HIDE DEF Begun
    <1> QED BY <1>1, <1>3 DEF LevelAdded, Level

(* Every activation that was there is frozen as it was.                    *)
Frozen ==
    \A k \in 1..Level : /\ StepOf(k)' = StepOf(k) /\ DepthOf(k)' = DepthOf(k)
                        /\ RegsOf(k)' = RegsOf(k)

LEMMA EnterFreezes ==
    ASSUME Typed, NEW v \in Vectors, Enter(v)
    PROVE  Frozen
    <1>1. LevelAdded(v)
        BY EnterAddsLevel
    <1>2. Level \in Nat /\ Level' = Level + 1 /\ levels'[Level + 1] = Begun(v)
          /\ \A k \in 1..Level : levels'[k] = levels[k]
        BY <1>1 DEF LevelAdded, Typed, Level
    <1>3. Begun(v).step = step /\ Begun(v).depth = Depth /\ Begun(v).regs = regs
        BY DEF Begun
    <1> SUFFICES ASSUME NEW k \in 1..Level
                 PROVE  /\ StepOf(k)' = StepOf(k) /\ DepthOf(k)' = DepthOf(k)
                        /\ RegsOf(k)' = RegsOf(k)
        BY DEF Frozen
    <1>4. k # Level' /\ (k # Level => k + 1 \in 1..Level)
        BY <1>2
    <1>5. CASE k = Level
        BY <1>2, <1>3, <1>4, <1>5 DEF StepOf, DepthOf, RegsOf
    <1>6. CASE k # Level
        BY <1>2, <1>4, <1>6 DEF StepOf, DepthOf, RegsOf
    <1> QED BY <1>5, <1>6

LEMMA EnterFrames ==
    ASSUME EntryAssumption, IInv, NEW v \in Vectors, Enter(v)
    PROVE  Frames'
    <1>1. Typed /\ Frames
        BY DEF IInv
    <1>2. EnterPushed(v) /\ LevelAdded(v) /\ Frozen
        BY <1>1, EnterPushes, EnterAddsLevel, EnterFreezes
    <1>3. /\ Level \in Nat /\ Depth \in Nat /\ Level' = Level + 1 /\ Aligned \in Nat
          /\ Depth' \in Nat /\ Depth' >= Depth
        BY <1>1, <1>2 DEF Typed, Level, Depth, LevelAdded, EnterPushed, Aligned
    <1>4. /\ \A k \in 1..Level : levels'[k] = levels[k]
          /\ levels'[Level + 1] = Begun(v) /\ Begun(v).depth = Depth
        BY <1>2 DEF LevelAdded, Begun
    <1>5. ASSUME NEW k \in 1..Level PROVE Framed(k)'
        <2>1. Framed(k) /\ Placed(k) /\ End(k) \in Nat
            BY <1>1, <1>5, Located DEF Frames, Framed
        <2>2. End(k) <= Depth /\ \A j \in k + 1..Level : End(k) <= levels[j].depth
            BY <2>1 DEF Placed
        <2>3. \A j \in k + 1..Level' : End(k) <= levels'[j].depth
            <3> SUFFICES ASSUME NEW j \in k + 1..Level' PROVE End(k) <= levels'[j].depth
                OBVIOUS
            <3>1. j = Level + 1 \/ (j \in k + 1..Level /\ j \in 1..Level)
                BY <1>3
            <3> QED BY <1>4, <2>2, <3>1
        <2>4. End(k) <= Depth' /\ \A i \in 1..End(k) : stack'[i] = stack[i]
            BY <1>2, <1>3, <2>1, <2>2 DEF EnterPushed
        <2>5. k \in 1..Level'
            BY <1>3
        <2>6. Undisturbed(k)
            BY <1>2, <1>4, <2>3, <2>4, <2>5 DEF Undisturbed, Frozen
        <2> QED BY <1>1, <2>1, <2>6, FrameKept
    <1>6. ASSUME NEW k, k = Level + 1 PROVE Framed(k)'
        <2>1. levels'[k] = Begun(v) /\ k = Level'
            BY <1>3, <1>4, <1>6
        <2>2. StepOf(k)' = "stub" /\ DepthOf(k)' = Depth' /\ RegsOf(k)' = regs
            BY <2>1 DEF StepOf, DepthOf, RegsOf, Enter
        <2>3. Base(k)' = Aligned
            BY <1>4, <2>1 DEF Base, Aligned
        <2>4. /\ levels'[k].vector = v /\ levels'[k].regs = regs
              /\ levels'[k].depth = Depth
            BY <2>1 DEF Begun
        <2>5. Held(k)' = IF v \in PUSHES_EC THEN 6 ELSE 5
            BY <2>2, <2>4 DEF Held, HoldsRegs, InC
        <2>6. Depth' = End(k)'
            BY <1>2, <2>3, <2>5 DEF EnterPushed, End
        <2>7. Placed(k)'
            <3>1. k + 1..Level' = {}
                BY <1>3, <1>6
            <3> QED BY <1>3, <2>2, <2>6, <3>1 DEF Placed
        <2>8. Saved(k)'
            <3>1. levels'[k].intFlag = intFlag /\ k - 1 = Level
                BY <1>3, <1>6, <2>1 DEF Begun
            <3> QED BY <1>2, <2>3, <2>4, <3>1 DEF Saved, EnterPushed
        <2>9. Coded(k)'
            BY <1>2, <2>2, <2>3, <2>4 DEF Coded, HoldsVector, InC, EnterPushed
        <2>10. Kept(k)'
            BY <2>2, <2>4 DEF Kept, HoldsRegs, InC
        <2> QED BY <2>7, <2>8, <2>9, <2>10 DEF Framed
    <1>7. SUFFICES ASSUME NEW k \in 1..Level' PROVE Framed(k)'
        BY DEF Frames
    <1>8. k \in 1..Level \/ k = Level + 1
        BY <1>3
    <1> QED BY <1>5, <1>6, <1>8
-----------------------------------------------------------------------------
(***************************************************************************)
(* Steps of the innermost activation.                                      *)
(***************************************************************************)
LEMMA Innermost ==
    ASSUME EntryAssumption, IInv, levels' = levels, Level > 0, NEW k, k = Level
    PROVE  /\ k \in 1..Level /\ Level \in Nat /\ Depth \in Nat /\ Level' = Level
           /\ StepOf(k) = step /\ DepthOf(k) = Depth /\ RegsOf(k) = regs
           /\ StepOf(k)' = step' /\ DepthOf(k)' = Depth' /\ RegsOf(k)' = regs'
           /\ Base(k) \in Nat /\ Base(k)' = Base(k) /\ End(k) = Base(k) + Held(k)
           /\ Base(k) >= levels[k].depth /\ levels[k].depth \in Nat /\ Base(k) % 2 = 0
           /\ End(k)' = Base(k) + Held(k)'
           /\ Framed(k) /\ Placed(k) /\ Saved(k) /\ Coded(k) /\ Kept(k)
    <1>1. Typed /\ Frames
        BY DEF IInv
    <1>2. Level \in Nat /\ k \in 1..Level /\ Level' = Level /\ Depth \in Nat
        BY <1>1 DEF Typed, Level, Depth
    <1>3. /\ Base(k) \in Nat /\ End(k) = Base(k) + Held(k) /\ Base(k) >= levels[k].depth
          /\ levels[k] \in Activations /\ Base(k) % 2 = 0
        BY <1>1, <1>2, Located
    <1>4. levels[k].depth \in Nat
        BY <1>3 DEF Activations
    <1>5. Base(k)' = Base(k)
        BY DEF Base
    <1>6. End(k)' = Base(k) + Held(k)'
        BY <1>5 DEF End
    <1>7. /\ StepOf(k) = step /\ DepthOf(k) = Depth /\ RegsOf(k) = regs
          /\ StepOf(k)' = step' /\ DepthOf(k)' = Depth' /\ RegsOf(k)' = regs'
        BY <1>2 DEF StepOf, DepthOf, RegsOf
    <1>8. Framed(k) /\ Placed(k) /\ Saved(k) /\ Coded(k) /\ Kept(k)
        BY <1>1, <1>2 DEF Frames, Framed
    <1> QED BY <1>2, <1>3, <1>4, <1>5, <1>6, <1>7, <1>8

LEMMA InnermostPlaced ==
    ASSUME EntryAssumption, IInv, levels' = levels, Level > 0, NEW k, k = Level,
           Depth' \in Nat, End(k)' <= Depth', InC(step') \/ Depth' = End(k)'
    PROVE  Placed(k)'
    <1>1. StepOf(k)' = step' /\ DepthOf(k)' = Depth' /\ Level' = Level /\ Level \in Nat
        BY Innermost
    <1>2. k + 1..Level' = {}
        BY <1>1
    <1> QED BY <1>1, <1>2 DEF Placed

LEMMA InnermostSaved ==
    ASSUME EntryAssumption, IInv, levels' = levels, Level > 0, NEW k, k = Level,
           \A i \in 1..Base(k) + 5 : stack'[i] = stack[i]
    PROVE  Saved(k)'
    <1>1. Base(k) \in Nat /\ Base(k)' = Base(k) /\ Saved(k)
        BY Innermost
    <1>2. {Base(k) + 2, Base(k) + 3, Base(k) + 5} \subseteq 1..Base(k) + 5
        BY <1>1
    <1> QED BY <1>1, <1>2 DEF Saved

(* The innermost activation reaches its next stage: the frames follow from *)
(* its own.                                                                *)
LEMMA StageFrames ==
    ASSUME EntryAssumption, IInv, levels' = levels, Level > 0, Depth' \in Nat,
           \A k : k = Level => /\ Base(k) + 5 <= Depth' /\ End(k)' <= Depth'
                               /\ InC(step') \/ Depth' = End(k)'
                               /\ \A i \in 1..Base(k) + 5 : stack'[i] = stack[i]
                               /\ Coded(k)' /\ Kept(k)'
    PROVE  Frames'
    <1> DEFINE k == Level
    <1>1. k = Level /\ Typed /\ Frames
        BY DEF IInv
    <1> HIDE DEF k
    <1>2. /\ Base(k) + 5 <= Depth'
          /\ \A i \in 1..Base(k) + 5 : stack'[i] = stack[i]
        BY <1>1
    <1>3. ASSUME NEW l, l = Level PROVE Framed(l)'
        <2>1. Placed(l)'
            BY <1>3, InnermostPlaced
        <2>2. Saved(l)'
            BY <1>3, InnermostSaved
        <2>3. Coded(l)' /\ Kept(l)'
            BY <1>3
        <2> QED BY <2>1, <2>2, <2>3 DEF Framed
    <1>4. Base(k) \in Nat /\ levels[k].depth \in Nat /\ Base(k) >= levels[k].depth
        BY <1>1, Innermost
    <1>5. \A i \in 1..levels[k].depth : stack'[i] = stack[i]
        BY <1>2, <1>4
    <1>7. Depth' >= levels[k].depth
        BY <1>2, <1>4
    <1>8. Depth' >= levels[Level].depth /\ \A i \in 1..levels[Level].depth : stack'[i] = stack[i]
        BY <1>1, <1>5, <1>7
    <1> QED BY <1>1, <1>3, <1>8, FramesFromInnermost

LEMMA ServiceKept ==
    ASSUME IInv, isr' = isr, levels' = levels,
           \A k \in 1..Level : Open(k)' <=> Open(k)
    PROVE  InService'
    <1>1. Level' = Level
        BY DEF Level
    <1> QED BY <1>1 DEF IInv, InService

(* No stage but the return of the handler changes what is in service.      *)
LEMMA StageService ==
    ASSUME IInv, isr' = isr, levels' = levels,
           step \in {"restore", "iretq"} <=> step' \in {"restore", "iretq"}
    PROVE  InService'
    <1>1. Level' = Level
        BY DEF Level
    <1>2. ASSUME NEW k \in 1..Level PROVE Open(k)' <=> Open(k)
        BY <1>1, <1>2 DEF Open, StepOf
    <1> QED BY <1>2, ServiceKept

LEMMA StageEntered ==
    ASSUME IInv, levels' = levels, Level > 0
    PROVE  Entered'
    BY DEF IInv, Typed, Entered, Level

LEMMA LevelPositive ==
    ASSUME IInv, step # "code"
    PROVE  Level > 0
    BY DEF IInv, Entered, Typed, Level
LEMMA StubStep ==
    ASSUME EntryAssumption, IInv, KrInterruptServiceRoutine
    PROVE  IInv'
    <1>1. /\ step = "stub" /\ step' = "save" /\ levels' = levels /\ isr' = isr /\ regs' = regs
          /\ intFlag' = intFlag
        BY DEF KrInterruptServiceRoutine
    <1>2. Typed /\ Level > 0
        BY <1>1, LevelPositive DEF IInv
    <1> DEFINE v == levels[Level].vector
               added == IF v \in PUSHES_EC THEN <<Word("vector", v)>>
                        ELSE <<Word("EC", 0), Word("vector", v)>>
    <1>3. levels[Level] \in Activations /\ v \in Vectors /\ v \in Int
        <2>1. Level \in 1..Level
            BY <1>2 DEF Typed, Level
        <2>2. levels[Level] \in Activations
            BY <1>2, <2>1, Located
        <2>3. v \in Vectors
            BY <2>2 DEF Activations
        <2> QED BY <2>2, <2>3, VectorsAreInts
    <1>4. IsrWithEc(v) <=> v \in PUSHES_EC
        BY <1>3 DEF IsrWithEc, PUSHES_EC, Vectors, Exceptions, Irqs, BREAKPOINT, TIMER, DEVICE,
                    SPURIOUS, NMI, PAGE_FAULT
    <1>5. Push(added)
        BY <1>4 DEF KrInterruptServiceRoutine, Vector
    <1>6. Word("vector", v) \in Words /\ Word("EC", 0) \in Words
        BY <1>3, WordTyped DEF Tags
    <1>7. /\ added \in Seq(Words)
          /\ v \in PUSHES_EC => Len(added) = 1 /\ added[1] = Word("vector", v)
          /\ v \notin PUSHES_EC => /\ Len(added) = 2 /\ added[1] = Word("EC", 0)
                                   /\ added[2] = Word("vector", v)
        BY <1>6
    <1> HIDE DEF added
    <1>8. Extended(added)
        BY <1>2, <1>5, <1>7, PushExtends DEF Typed
    <1>9. /\ Depth' = Depth + Len(added) /\ Len(added) \in 1..2 /\ Depth' \in Nat /\ Depth \in Nat
          /\ \A i \in 1..Depth : stack'[i] = stack[i]
          /\ \A i \in 1..Len(added) : stack'[Depth + i] = added[i]
        BY <1>2, <1>7, <1>8 DEF Extended, Depth, Typed
    <1>10. Frames'
        <2> SUFFICES ASSUME NEW k, k = Level
                     PROVE  /\ Base(k) + 5 <= Depth' /\ End(k)' <= Depth'
                            /\ InC(step') \/ Depth' = End(k)'
                            /\ \A i \in 1..Base(k) + 5 : stack'[i] = stack[i]
                            /\ Coded(k)' /\ Kept(k)'
            BY <1>1, <1>2, <1>9, StageFrames
        <2>1. /\ StepOf(k) = step /\ DepthOf(k) = Depth /\ RegsOf(k) = regs
              /\ StepOf(k)' = step' /\ RegsOf(k)' = regs'
              /\ Base(k) \in Nat /\ Base(k)' = Base(k) /\ End(k) = Base(k) + Held(k)
              /\ End(k)' = Base(k) + Held(k)' /\ Placed(k) /\ Coded(k) /\ Kept(k)
            BY <1>1, <1>2, Innermost
        <2>2. Held(k) = (IF v \in PUSHES_EC THEN 6 ELSE 5) /\ Depth = Base(k) + Held(k)
            BY <1>1, <2>1, HeldWords DEF Placed, InC
        <2>3. Held(k)' = 7
            BY <1>1, <2>1 DEF Held, HoldsRegs, InC
        <2>4. Depth' = End(k)' /\ Base(k) + 5 <= Depth'
            BY <1>7, <1>9, <2>1, <2>2, <2>3
        <2>5. \A i \in 1..Base(k) + 5 : stack'[i] = stack[i]
            BY <1>9, <2>1, <2>2
        <2>6. /\ stack'[Base(k) + 6] = Word("EC", IF v \in PUSHES_EC THEN v ELSE 0)
              /\ stack'[Base(k) + 7] = Word("vector", v)
            <3>1. CASE v \in PUSHES_EC
                <4>1. /\ Depth = Base(k) + 6 /\ Base(k) + 6 \in 1..Depth /\ Depth + 1 = Base(k) + 7
                      /\ 1 \in 1..Len(added)
                    BY <1>7, <2>1, <2>2, <3>1
                <4>2. stack'[Depth + 1] = added[1] /\ stack'[Base(k) + 6] = stack[Base(k) + 6]
                    BY <1>9, <4>1
                <4>3. stack[Base(k) + 6] = Word("EC", v)
                    BY <1>1, <2>1, <3>1 DEF Coded
                <4> QED BY <1>7, <3>1, <4>1, <4>2, <4>3
            <3>2. CASE v \notin PUSHES_EC
                <4>1. /\ Depth + 1 = Base(k) + 6 /\ Depth + 2 = Base(k) + 7
                      /\ 1 \in 1..Len(added) /\ 2 \in 1..Len(added)
                    BY <1>7, <2>1, <2>2, <3>2
                <4>2. stack'[Depth + 1] = added[1] /\ stack'[Depth + 2] = added[2]
                    BY <1>9, <4>1
                <4> QED BY <1>7, <3>2, <4>1, <4>2
            <3> QED BY <3>1, <3>2
        <2>7. Coded(k)'
            BY <1>1, <2>1, <2>6 DEF Coded
        <2>8. Kept(k)'
            BY <1>1, <2>1 DEF Kept, HoldsRegs, InC
        <2> QED BY <2>4, <2>5, <2>7, <2>8, <1>9
    <1>11. Typed'
        BY <1>1, <1>2, <1>8 DEF Typed, Extended, Steps
    <1>12. InService' /\ Entered'
        BY <1>1, <1>2, StageService, StageEntered
    <1> QED BY <1>10, <1>11, <1>12 DEF IInv

LEMMA SaveStep ==
    ASSUME EntryAssumption, IInv, WrapperSave
    PROVE  IInv'
    <1>1. /\ step = "save" /\ step' = "dispatch" /\ levels' = levels /\ isr' = isr /\ regs' = regs
          /\ intFlag' = intFlag /\ Push(regs)
        BY DEF WrapperSave
    <1>2. Typed /\ Level > 0 /\ NREGS \in Nat
        BY <1>1, LevelPositive DEF IInv, EntryAssumption
    <1>3. regs \in Seq(Words) /\ Len(regs) = NREGS
        BY <1>2 DEF Typed
    <1>4. Extended(regs)
        BY <1>1, <1>2, <1>3, PushExtends DEF Typed
    <1>5. /\ Depth' = Depth + NREGS /\ Depth' \in Nat /\ Depth \in Nat
          /\ \A i \in 1..Depth : stack'[i] = stack[i]
          /\ \A i \in 1..NREGS : stack'[Depth + i] = regs[i]
        BY <1>2, <1>3, <1>4 DEF Extended, Depth, Typed
    <1>6. Frames'
        <2> SUFFICES ASSUME NEW k, k = Level
                     PROVE  /\ Base(k) + 5 <= Depth' /\ End(k)' <= Depth'
                            /\ InC(step') \/ Depth' = End(k)'
                            /\ \A i \in 1..Base(k) + 5 : stack'[i] = stack[i]
                            /\ Coded(k)' /\ Kept(k)'
            BY <1>1, <1>2, <1>5, StageFrames
        <2>1. /\ StepOf(k) = step /\ DepthOf(k) = Depth /\ RegsOf(k) = regs
              /\ StepOf(k)' = step' /\ RegsOf(k)' = regs'
              /\ Base(k) \in Nat /\ Base(k)' = Base(k) /\ End(k) = Base(k) + Held(k)
              /\ End(k)' = Base(k) + Held(k)' /\ Placed(k) /\ Coded(k) /\ Kept(k)
            BY <1>1, <1>2, Innermost
        <2>2. Held(k) = 7 /\ Depth = Base(k) + 7
            BY <1>1, <2>1, HeldWords DEF Placed, InC
        <2>3. Held(k)' = 7 + NREGS
            BY <1>1, <2>1 DEF Held, HoldsRegs, InC
        <2>4. Depth' = End(k)' /\ Base(k) + 5 <= Depth'
            BY <1>2, <1>5, <2>1, <2>2, <2>3
        <2>5. \A i \in 1..Base(k) + 7 : stack'[i] = stack[i]
            BY <1>5, <2>2
        <2>6. \A i \in 1..Base(k) + 5 : stack'[i] = stack[i]
            BY <2>1, <2>5
        <2>7. Coded(k)'
            <3>1. Base(k) + 6 \in 1..Base(k) + 7 /\ Base(k) + 7 \in 1..Base(k) + 7
                BY <2>1
            <3> QED BY <1>1, <2>1, <2>5, <3>1 DEF Coded, HoldsVector, InC
        <2>8. Kept(k)'
            BY <1>1, <1>5, <2>1, <2>2 DEF Kept, HoldsRegs, InC
        <2> QED BY <2>4, <2>6, <2>7, <2>8, <1>5
    <1>7. Typed'
        BY <1>1, <1>2, <1>4 DEF Typed, Extended, Steps
    <1>8. InService' /\ Entered'
        BY <1>1, <1>2, StageService, StageEntered
    <1> QED BY <1>6, <1>7, <1>8 DEF IInv
LEMMA DispatchStep ==
    ASSUME EntryAssumption, IInv, KrDispatchInterrupt
    PROVE  IInv'
    <1>1. /\ step = "dispatch" /\ InC(step') /\ levels' = levels /\ isr' = isr /\ regs' = regs
          /\ intFlag' = intFlag
        BY DEF KrDispatchInterrupt, InC
    <1>2. Typed /\ Level > 0 /\ NREGS \in Nat
        BY <1>1, LevelPositive DEF IInv, EntryAssumption
    <1>3. PICK m \in Locals : Push(CLocals(m))
        BY DEF KrDispatchInterrupt
    <1>4. m \in Nat /\ CLocals(m) \in Seq(Words) /\ Len(CLocals(m)) = m
        BY CLocalsTyped DEF EntryAssumption
    <1>5. Extended(CLocals(m))
        BY <1>2, <1>3, <1>4, PushExtends DEF Typed
    <1>6. /\ Depth' >= Depth /\ Depth' \in Nat /\ Depth \in Nat
          /\ \A i \in 1..Depth : stack'[i] = stack[i]
        BY <1>2, <1>4, <1>5 DEF Extended, Depth, Typed
    <1>7. Frames'
        <2> SUFFICES ASSUME NEW k, k = Level
                     PROVE  /\ Base(k) + 5 <= Depth' /\ End(k)' <= Depth'
                            /\ InC(step') \/ Depth' = End(k)'
                            /\ \A i \in 1..Base(k) + 5 : stack'[i] = stack[i]
                            /\ Coded(k)' /\ Kept(k)'
            BY <1>1, <1>2, <1>6, StageFrames
        <2>1. /\ StepOf(k) = step /\ DepthOf(k) = Depth
              /\ StepOf(k)' = step'
              /\ Base(k) \in Nat /\ Base(k)' = Base(k) /\ End(k) = Base(k) + Held(k)
              /\ End(k)' = Base(k) + Held(k)' /\ Placed(k) /\ Coded(k) /\ Kept(k)
            BY <1>1, <1>2, Innermost
        <2>2. Held(k) = 7 + NREGS /\ Depth = Base(k) + 7 + NREGS
            BY <1>1, <1>2, <2>1, HeldWords DEF Placed, HoldsRegs, InC
        <2>3. HoldsRegs(StepOf(k)) /\ HoldsVector(StepOf(k)) /\ HoldsRegs(step') /\ HoldsVector(step')
              /\ step' # "stub"
            BY <1>1, <2>1 DEF HoldsRegs, HoldsVector, InC
        <2>4. Held(k)' = 7 + NREGS
            BY <1>1, <2>1 DEF Held, HoldsRegs, InC
        <2>5. End(k)' <= Depth' /\ Base(k) + 5 <= Depth'
            BY <1>2, <1>6, <2>1, <2>2, <2>4
        <2>6. \A i \in 1..Base(k) + 5 : stack'[i] = stack[i]
            BY <1>2, <1>6, <2>1, <2>2
        <2>7. Coded(k)'
            <3>1. Base(k) + 6 \in 1..Depth /\ Base(k) + 7 \in 1..Depth
                BY <1>2, <2>1, <2>2
            <3>2. stack'[Base(k) + 6] = stack[Base(k) + 6] /\ stack'[Base(k) + 7] = stack[Base(k) + 7]
                BY <1>6, <3>1
            <3> QED BY <1>1, <2>1, <2>3, <3>2 DEF Coded
        <2>8. Kept(k)'
            <3>1. \A r \in 1..NREGS : Base(k) + 7 + r \in 1..Depth
                BY <1>2, <2>1, <2>2
            <3> QED BY <1>1, <1>6, <2>1, <2>3, <3>1 DEF Kept
        <2> QED BY <1>1, <2>5, <2>6, <2>7, <2>8
    <1>8. Typed'
        BY <1>1, <1>2, <1>5 DEF Typed, Extended, Steps, InC
    <1>9. InService' /\ Entered'
        BY <1>1, <1>2, StageService, StageEntered DEF InC
    <1> QED BY <1>7, <1>8, <1>9 DEF IInv

LEMMA RestoreStep ==
    ASSUME EntryAssumption, IInv, WrapperRestore
    PROVE  IInv'
    <1>1. /\ step = "restore" /\ step' = "iretq" /\ levels' = levels /\ isr' = isr
          /\ intFlag' = intFlag /\ regs' = [r \in 1..NREGS |-> Pop(r)]
          /\ stack' = SubSeq(stack, 1, Depth - (NREGS + 2))
        BY DEF WrapperRestore, Without
    <1>2. Typed /\ Level > 0 /\ NREGS \in Nat
        BY <1>1, LevelPositive DEF IInv, EntryAssumption
    <1>3. PICK k : k = Level
        OBVIOUS
    <1>4. /\ StepOf(k) = step /\ DepthOf(k) = Depth /\ k \in 1..Level
          /\ StepOf(k)' = step' /\ RegsOf(k)' = regs' /\ Depth \in Nat
          /\ Base(k) \in Nat /\ Base(k)' = Base(k) /\ End(k) = Base(k) + Held(k)
          /\ End(k)' = Base(k) + Held(k)' /\ Placed(k) /\ Coded(k) /\ Kept(k)
        BY <1>1, <1>2, <1>3, Innermost
    <1>5. Held(k) = 7 + NREGS /\ Depth = Base(k) + 7 + NREGS
        BY <1>1, <1>2, <1>4, HeldWords DEF Placed, HoldsRegs, InC
    <1>6. Base(k) + 5 \in 0..Depth /\ Depth - (NREGS + 2) = Base(k) + 5
        BY <1>2, <1>4, <1>5
    <1>7. Shortened(Base(k) + 5)
        BY <1>1, <1>2, <1>6, CutShortens DEF Typed
    <1>8. Depth' = Base(k) + 5 /\ \A i \in 1..Base(k) + 5 : stack'[i] = stack[i]
        BY <1>7 DEF Shortened, Depth
    <1>9. levels[k] \in Activations /\ levels[k].regs \in [1..NREGS -> Words]
        BY <1>2, <1>4, Located DEF Activations
    <1>10. regs' = levels[k].regs
        <2>1. ASSUME NEW r \in 1..NREGS PROVE Pop(r) = levels[k].regs[r]
            <3>1. Depth - (NREGS - r) = Base(k) + 7 + r
                BY <1>2, <1>4, <1>5
            <3>2. Pop(r) = stack[Base(k) + 7 + r]
                BY <3>1 DEF Pop, Top
            <3>3. HoldsRegs(StepOf(k))
                BY <1>1, <1>4 DEF HoldsRegs
            <3> QED BY <1>4, <3>2, <3>3 DEF Kept
        <2> QED BY <1>1, <1>9, <2>1
    <1>11. Held(k)' = 5
        BY <1>1, <1>4 DEF Held, HoldsRegs, InC
    <1>12. Coded(k)' /\ Kept(k)'
        BY <1>1, <1>4, <1>10 DEF Coded, Kept, HoldsVector, HoldsRegs, InC
    <1>13. /\ Base(k) + 5 <= Depth' /\ End(k)' <= Depth' /\ Depth' = End(k)' /\ Depth' \in Nat
           /\ \A i \in 1..Base(k) + 5 : stack'[i] = stack[i]
        BY <1>4, <1>8, <1>11
    <1>14. \A l : l = Level => l = k
        BY <1>3
    <1>15. Frames'
        BY <1>1, <1>2, <1>12, <1>13, <1>14, StageFrames
    <1>16. Typed'
        BY <1>1, <1>2, <1>7, <1>9, <1>10 DEF Typed, Shortened, Steps
    <1>17. InService' /\ Entered'
        BY <1>1, <1>2, StageService, StageEntered
    <1> QED BY <1>15, <1>16, <1>17 DEF IInv
(* The end of interrupt ends the vector of the innermost activation.       *)
LEMMA ReturnService ==
    ASSUME EntryAssumption, IInv, Return
    PROVE  InService'
    <1>1. /\ step = "code" /\ Level > 0 /\ step' = "restore" /\ levels' = levels
          /\ isr' = IF IssuesEnd(Vector) THEN ApicIssueEndOfInt ELSE isr
        BY DEF Return
    <1>2. Typed /\ InService
        BY DEF IInv
    <1>3. PICK l : l = Level
        OBVIOUS
    <1>4. l \in 1..Level /\ Level \in Nat /\ Level' = Level
        BY <1>1, <1>2, <1>3 DEF Typed, Level
    <1>5. levels[l].vector \in Vectors
        BY <1>2, <1>4, Located DEF Activations
    <1>6. ~Open(l)' /\ \A k \in 1..Level : k # l => (Open(k)' <=> Open(k))
        BY <1>1, <1>3, <1>4 DEF Open, StepOf
    <1>7. Open(l) <=> levels[l].vector \in {TIMER, DEVICE}
        BY <1>1, <1>3 DEF Open, StepOf
    <1>8. isr \subseteq {TIMER, DEVICE} /\ TIMER = 32 /\ DEVICE = 48
        BY <1>2 DEF Typed, TIMER, DEVICE
    <1>9. CASE levels[l].vector \in {TIMER, DEVICE}
        <2> DEFINE v == levels[l].vector
        <2>1. isr' = {s \in isr : \E t \in isr : s < t}
            <3>1. IssuesEnd(Vector)
                BY <1>3, <1>8, <1>9 DEF IssuesEnd, Vector, RESERVED, SPURIOUS
            <3> QED BY <1>1, <3>1 DEF ApicIssueEndOfInt
        <2>2. Open(l) /\ v \in isr /\ v \in {32, 48}
            BY <1>2, <1>4, <1>7, <1>8, <1>9 DEF InService
        <2>3. ASSUME NEW k \in 1..Level, Open(k), k # l PROVE levels[k].vector < v
            <3>1. k < l
                BY <1>3, <1>4, <2>3
            <3> QED BY <1>2, <1>4, <2>2, <2>3, <3>1 DEF InService
        <2>4. ASSUME NEW t \in isr PROVE t <= v
            <3>1. PICK k \in 1..Level : Open(k) /\ levels[k].vector = t
                BY <1>2, <1>8 DEF InService
            <3>2. CASE k = l
                BY <1>8, <2>2, <3>1, <3>2
            <3>3. CASE k # l
                BY <1>8, <2>2, <2>3, <3>1, <3>3
            <3> QED BY <3>2, <3>3
        <2> HIDE DEF v
        <2>5. v \notin isr' /\ \A u \in isr : u < v => u \in isr'
            BY <1>8, <2>1, <2>2, <2>4
        <2>6. \A u \in isr' : u \in isr
            BY <2>1
        <2>7. ASSUME NEW u \in {TIMER, DEVICE}
              PROVE  u \in isr' <=> \E k \in 1..Level : Open(k)' /\ levels[k].vector = u
            <3>1. ASSUME u \in isr' PROVE \E k \in 1..Level : Open(k)' /\ levels[k].vector = u
                <4>1. PICK k \in 1..Level : Open(k) /\ levels[k].vector = u
                    BY <1>2, <2>6, <3>1 DEF InService
                <4>2. k # l
                    BY <2>5, <3>1, <4>1 DEF v
                <4> QED BY <1>6, <4>1, <4>2
            <3>2. ASSUME NEW k \in 1..Level, Open(k)', levels[k].vector = u PROVE u \in isr'
                <4>1. k # l /\ Open(k)
                    BY <1>6, <3>2
                <4>2. u \in isr /\ u < v
                    BY <1>2, <2>3, <3>2, <4>1 DEF InService
                <4> QED BY <2>5, <4>2
            <3> QED BY <3>1, <3>2
        <2>8. \A j, k \in 1..Level : j < k /\ Open(j)' /\ Open(k)' => levels[j].vector < levels[k].vector
            BY <1>2, <1>6 DEF InService
        <2> QED BY <1>1, <1>4, <2>7, <2>8 DEF InService
    <1>10. CASE levels[l].vector \notin {TIMER, DEVICE}
        <2>1. ~IssuesEnd(Vector)
            BY <1>3, <1>5, <1>10 DEF IssuesEnd, Vector, RESERVED, SPURIOUS, Vectors, Exceptions, Irqs,
               BREAKPOINT, TIMER, DEVICE, NMI, PAGE_FAULT
        <2>2. isr' = isr
            BY <1>1, <2>1
        <2>3. \A k \in 1..Level : Open(k)' <=> Open(k)
            BY <1>6, <1>7, <1>10
        <2> QED BY <1>1, <2>2, <2>3, ServiceKept
    <1> QED BY <1>9, <1>10

LEMMA ReturnStep ==
    ASSUME EntryAssumption, IInv, Return
    PROVE  IInv'
    <1>1. /\ step = "code" /\ Level > 0 /\ step' = "restore" /\ levels' = levels
          /\ isr' = IF IssuesEnd(Vector) THEN ApicIssueEndOfInt ELSE isr
          /\ intFlag' = intFlag /\ regs' = regs
          /\ stack' = SubSeq(stack, 1, Base(Level) + 7 + NREGS)
        BY DEF Return, Base
    <1>2. Typed /\ NREGS \in Nat
        BY DEF IInv, EntryAssumption
    <1>3. PICK k : k = Level
        OBVIOUS
    <1>4. /\ StepOf(k) = step /\ DepthOf(k) = Depth /\ k \in 1..Level
          /\ StepOf(k)' = step' /\ Depth \in Nat
          /\ Base(k) \in Nat /\ Base(k)' = Base(k) /\ End(k) = Base(k) + Held(k)
          /\ End(k)' = Base(k) + Held(k)' /\ Placed(k) /\ Coded(k) /\ Kept(k)
        BY <1>1, <1>3, Innermost
    <1>5. Held(k) = 7 + NREGS /\ Base(k) + 7 + NREGS \in 0..Depth
        BY <1>1, <1>2, <1>4, HeldWords DEF Placed, HoldsRegs, InC
    <1>6. Shortened(Base(k) + 7 + NREGS)
        BY <1>1, <1>2, <1>3, <1>5, CutShortens DEF Typed
    <1>7. Depth' = Base(k) + 7 + NREGS /\ \A i \in 1..Base(k) + 7 + NREGS : stack'[i] = stack[i]
        BY <1>6 DEF Shortened, Depth
    <1>8. Held(k)' = 7 + NREGS
        BY <1>1, <1>4 DEF Held, HoldsRegs, InC
    <1>9. Coded(k)'
        <2>1. Base(k) + 6 \in 1..Base(k) + 7 + NREGS /\ Base(k) + 7 \in 1..Base(k) + 7 + NREGS
            BY <1>2, <1>4
        <2>2. stack'[Base(k) + 6] = stack[Base(k) + 6] /\ stack'[Base(k) + 7] = stack[Base(k) + 7]
            BY <1>7, <2>1
        <2> QED BY <1>1, <1>4, <2>2 DEF Coded, HoldsVector, InC
    <1>10. Kept(k)'
        <2>1. \A r \in 1..NREGS : Base(k) + 7 + r \in 1..Base(k) + 7 + NREGS
            BY <1>2, <1>4
        <2> QED BY <1>1, <1>4, <1>7, <2>1 DEF Kept, HoldsRegs, InC
    <1>11. /\ Base(k) + 5 <= Depth' /\ End(k)' <= Depth' /\ Depth' = End(k)' /\ Depth' \in Nat
           /\ \A i \in 1..Base(k) + 5 : stack'[i] = stack[i]
        BY <1>2, <1>4, <1>7, <1>8
    <1>12. \A l : l = Level => l = k
        BY <1>3
    <1>13. Frames'
        BY <1>1, <1>9, <1>10, <1>11, <1>12, StageFrames
    <1>14. isr' \subseteq isr
        BY <1>1 DEF ApicIssueEndOfInt
    <1>15. Typed'
        BY <1>1, <1>2, <1>6, <1>14 DEF Typed, Shortened, Steps
    <1>16. InService' /\ Entered'
        BY <1>1, ReturnService, StageEntered
    <1> QED BY <1>13, <1>15, <1>16 DEF IInv

(* IRETQ finds the words that its own interrupt pushed.                    *)
LEMMA ReturnFinds ==
    ASSUME EntryAssumption, IInv, step = "iretq"
    PROVE  /\ Level > 0 /\ regs = levels[Level].regs
           /\ Top(0) = Word("RIP", Level - 1) /\ Top(3) = Word("RSP", levels[Level].depth)
           /\ Top(2) = Word("RFLAGS", IF levels[Level].intFlag THEN 1 ELSE 0)
    <1>1. Level > 0 /\ Typed /\ Frames
        BY LevelPositive DEF IInv
    <1>2. Level \in 1..Level
        BY <1>1 DEF Typed, Level
    <1>3. Base(Level) \in Nat /\ End(Level) = Base(Level) + Held(Level) /\ Depth \in Nat
        BY <1>1, <1>2, Located
    <1>4. Placed(Level) /\ Saved(Level) /\ Kept(Level)
        BY <1>1, <1>2 DEF Frames, Framed
    <1>5. StepOf(Level) = "iretq" /\ DepthOf(Level) = Depth /\ RegsOf(Level) = regs
        BY DEF StepOf, DepthOf, RegsOf
    <1>6. Depth = Base(Level) + 5
        BY <1>3, <1>4, <1>5, HeldWords DEF Placed, InC
    <1>7. /\ Depth - 0 = Base(Level) + 5 /\ Depth - 3 = Base(Level) + 2
          /\ Depth - 2 = Base(Level) + 3
        BY <1>3, <1>6
    <1>8. regs = levels[Level].regs
        BY <1>4, <1>5 DEF Kept, HoldsRegs, InC
    <1> QED BY <1>1, <1>4, <1>7, <1>8 DEF Saved, Top
(* ... so that the activation it interrupted goes on where it was.         *)
LEMMA IretqReturns ==
    ASSUME EntryAssumption, IInv, Iretq
    PROVE  /\ Level \in Nat /\ Level > 0 /\ Level' = Level - 1 /\ levels' \in Seq(Activations)
           /\ \A k \in 1..Level - 1 : levels'[k] = levels[k]
           /\ Shortened(levels[Level].depth) /\ levels[Level].depth \in Nat
           /\ step' = levels[Level].step /\ regs' = levels[Level].regs
           /\ isr' = isr /\ regs' = regs /\ intFlag' \in BOOLEAN
    <1>1. step = "iretq" /\ isr' = isr /\ regs' = regs
        BY DEF Iretq
    <1>2. /\ Level > 0 /\ regs = levels[Level].regs
          /\ Top(0) = Word("RIP", Level - 1) /\ Top(3) = Word("RSP", levels[Level].depth)
          /\ Top(2) = Word("RFLAGS", IF levels[Level].intFlag THEN 1 ELSE 0)
        BY <1>1, ReturnFinds
    <1>3. Typed /\ Frames /\ Level \in Nat /\ Level \in 1..Level
        BY <1>2 DEF IInv, Typed, Level
    <1>4. levels[Level] \in Activations /\ levels[Level].depth \in Nat
        BY <1>3, Located DEF Activations
    <1>5. Top(2).what = "RFLAGS" /\ Top(3).what = "RSP" /\ Top(3).n = levels[Level].depth
        BY <1>2 DEF Word
    <1>6. /\ stack' = SubSeq(stack, 1, levels[Level].depth) /\ step' = levels[Level].step
          /\ levels' = SubSeq(levels, 1, Level - 1) /\ intFlag' = (Top(2).n = 1)
        BY <1>2, <1>5 DEF Iretq
    <1>7. levels[Level].depth \in 0..Depth
        <2>1. End(Level) <= Depth /\ End(Level) \in Nat /\ Depth \in Nat
              /\ End(Level) = Base(Level) + Held(Level) /\ Base(Level) \in Nat /\ Held(Level) \in Nat
              /\ Base(Level) >= levels[Level].depth
            BY <1>3, Located DEF Frames, Framed, Placed
        <2> QED BY <1>4, <2>1
    <1>8. Shortened(levels[Level].depth)
        BY <1>3, <1>6, <1>7, CutShortens DEF Typed
    <1>9. /\ levels' \in Seq(Activations) /\ Len(levels') = Level - 1
          /\ \A k \in 1..Level - 1 : levels'[k] = levels[k]
        <2> DEFINE m == Level - 1
        <2>1. m \in Int /\ m >= 0 /\ m - 1 + 1 = m /\ (IF 1 <= m THEN m - 1 + 1 ELSE 0) = m
            BY <1>2, <1>3
        <2>2. \A i \in 1..m : levels[i] \in Activations
            BY <1>3 DEF Typed, Level
        <2> HIDE DEF m
        <2>3. /\ SubSeq(levels, 1, m) \in Seq(Activations)
              /\ Len(SubSeq(levels, 1, m)) = IF 1 <= m THEN m - 1 + 1 ELSE 0
              /\ \A i \in 1..m - 1 + 1 : SubSeq(levels, 1, m)[i] = levels[1 + i - 1]
            BY <2>1, <2>2, SubSeqProperties
        <2>4. \A i \in 1..m : SubSeq(levels, 1, m)[i] = levels[i]
            BY <2>1, <2>3
        <2>5. levels' = SubSeq(levels, 1, m)
            BY <1>6 DEF m
        <2>6. levels' \in Seq(Activations) /\ Len(levels') = m /\ \A i \in 1..m : levels'[i] = levels[i]
            BY <2>1, <2>3, <2>4, <2>5
        <2> QED BY <2>6 DEF m
    <1>10. Level' = Level - 1
        BY <1>9 DEF Level
    <1> QED BY <1>1, <1>2, <1>3, <1>4, <1>6, <1>8, <1>9, <1>10

LEMMA IretqStep ==
    ASSUME EntryAssumption, IInv, Iretq
    PROVE  IInv'
    <1>1. /\ Level \in Nat /\ Level > 0 /\ Level' = Level - 1 /\ levels' \in Seq(Activations)
          /\ \A k \in 1..Level - 1 : levels'[k] = levels[k]
          /\ Shortened(levels[Level].depth) /\ levels[Level].depth \in Nat
          /\ step' = levels[Level].step /\ regs' = levels[Level].regs
          /\ isr' = isr /\ regs' = regs
        BY IretqReturns
    <1>2. intFlag' \in BOOLEAN
        BY IretqReturns
    <1>3. Typed /\ Frames /\ Entered /\ InService /\ step = "iretq" /\ Level \in 1..Level
        BY <1>1 DEF IInv, Iretq
    <1>4. Depth' = levels[Level].depth /\ \A i \in 1..levels[Level].depth : stack'[i] = stack[i]
        BY <1>1 DEF Shortened, Depth
    <1>5. ASSUME NEW k \in 1..Level - 1
          PROVE  StepOf(k)' = StepOf(k) /\ DepthOf(k)' = DepthOf(k) /\ RegsOf(k)' = RegsOf(k)
        <2>1. k # Level /\ (k # Level - 1 => k + 1 \in 1..Level - 1)
            BY <1>1
        <2>2. CASE k = Level - 1
            <3>1. k + 1 = Level /\ k = Level'
                BY <1>1, <2>2
            <3> QED BY <1>1, <1>4, <2>1, <3>1 DEF StepOf, DepthOf, RegsOf
        <2>3. CASE k # Level - 1
            <3>1. k # Level' /\ levels'[k + 1] = levels[k + 1]
                BY <1>1, <2>1, <2>3
            <3> QED BY <2>1, <3>1 DEF StepOf, DepthOf, RegsOf
        <2> QED BY <2>2, <2>3
    <1>6. Frames'
        <2> SUFFICES ASSUME NEW k \in 1..Level - 1 PROVE Framed(k)'
            BY <1>1 DEF Frames
        <2>1. k \in 1..Level /\ Level \in k + 1..Level /\ k \in 1..Level'
            BY <1>1
        <2>2. Framed(k) /\ Placed(k) /\ End(k) \in Nat
            BY <1>3, <2>1, Located DEF Frames, Framed
        <2>3. End(k) <= levels[Level].depth /\ \A j \in k + 1..Level : End(k) <= levels[j].depth
            BY <2>1, <2>2 DEF Placed
        <2>4. \A j \in k + 1..Level' : End(k) <= levels'[j].depth
            <3> SUFFICES ASSUME NEW j \in k + 1..Level' PROVE End(k) <= levels'[j].depth
                OBVIOUS
            <3>1. j \in k + 1..Level /\ j \in 1..Level - 1
                BY <1>1
            <3> QED BY <1>1, <2>3, <3>1
        <2>5. End(k) <= Depth' /\ \A i \in 1..End(k) : stack'[i] = stack[i]
            BY <1>1, <1>4, <2>2, <2>3
        <2>6. Undisturbed(k)
            BY <1>1, <1>5, <2>1, <2>4, <2>5 DEF Undisturbed
        <2> QED BY <1>3, <2>2, <2>6, FrameKept
    <1>7. Typed'
        <2>1. levels[Level] \in Activations
            BY <1>3, Located
        <2>2. levels[Level].step \in Steps
            BY <2>1 DEF Activations
        <2> QED BY <1>1, <1>2, <1>3, <2>2 DEF Typed, Shortened
    <1>8. Entered'
        <2>1. Level' = 0 => Level = 1
            BY <1>1
        <2>2. Level' > 0 => 1 \in 1..Level - 1
            BY <1>1
        <2>3. \A k \in 1..Level' : k \in 1..Level /\ levels'[k] = levels[k]
            BY <1>1
        <2> QED BY <1>1, <1>3, <2>1, <2>2, <2>3 DEF Entered
    <1>9. InService'
        <2>1. \A k \in 1..Level - 1 : Open(k)' <=> Open(k)
            BY <1>1, <1>5 DEF Open
        <2>2. ~Open(Level)
            BY <1>3 DEF Open, StepOf
        <2>3. \A k \in 1..Level : Open(k) => k \in 1..Level - 1
            BY <1>1, <2>2
        <2>4. \A k \in 1..Level - 1 : k \in 1..Level
            BY <1>1
        <2>5. ASSUME NEW v \in {TIMER, DEVICE}
              PROVE  v \in isr' <=> \E k \in 1..Level' : Open(k)' /\ levels'[k].vector = v
            <3>1. v \in isr <=> \E k \in 1..Level : Open(k) /\ levels[k].vector = v
                BY <1>3 DEF InService
            <3> QED BY <1>1, <2>1, <2>3, <2>4, <3>1
        <2>6. ASSUME NEW j \in 1..Level', NEW k \in 1..Level', j < k, Open(j)', Open(k)'
              PROVE  levels'[j].vector < levels'[k].vector
            BY <1>1, <1>3, <2>1, <2>4, <2>6 DEF InService
        <2> QED BY <2>5, <2>6 DEF InService
    <1> QED BY <1>6, <1>7, <1>8, <1>9 DEF IInv

-----------------------------------------------------------------------------
(***************************************************************************)
(* C code, and the entries.                                                *)
(***************************************************************************)
LEMMA CodeStep ==
    ASSUME EntryAssumption, IInv, step = "code", step' = step, stack' = stack, levels' = levels,
           regs' \in [1..NREGS -> Words], intFlag' \in BOOLEAN, isr' = isr
    PROVE  IInv'
    <1>1. Typed'
        BY DEF IInv, Typed
    <1>2. Level' = Level /\ Depth' = Depth
        BY DEF Level, Depth
    <1>3. Frames'
        <2> SUFFICES ASSUME NEW k \in 1..Level PROVE Framed(k)'
            BY <1>2 DEF Frames
        <2>1. Framed(k) /\ Placed(k) /\ Typed
            BY DEF IInv, Frames, Framed
        <2>2. StepOf(k)' = StepOf(k) /\ DepthOf(k)' = DepthOf(k)
            BY <1>2 DEF StepOf, DepthOf
        <2>3. RegsOf(k)' = RegsOf(k) \/ HoldsRegs(StepOf(k))
            BY <1>2 DEF RegsOf, StepOf, HoldsRegs, InC
        <2>4. Undisturbed(k)
            BY <1>2, <2>1, <2>2, <2>3 DEF Undisturbed, Placed
        <2> QED BY <2>1, <2>4, FrameKept
    <1>4. Entered'
        BY <1>2 DEF IInv, Entered
    <1>5. InService'
        BY StageService
    <1> QED BY <1>1, <1>3, <1>4, <1>5 DEF IInv

LEMMA CodeSteps ==
    ASSUME EntryAssumption, IInv, SetHandlers \/ Compute \/ TimerEnables
    PROVE  IInv'
    <1>1. /\ step = "code" /\ step' = step /\ stack' = stack /\ levels' = levels /\ isr' = isr
        BY DEF SetHandlers, Compute, TimerEnables
    <1>2. intFlag' \in BOOLEAN
        BY DEF IInv, Typed, SetHandlers, Compute, TimerEnables
    <1>3. ASSUME NEW r \in 1..NREGS PROVE Register(Level, r) \in Words
        <2>1. 100 * Level + r \in Int
            BY DEF IInv, Typed, Level, EntryAssumption
        <2> QED BY <2>1, WordTyped DEF Register, Tags
    <1>4. regs' \in [1..NREGS -> Words]
        BY <1>3 DEF IInv, Typed, SetHandlers, Compute, TimerEnables
    <1> QED BY <1>1, <1>2, <1>4, CodeStep

LEMMA EnterRest ==
    ASSUME EntryAssumption, IInv, NEW v \in Vectors, Enter(v), step \notin Ended,
           isr' \subseteq {TIMER, DEVICE}
    PROVE  Typed' /\ Entered'
    <1>1. Typed /\ Entered
        BY DEF IInv
    <1>2. EnterPushed(v) /\ LevelAdded(v)
        BY <1>1, EnterPushes, EnterAddsLevel
    <1>3. intFlag' \in BOOLEAN
        BY <1>1 DEF Enter, Typed, TrapGate
    <1>4. Typed'
        BY <1>1, <1>2, <1>3 DEF Typed, EnterPushed, LevelAdded, Enter, Steps
    <1>5. /\ Level \in Nat /\ Level' = Level + 1 /\ levels'[Level + 1].step = step
          /\ \A k \in 1..Level : levels'[k] = levels[k]
        BY <1>1, <1>2 DEF Typed, Level, LevelAdded, Begun
    <1>6. Level' > 0 /\ Level' # 0 /\ (Level > 0 => 1 \in 1..Level) /\ (~(Level > 0) => Level + 1 = 1)
          /\ \A k \in 1..Level' : k \in 1..Level \/ k = Level + 1
        BY <1>5
    <1>7. levels'[1].step = "code"
        BY <1>1, <1>5, <1>6 DEF Entered
    <1>8. \A k \in 1..Level' : levels'[k].step \notin Ended
        BY <1>1, <1>5, <1>6 DEF Entered
    <1> QED BY <1>4, <1>6, <1>7, <1>8 DEF Entered
LEMMA EnterOpens ==
    ASSUME Typed, NEW v \in Vectors, Enter(v)
    PROVE  /\ Level \in Nat /\ Level' = Level + 1 /\ levels'[Level + 1].vector = v
           /\ \A k \in 1..Level : levels'[k] = levels[k] /\ (Open(k)' <=> Open(k))
           /\ \A k : k = Level + 1 => (Open(k)' <=> v \in {TIMER, DEVICE})
           /\ \A k \in 1..Level' : k \in 1..Level \/ k = Level + 1
           /\ \A k \in 1..Level : k \in 1..Level'
    <1>1. LevelAdded(v) /\ Frozen
        BY EnterAddsLevel, EnterFreezes
    <1>2. /\ Level \in Nat /\ Level' = Level + 1 /\ levels'[Level + 1].vector = v
          /\ \A k \in 1..Level : levels'[k] = levels[k]
        BY <1>1 DEF Typed, Level, LevelAdded, Begun
    <1>3. \A k \in 1..Level : Open(k)' <=> Open(k)
        BY <1>1, <1>2 DEF Open, Frozen
    <1>4. ASSUME NEW k, k = Level + 1 PROVE Open(k)' <=> v \in {TIMER, DEVICE}
        <2>1. StepOf(k)' = "stub"
            BY <1>2, <1>4 DEF StepOf, Enter
        <2> QED BY <1>2, <1>4, <2>1 DEF Open
    <1>5. /\ \A k \in 1..Level' : k \in 1..Level \/ k = Level + 1
          /\ \A k \in 1..Level : k \in 1..Level'
        BY <1>2
    <1> QED BY <1>2, <1>3, <1>4, <1>5

(* An exception or an NMI is not in service at the local APIC, nor is the  *)
(* spurious interrupt.                                                     *)
LEMMA OtherService ==
    ASSUME IInv, NEW v \in Vectors \ {TIMER, DEVICE}, Enter(v), isr' = isr
    PROVE  InService'
    <1>1. Typed /\ InService
        BY DEF IInv
    <1>2. /\ \A k \in 1..Level : levels'[k] = levels[k] /\ (Open(k)' <=> Open(k))
          /\ \A k : k = Level + 1 => (Open(k)' <=> v \in {TIMER, DEVICE})
          /\ \A k \in 1..Level' : k \in 1..Level \/ k = Level + 1
          /\ \A k \in 1..Level : k \in 1..Level'
        BY <1>1, EnterOpens
    <1>3. \A k \in 1..Level' : Open(k)' => k \in 1..Level
        BY <1>2
    <1>4. ASSUME NEW u \in {TIMER, DEVICE}
          PROVE  u \in isr' <=> \E k \in 1..Level' : Open(k)' /\ levels'[k].vector = u
        <2>1. u \in isr <=> \E k \in 1..Level : Open(k) /\ levels[k].vector = u
            BY <1>1 DEF InService
        <2> QED BY <1>2, <1>3, <2>1
    <1>5. ASSUME NEW j \in 1..Level', NEW k \in 1..Level', j < k, Open(j)', Open(k)'
          PROVE  levels'[j].vector < levels'[k].vector
        BY <1>1, <1>2, <1>3, <1>5 DEF InService
    <1> QED BY <1>4, <1>5 DEF InService

(* The local APIC delivers only what is above everything in service.       *)
LEMMA IrqService ==
    ASSUME IInv, NEW v \in {TIMER, DEVICE}, Irq(v)
    PROVE  InService'
    <1>1. Typed /\ InService /\ v \in Vectors /\ v # SPURIOUS /\ TIMER = 32 /\ DEVICE = 48
        BY DEF IInv, Vectors, Irqs, SPURIOUS, TIMER, DEVICE
    <1>2. Enter(v) /\ isr' = isr \cup {v} /\ \A s \in isr : v \div 16 > s \div 16
        BY <1>1 DEF Irq
    <1>3. isr \subseteq {32, 48} /\ v \in {32, 48}
        BY <1>1 DEF Typed
    <1>4. \A s \in isr : s < v
        <2>1. 32 \div 16 = 2 /\ 48 \div 16 = 3
            OBVIOUS
        <2>2. ASSUME NEW s \in isr PROVE s < v
            <3>1. s \in {32, 48} /\ v \div 16 > s \div 16
                BY <1>2, <1>3
            <3>2. CASE s = 32
                BY <1>3, <2>1, <3>1, <3>2
            <3>3. CASE s = 48
                BY <1>3, <2>1, <3>1, <3>3
            <3> QED BY <3>1, <3>2, <3>3
        <2> QED BY <2>2
    <1>5. /\ Level \in Nat /\ Level' = Level + 1 /\ levels'[Level + 1].vector = v
          /\ \A k \in 1..Level : levels'[k] = levels[k] /\ (Open(k)' <=> Open(k))
          /\ \A k : k = Level + 1 => (Open(k)' <=> v \in {TIMER, DEVICE})
          /\ \A k \in 1..Level' : k \in 1..Level \/ k = Level + 1
          /\ \A k \in 1..Level : k \in 1..Level'
        BY <1>1, <1>2, EnterOpens
    <1>6. ASSUME NEW u \in {TIMER, DEVICE}
          PROVE  u \in isr' <=> \E k \in 1..Level' : Open(k)' /\ levels'[k].vector = u
        <2>1. u \in isr <=> \E k \in 1..Level : Open(k) /\ levels[k].vector = u
            BY <1>1 DEF InService
        <2>2. CASE u = v
            <3>1. PICK k : k = Level + 1
                OBVIOUS
            <3>2. k \in 1..Level' /\ Open(k)' /\ levels'[k].vector = v
                BY <1>5, <3>1
            <3> QED BY <1>2, <2>2, <3>2
        <2>3. CASE u # v
            <3>1. u \in isr' <=> u \in isr
                BY <1>2, <2>3
            <3>2. \A k \in 1..Level' : levels'[k].vector = u => k \in 1..Level
                BY <1>5, <2>3
            <3> QED BY <1>5, <2>1, <3>1, <3>2
        <2> QED BY <2>2, <2>3
    <1>7. ASSUME NEW j \in 1..Level', NEW k \in 1..Level', j < k, Open(j)', Open(k)'
          PROVE  levels'[j].vector < levels'[k].vector
        <2>1. j \in 1..Level
            BY <1>5, <1>7
        <2>2. CASE k \in 1..Level
            BY <1>1, <1>5, <1>7, <2>1, <2>2 DEF InService
        <2>3. CASE k = Level + 1
            <3>1. Open(j) /\ levels'[j] = levels[j] /\ levels'[k].vector = v
                BY <1>5, <1>7, <2>1, <2>3
            <3>2. levels[j].vector \in isr
                BY <1>1, <2>1, <3>1 DEF InService, Open
            <3> QED BY <1>4, <3>1, <3>2
        <2> QED BY <1>5, <2>2, <2>3
    <1> QED BY <1>6, <1>7 DEF InService

LEMMA IrqStep ==
    ASSUME EntryAssumption, IInv, NEW v \in Irqs, Irq(v)
    PROVE  IInv'
    <1>1. v \in Vectors /\ Enter(v) /\ step \notin Ended /\ isr \subseteq {TIMER, DEVICE}
        BY DEF Vectors, Irq, IInv, Typed
    <1>2. isr' = IF v = SPURIOUS THEN isr ELSE isr \cup {v}
        BY DEF Irq
    <1>3. isr' \subseteq {TIMER, DEVICE}
        BY <1>1, <1>2 DEF Irqs
    <1>4. InService'
        <2>1. CASE v = SPURIOUS
            <3>1. v \in Vectors \ {TIMER, DEVICE} /\ isr' = isr
                BY <1>1, <1>2, <2>1 DEF TIMER, DEVICE, SPURIOUS
            <3> QED BY <1>1, <3>1, OtherService
        <2>2. CASE v # SPURIOUS
            <3>1. v \in {TIMER, DEVICE}
                BY <2>2 DEF Irqs
            <3> QED BY <3>1, IrqService
        <2> QED BY <2>1, <2>2
    <1> QED BY <1>1, <1>3, <1>4, EnterFrames, EnterRest DEF IInv

LEMMA FaultStep ==
    ASSUME EntryAssumption, IInv, NEW v \in Exceptions \cup {PAGE_FAULT, NMI}, Enter(v),
           step \notin Ended, isr' = isr
    PROVE  IInv'
    <1>1. v \in Vectors \ {TIMER, DEVICE} /\ isr' \subseteq {TIMER, DEVICE}
        BY DEF Vectors, Exceptions, PAGE_FAULT, NMI, TIMER, DEVICE, BREAKPOINT, IInv, Typed
    <1> QED BY <1>1, EnterFrames, EnterRest, OtherService DEF IInv
-----------------------------------------------------------------------------
LEMMA InitIInv ==
    ASSUME EntryAssumption, EntryInit
    PROVE  IInv
    <1>1. PICK m \in Locals : stack = CLocals(m)
        BY DEF EntryInit
    <1>2. stack \in Seq(Words)
        BY <1>1, CLocalsTyped DEF EntryAssumption
    <1>3. levels \in Seq(Activations) /\ Level = 0
        BY DEF EntryInit, Level
    <1>4. ASSUME NEW r \in 1..NREGS PROVE Register(0, r) \in Words
        <2>1. 100 * 0 + r \in Int
            BY DEF EntryAssumption
        <2> QED BY <2>1, WordTyped DEF Register, Tags
    <1>5. Typed
        BY <1>2, <1>3, <1>4 DEF Typed, EntryInit, Steps
    <1>6. 1..Level = {}
        BY <1>3
    <1>7. isr = {} /\ step = "code" /\ ~(Level > 0)
        BY <1>3 DEF EntryInit
    <1> QED BY <1>5, <1>6, <1>7 DEF IInv, Frames, Entered, InService

LEMMA StutterStep ==
    ASSUME IInv, UNCHANGED entryVars
    PROVE  IInv'
    <1> USE DEF entryVars, Level, Depth
    <1>1. Typed'
        BY DEF IInv, Typed
    <1>2. Frames'
        BY DEF IInv, Frames, Framed, Placed, Saved, Coded, Kept, End, Held, Base, StepOf, DepthOf, RegsOf
    <1>3. Entered' /\ InService'
        BY DEF IInv, Entered, InService, Open, StepOf
    <1> QED BY <1>1, <1>2, <1>3 DEF IInv

LEMMA NextIInv ==
    ASSUME EntryAssumption, IInv, [EntryNext]_entryVars
    PROVE  IInv'
    <1>1. CASE Nmi
        BY <1>1, FaultStep DEF Nmi
    <1>2. ASSUME NEW v \in Exceptions \cup {PAGE_FAULT}, Fault(v) PROVE IInv'
        BY <1>2, FaultStep DEF Fault, Ended
    <1>3. ASSUME NEW v \in Irqs, Irq(v) PROVE IInv'
        BY <1>3, IrqStep
    <1>4. CASE SetHandlers \/ Compute \/ TimerEnables
        BY <1>4, CodeSteps
    <1>5. CASE KrInterruptServiceRoutine
        BY <1>5, StubStep
    <1>6. CASE WrapperSave
        BY <1>6, SaveStep
    <1>7. CASE KrDispatchInterrupt
        BY <1>7, DispatchStep
    <1>8. CASE Return
        BY <1>8, ReturnStep
    <1>9. CASE WrapperRestore
        BY <1>9, RestoreStep
    <1>10. CASE Iretq
        BY <1>10, IretqStep
    <1>11. CASE UNCHANGED entryVars
        BY <1>11, StutterStep
    <1> QED BY <1>1, <1>2, <1>3, <1>4, <1>5, <1>6, <1>7, <1>8, <1>9, <1>10, <1>11 DEF EntryNext

(* What the dispatcher is given is the frame of the innermost activation.  *)
LEMMA IInvFrame ==
    ASSUME EntryAssumption, IInv
    PROVE  FrameIsRight
    <1> SUFFICES ASSUME step = "dispatch"
                 PROVE  /\ Frame.InterruptNo = Word("vector", Vector)
                        /\ Frame.EC = Word("EC", IF Vector \in PUSHES_EC THEN Vector ELSE 0)
                        /\ Frame.registers = levels[Level].regs
                        /\ Depth % 2 = 0
        BY DEF FrameIsRight
    <1>1. Level > 0 /\ Typed /\ Frames
        BY LevelPositive DEF IInv
    <1>2. Level \in 1..Level /\ NREGS \in Nat /\ NREGS % 2 = 1
        BY <1>1 DEF Typed, Level, EntryAssumption
    <1>3. /\ Base(Level) \in Nat /\ Base(Level) % 2 = 0 /\ Depth \in Nat
          /\ End(Level) = Base(Level) + Held(Level) /\ levels[Level] \in Activations
        BY <1>1, <1>2, Located
    <1>4. Placed(Level) /\ Coded(Level) /\ Kept(Level)
        BY <1>1, <1>2 DEF Frames, Framed
    <1>5. StepOf(Level) = "dispatch" /\ DepthOf(Level) = Depth
        BY DEF StepOf, DepthOf
    <1>6. Depth = Base(Level) + 7 + NREGS
        BY <1>2, <1>3, <1>4, <1>5, HeldWords DEF Placed, HoldsRegs, InC
    <1>7. /\ Depth - NREGS = Base(Level) + 7 /\ Depth - (NREGS + 1) = Base(Level) + 6
          /\ \A r \in 1..NREGS : Depth - (NREGS - r) = Base(Level) + 7 + r
        BY <1>2, <1>3, <1>6
    <1>8. /\ Top(NREGS) = Word("vector", Vector)
          /\ Top(NREGS + 1) = Word("EC", IF Vector \in PUSHES_EC THEN Vector ELSE 0)
        BY <1>4, <1>5, <1>7 DEF Top, Vector, Coded, HoldsVector
    <1>9. \A r \in 1..NREGS : Top(NREGS - r) = levels[Level].regs[r]
        BY <1>4, <1>5, <1>7 DEF Top, Kept, HoldsRegs
    <1>10. levels[Level].regs \in [1..NREGS -> Words]
        BY <1>3 DEF Activations
    <1>11. [r \in 1..NREGS |-> Top(NREGS - r)] = levels[Level].regs
        BY <1>9, <1>10
    <1>12. Depth % 2 = 0
        BY <1>2, <1>3, <1>6
    <1> QED BY <1>8, <1>11, <1>12 DEF Frame

LEMMA IInvService ==
    ASSUME IInv
    PROVE  ServiceIsNested
    <1>1. Typed /\ InService
        BY DEF IInv
    <1>2. Irqs \ {SPURIOUS} = {TIMER, DEVICE}
        BY DEF Irqs, SPURIOUS, TIMER, DEVICE
    <1> DEFINE ended(k) == /\ k = Level => step \in {"restore", "iretq"}
                           /\ k < Level => levels[k + 1].step \in {"restore", "iretq"}
    <1>3. ASSUME NEW k \in 1..Level PROVE ended(k) <=> StepOf(k) \in {"restore", "iretq"}
        <2>1. Level \in Nat /\ (k = Level \/ k < Level) /\ ~(k = Level /\ k < Level)
            BY <1>1 DEF Typed, Level
        <2> QED BY <2>1 DEF StepOf
    <1> HIDE DEF ended
    <1>4. ASSUME NEW v \in Irqs \ {SPURIOUS}
          PROVE  v \in isr <=> \E k \in {j \in 1..Level : levels[j].vector = v} : ~ended(k)
        <2>1. v \in isr <=> \E k \in 1..Level : Open(k) /\ levels[k].vector = v
            BY <1>1, <1>2, <1>4 DEF InService
        <2>2. \A k \in 1..Level : levels[k].vector = v => (Open(k) <=> ~ended(k))
            BY <1>2, <1>3, <1>4 DEF Open
        <2> QED BY <2>1, <2>2
    <1> QED BY <1>4 DEF ServiceIsNested, ended

(* The interrupt stubs (ISRs.asm), the wrapper and KrDispatchInterrupt:    *)
(* however interrupts, faults and NMIs nest on the one stack, the          *)
(* dispatcher is given the vector, the error code and the registers of the *)
(* interrupted code on an aligned stack, every IRETQ goes back to where    *)
(* its own interrupt began, with its registers, stack pointer and flags,   *)
(* and an interrupt is in service until its own handler has returned.      *)
THEOREM InterruptsNestExactly ==
    ASSUME EntryAssumption
    PROVE  EntrySpec => []InterruptsNest
    <1>1. EntryInit => IInv
        BY InitIInv
    <1>2. IInv /\ [EntryNext]_entryVars => IInv'
        BY NextIInv
    <1>3. IInv => InterruptsNest
        <2> SUFFICES ASSUME IInv PROVE InterruptsNest
            OBVIOUS
        <2>1. FrameIsRight /\ ServiceIsNested
            BY IInvFrame, IInvService
        <2>2. step # "lost"
            BY DEF IInv, Typed, Steps
        <2>3. ReturnIsExact
            BY <2>2, ReturnFinds DEF ReturnIsExact
        <2> QED BY <2>1, <2>3 DEF InterruptsNest
    <1> QED BY <1>1, <1>2, <1>3, PTL DEF EntrySpec
=============================================================================
