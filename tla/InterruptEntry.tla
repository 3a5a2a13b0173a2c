--------------------------- MODULE InterruptEntry ---------------------------
(***************************************************************************)
(* The way into and out of an interrupt on one processor.  The hardware    *)
(* pushes where it was, and for some vectors an error code; the stub of    *)
(* the vector (ISRs.asm) completes that to an InterruptFrame; the common   *)
(* wrapper saves the general registers, calls KrDispatchInterrupt          *)
(* (Interrupt.c), restores them and returns.  KrInitInt gives every gate   *)
(* IST 0, so all nesting happens on the one stack of the interrupted code: *)
(* interrupts in code, page faults in any C code, NMIs between any two     *)
(* instructions.                                                           *)
(*                                                                         *)
(* The stack is words of eight bytes, so an even depth is aligned to 16; a *)
(* word says what it is: [what, n].  Nothing below the stack pointer is    *)
(* kept (the kernel is built without a red zone).  A level is one          *)
(* activation, with what the processor held when it began: history, for    *)
(* the properties only; the processor itself reads the stack.              *)
(***************************************************************************)
EXTENDS Integers, Sequences

CONSTANTS
    MaxDepth,      \* bound on nested interrupts
    Locals,        \* words that C code may have on its stack
    NREGS          \* registers the wrapper saves (15)

\* The frame is an even number of words because the wrapper saves an odd number
\* of registers.
EntryAssumption == MaxDepth \in Nat /\ Locals \subseteq Nat /\ NREGS \in Nat /\ NREGS % 2 = 1

NMI == 2
BREAKPOINT == 3
PAGE_FAULT == 14
SPURIOUS == 255
RESERVED == 32                            \* KR_PROCESSOR_RESERVED_INTERRUPT_COUNT
Exceptions == {BREAKPOINT, 13}            \* without and with an error code
TIMER == 32
DEVICE == 48                              \* of a higher priority than the timer
Irqs == {TIMER, DEVICE, SPURIOUS}
Vectors == Exceptions \cup Irqs \cup {NMI, PAGE_FAULT}
PUSHES_EC == {13, PAGE_FAULT}             \* of these, by the processor's manual

VARIABLES stack,          \* the words on it, bottom first
          regs,           \* the general registers, in the order they are pushed
          intFlag,        \* RFLAGS.IF
          nmiBlocked,     \* until the next IRETQ
          isr,            \* vectors in service at the local APIC
          handlers,       \* vectors with a handler in this CPU's table
          step,           \* what the processor executes
          levels          \* history: the activations

entryVars == <<stack, regs, intFlag, nmiBlocked, isr, handlers, step, levels>>

Word(what, n) == [what |-> what, n |-> n]
Level == Len(levels)
Depth == Len(stack)
Register(level, r) == Word("register", 100 * level + r)

(* The word k words below the top, and what remains without the top k. *)
Top(k) == stack[Depth - k]
Without(k) == SubSeq(stack, 1, Depth - k)

(* The InterruptFrame at the top of the stack. *)
Frame == [registers |-> [r \in 1..NREGS |-> Top(NREGS - r)],
          InterruptNo |-> Top(NREGS), EC |-> Top(NREGS + 1)]

(* What C code has on its stack. *)
CLocals(n) == [k \in 1..n |-> Word("local", 0)]

EntryInit ==
    /\ stack \in {CLocals(n) : n \in Locals}
    /\ regs = [r \in 1..NREGS |-> Register(0, r)]
    /\ intFlag = TRUE /\ nmiBlocked = FALSE /\ isr = {} /\ handlers = {}
    /\ step = "code" /\ levels = <<>>

Push(words) == stack' = stack \o words
-----------------------------------------------------------------------------
(* The end of KrInitInt, which has already loaded the IDT and enabled      *)
(* interrupts: the table of this CPU gets its handlers.                    *)
SetHandlers ==
    /\ step = "code" /\ Level = 0 /\ handlers = {}
    /\ handlers' = {v \in Vectors : v < RESERVED} \cup {TIMER, SPURIOUS}
    /\ UNCHANGED <<stack, regs, intFlag, nmiBlocked, isr, step, levels>>

(* C code at any level uses the registers. *)
Compute ==
    /\ step = "code"
    /\ regs' = [r \in 1..NREGS |-> Register(Level, r)] /\ regs' # regs
    /\ UNCHANGED <<stack, intFlag, nmiBlocked, isr, handlers, step, levels>>

(* Every gate that KrInitInt encodes is an interrupt gate, except one. *)
TrapGate(v) == v = BREAKPOINT

(* The processor aligns the stack and pushes where it was; an interrupt    *)
(* gate clears IF.                                                         *)
Enter(v) ==
    LET padding == CLocals(Depth % 2)
        flag == IF intFlag THEN 1 ELSE 0
        saved == <<Word("SS", Level), Word("RSP", Depth), Word("RFLAGS", flag),
                   Word("CS", Level), Word("RIP", Level)>>
        words == IF v \in PUSHES_EC THEN Append(saved, Word("EC", v)) ELSE saved
    IN  /\ Level < MaxDepth
        /\ Push(padding \o words)
        /\ levels' = Append(levels, [vector |-> v, regs |-> regs, depth |-> Depth,
                                     intFlag |-> intFlag, step |-> step])
        /\ step' = "stub" /\ intFlag' = (intFlag /\ TrapGate(v))
        /\ UNCHANGED <<regs, handlers>>

Ended == {"halt", "meltdown", "lost"}

(* The local APIC delivers what has a higher priority than anything in     *)
(* service; the spurious vector is never in service.                       *)
Irq(v) ==
    /\ intFlag /\ step \notin Ended
    /\ \A s \in isr : v \div 16 > s \div 16
    /\ isr' = IF v = SPURIOUS THEN isr ELSE isr \cup {v}
    /\ Enter(v) /\ UNCHANGED nmiBlocked

Fault(v) == step = "code" /\ Enter(v) /\ UNCHANGED <<nmiBlocked, isr>>

Nmi == /\ ~nmiBlocked /\ nmiBlocked' = TRUE
       /\ step \notin Ended /\ Enter(NMI) /\ UNCHANGED isr
-----------------------------------------------------------------------------
Vector == levels[Level].vector

(* Wrong variant: the page fault is taken for a vector without a code. *)
IsrWithEcNoFault(v) == v \in {8, 10, 11, 12, 13, 17}
(* The vectors for which ISRs.asm takes ISR_WITH_EC. *)
IsrWithEc(v) == v \in {8, 10, 11, 12, 13, 14, 17}

(* KrInterruptServiceRoutine_N: a dummy code where the hardware pushes     *)
(* none, then the number.                                                  *)
KrInterruptServiceRoutine ==
    /\ step = "stub"
    /\ Push(IF IsrWithEc(Vector) THEN <<Word("vector", Vector)>>
            ELSE <<Word("EC", 0), Word("vector", Vector)>>)
    /\ step' = "save"
    /\ UNCHANGED <<regs, intFlag, nmiBlocked, isr, handlers, levels>>

(* The wrapper up to its call: RSP is the frame. *)
WrapperSave ==
    /\ step = "save"
    /\ Push(regs)
    /\ step' = "dispatch"
    /\ UNCHANGED <<regs, intFlag, nmiBlocked, isr, handlers, levels>>

(* KrDispatchInterrupt calls the handler, C code on this stack.  The one   *)
(* of the other exceptions is a meltdown.  KrUnhandledInterrupt halts for  *)
(* a vector of the processor and does nothing for others.                  *)
KrDispatchInterrupt ==
    /\ step = "dispatch"
    /\ \E n \in Locals : Push(CLocals(n))
    /\ LET v == Frame.InterruptNo.n IN
       step' = CASE v \in Exceptions \cap handlers          -> "meltdown"
                 [] v \notin handlers /\ v < RESERVED        -> "halt"
                 [] OTHER                                   -> "code"
    /\ UNCHANGED <<regs, intFlag, nmiBlocked, isr, handlers, levels>>

(* IntmgmtTimerInterrupt enables interrupts before it returns. *)
TimerEnables ==
    /\ step = "code" /\ Level > 0 /\ Vector = TIMER /\ TIMER \in handlers /\ ~intFlag
    /\ intFlag' = TRUE
    /\ UNCHANGED <<stack, regs, nmiBlocked, isr, handlers, step, levels>>

(* Wrong variant: the spurious interrupt is ended like the others. *)
IssuesEndAlways(v) == v >= RESERVED
IssuesEnd(v) == v >= RESERVED /\ v # SPURIOUS

(* ApicIssueEndOfInt ends what has the highest priority in service. *)
ApicIssueEndOfInt == {s \in isr : \E t \in isr : s < t}

(* The end of KrDispatchInterrupt: compiled code returns with the stack as *)
(* it found it, which is at the frame of its level.                        *)
Return ==
    /\ step = "code" /\ Level > 0
    /\ Vector = TIMER /\ TIMER \in handlers => intFlag
    /\ isr' = IF IssuesEnd(Vector) THEN ApicIssueEndOfInt ELSE isr
    /\ LET at == levels[Level].depth IN stack' = SubSeq(stack, 1, at + (at % 2) + 7 + NREGS)
    /\ step' = "restore"
    /\ UNCHANGED <<regs, intFlag, nmiBlocked, handlers, levels>>

(* Wrong variant: the registers are popped in the order they were pushed. *)
PopInOrder(r) == Top(r - 1)
(* The register pushed last is popped first. *)
Pop(r) == Top(NREGS - r)

(* The pops, and ADD RSP, 16 for the number and the code. *)
WrapperRestore ==
    /\ step = "restore"
    /\ regs' = [r \in 1..NREGS |-> Pop(r)]
    /\ stack' = Without(NREGS + 2)
    /\ step' = "iretq"
    /\ UNCHANGED <<intFlag, nmiBlocked, isr, handlers, levels>>

(* IRETQ goes where the words on the stack say, or astray. *)
Iretq ==
    /\ step = "iretq"
    /\ nmiBlocked' = FALSE
    /\ LET rip == Top(0)  rflags == Top(2)  rsp == Top(3) IN
       IF rip = Word("RIP", Level - 1) /\ rflags.what = "RFLAGS" /\ rsp.what = "RSP"
       THEN /\ stack' = SubSeq(stack, 1, rsp.n) /\ intFlag' = (rflags.n = 1)
            /\ step' = levels[Level].step
            /\ levels' = SubSeq(levels, 1, Level - 1)
       ELSE step' = "lost" /\ UNCHANGED <<stack, intFlag, levels>>
    /\ UNCHANGED <<regs, isr, handlers>>

EntryNext ==
    \/ SetHandlers \/ Compute \/ Nmi \/ Fault(PAGE_FAULT)
    \/ (\E v \in Irqs : Irq(v)) \/ (\E v \in Exceptions : Fault(v))
    \/ KrInterruptServiceRoutine \/ WrapperSave \/ KrDispatchInterrupt
    \/ TimerEnables \/ Return \/ WrapperRestore \/ Iretq

EntrySpec == EntryInit /\ [][EntryNext]_entryVars
-----------------------------------------------------------------------------
(* KrDispatchInterrupt is given the vector that was raised, its error code *)
(* or zero, and the registers of the interrupted code, on a stack that is  *)
(* aligned to 16 as the compiler assumes, however deep interrupts nest.    *)
FrameIsRight ==
    step = "dispatch" =>
      /\ Frame.InterruptNo = Word("vector", Vector)
      /\ Frame.EC = Word("EC", IF Vector \in PUSHES_EC THEN Vector ELSE 0)
      /\ Frame.registers = levels[Level].regs
      /\ Depth % 2 = 0

(* The interrupted code goes on as if nothing had happened: no IRETQ goes  *)
(* astray, and each finds the registers, the stack pointer and the flags   *)
(* with which its own interrupt began, also when an NMI came between the   *)
(* instructions of a stub and a fault in the NMI let in another NMI.       *)
ReturnIsExact ==
    /\ step # "lost"
    /\ step = "iretq" =>
         /\ regs = levels[Level].regs
         /\ Top(3) = Word("RSP", levels[Level].depth)
         /\ Top(2) = Word("RFLAGS", IF levels[Level].intFlag THEN 1 ELSE 0)

(* An interrupt stays in service at the local APIC until its own handler   *)
(* has returned, and no longer: a nested or a spurious interrupt does not  *)
(* end it in its place.                                                    *)
ServiceIsNested ==
    LET begun(v) == {k \in 1..Level : levels[k].vector = v}
        ended(k) == /\ k = Level => step \in {"restore", "iretq"}
                    /\ k < Level => levels[k + 1].step \in {"restore", "iretq"}
    IN  \A v \in Irqs \ {SPURIOUS} : v \in isr <=> \E k \in begun(v) : ~ended(k)

(* Interrupts nest: the dispatcher is given what happened, every return    *)
(* finds what its own interrupt found, and the end of interrupt goes to    *)
(* the vector whose handler has returned.                                  *)
InterruptsNest == FrameIsRight /\ ReturnIsExact /\ ServiceIsNested
=============================================================================
