----------------------------- MODULE IrqRouting -----------------------------
(***************************************************************************)
(* How a device interrupt finds its handler: KrInitInt and SetInterrupt    *)
(* (PerCpu.c) fill the table of each processor, AldistOfferSetupForIRQ     *)
(* (IRQAldist.c) offers a processor and a free vector in it,               *)
(* SetRedirectIRQ (IOAPIC.c) writes the redirection entry of the pin in    *)
(* two halves, and KrDispatchInterrupt (Interrupt.c) runs on the processor *)
(* that gets the vector and ends the interrupt.                            *)
(*                                                                         *)
(* One thread, on the bootstrap processor, sets up one interrupt after the *)
(* other, with interrupts on and with the devices free to raise theirs at  *)
(* any time.  The drivers of the kernel do so before the other processors  *)
(* are started; with late a driver may do it afterwards too, which is what *)
(* the distribution is for.  Vectors are scaled down: those below          *)
(* RESERVED are exceptions, RESERVED itself is the timer's and the last    *)
(* one the spurious vector.                                                *)
(***************************************************************************)
EXTENDS Integers, Sequences, FiniteSets, SequencesExt

CONSTANTS
    CPUs,              \* local APIC IDs, a set of naturals that holds 0
    BSP,
    IRQs,              \* global system interrupts the drivers set up
    IoApics,           \* sequence of [FirstIRQ, MaxRedirEntry]
    NUM_INT_VECTORS, RESERVED,
    OFFERS_AFTER_SMP,  \* subset of BOOLEAN: the values of late
    NONE

TIMER == RESERVED
SPURIOUS == NUM_INT_VECTORS - 1
Vectors == 0..NUM_INT_VECTORS - 1

\* The ranges of the I/O APICs are disjoint: an interrupt has one pin at most.
ASSUME IrqAssumption ==
    /\ IsFiniteSet(CPUs) /\ CPUs \subseteq Nat /\ 0 \in CPUs /\ BSP \in CPUs
    /\ IRQs \subseteq Nat
    /\ RESERVED \in Nat \ {0} /\ NUM_INT_VECTORS \in Nat /\ RESERVED + 1 < NUM_INT_VECTORS
    /\ IoApics \in Seq([FirstIRQ : Nat, MaxRedirEntry : 0..NUM_INT_VECTORS])
    /\ \A a, b \in DOMAIN IoApics :
          a # b => \/ IoApics[a].FirstIRQ + IoApics[a].MaxRedirEntry < IoApics[b].FirstIRQ
                   \/ IoApics[b].FirstIRQ + IoApics[b].MaxRedirEntry < IoApics[a].FirstIRQ
    /\ OFFERS_AFTER_SMP \subseteq BOOLEAN
    /\ NONE \notin Nat /\ NONE \notin [CpuID : CPUs, IntVector : Vectors]

VARIABLES
    late,        \* drivers may set up interrupts after the processors are started
    Interrupt,   \* per processor and vector: what the handler serves, NONE if none
    running,     \* processors that take interrupts
    pCpuIDs,     \* the active processors
    Idx,         \* of AldistOfferSetupForIRQ, kept between calls
    redir,       \* redirection entries: [masked, vector, dest] of each pin
    setupStep,   \* step of the driver that sets up its interrupt
    irq,         \* the interrupt it sets up
    todo,        \* interrupts not yet set up
    RetryCount,
    offer,       \* what each interrupt was offered: [CpuID, IntVector], or NONE
    irr,         \* vectors each local APIC holds for its processor
    isr,         \* vector in service on each processor, NONE if none
    stray        \* history: an unmasked pin sent an interrupt elsewhere

setupVars == <<Idx, setupStep, irq, todo, RetryCount, offer>>
irqVars == <<late, Interrupt, running, pCpuIDs, redir, setupVars, irr, isr, stray>>

Pins == {p \in (DOMAIN IoApics) \X (0..NUM_INT_VECTORS) : p[2] <= IoApics[p[1]].MaxRedirEntry}

\* KrInitInt on a processor: exceptions, the timer and the spurious vector.
\* Mutant: the timer's vector is left out of the table.
NoTimer == [v \in Vectors |-> IF v < RESERVED \/ v = SPURIOUS THEN v ELSE NONE]
KrInitInt == [v \in Vectors |-> IF v <= TIMER \/ v = SPURIOUS THEN v ELSE NONE]

Empty == [v \in Vectors |-> NONE]

IrqInit ==
    /\ late \in OFFERS_AFTER_SMP
    /\ Interrupt = [c \in CPUs |-> IF c = BSP THEN KrInitInt ELSE Empty]
    /\ running = {BSP} /\ pCpuIDs = <<BSP>> /\ Idx = 0
    /\ redir = [p \in Pins |-> [masked |-> TRUE, vector |-> 0, dest |-> 0]]
    /\ setupStep = "idle" /\ irq = NONE /\ todo = IRQs /\ RetryCount = 0
    /\ offer = [i \in IRQs |-> NONE]
    /\ irr = [c \in CPUs |-> {}] /\ isr = [c \in CPUs |-> NONE]
    /\ stray = FALSE

-----------------------------------------------------------------------------
(***************************************************************************)
(* A driver sets up its interrupt.                                         *)
(***************************************************************************)
Begin ==
    /\ setupStep = "idle"
    /\ \E i \in todo : irq' = i /\ todo' = todo \ {i}
    /\ setupStep' = "offer" /\ RetryCount' = 0
    /\ UNCHANGED <<late, Interrupt, running, pCpuIDs, redir, Idx, offer, irr, isr, stray>>

FreeVectors(c) == {v \in RESERVED..NUM_INT_VECTORS - 1 : Interrupt[c][v] = NONE}

\* Mutant: the index does not wrap.
NoWrap == Idx + 1
\* Mutant: the same processor is tried again.
StayIdx == Idx
NextIdx == IF Idx + 1 >= Len(pCpuIDs) THEN 0 ELSE Idx + 1

\* One try of AldistOfferSetupForIRQ: the lowest free vector of the processor
\* whose turn it is; the kernel melts down when it has tried often enough.
AldistOfferSetupForIRQ ==
    /\ setupStep = "offer"
    /\ LET c == pCpuIDs[Idx + 1] IN
       /\ Idx' = NextIdx
       /\ IF FreeVectors(c) # {}
          THEN LET v == CHOOSE v \in FreeVectors(c) : \A w \in FreeVectors(c) : v <= w IN
               /\ offer' = [offer EXCEPT ![irq] = [CpuID |-> c, IntVector |-> v]]
               /\ setupStep' = "set" /\ UNCHANGED RetryCount
          ELSE /\ setupStep' = IF RetryCount < Len(pCpuIDs) THEN "offer" ELSE "meltdown"
               /\ RetryCount' = RetryCount + 1 /\ UNCHANGED offer
    /\ UNCHANGED <<late, Interrupt, running, pCpuIDs, redir, irq, todo, irr, isr, stray>>

\* Mutant: the table of the processor whose turn is next is written.
OnNextCpu(o) == pCpuIDs[Idx + 1]
TargetCpu(o) == o.CpuID

SetHardwareInterrupt ==
    /\ setupStep = "set"
    /\ Interrupt' = [Interrupt EXCEPT ![TargetCpu(offer[irq])][offer[irq].IntVector] = irq]
    /\ setupStep' = "redirectLow"
    /\ UNCHANGED <<late, running, pCpuIDs, redir, Idx, irq, todo, RetryCount, offer, irr, isr, stray>>

\* FindIoApicForIRQ: the first I/O APIC whose range holds the interrupt.
\* Mutant: the last pin of an I/O APIC is taken to be the next one's.
InOpenRange(a, i) == i >= IoApics[a].FirstIRQ /\ i < IoApics[a].FirstIRQ + IoApics[a].MaxRedirEntry
InRange(a, i) == i >= IoApics[a].FirstIRQ /\ i <= IoApics[a].FirstIRQ + IoApics[a].MaxRedirEntry

FindIoApicForIRQ(i) ==
    LET found == {a \in DOMAIN IoApics : InRange(a, i)}
    IN IF found = {} THEN NONE ELSE CHOOSE a \in found : \A b \in found : a <= b

PinOf(i) == <<FindIoApicForIRQ(i), i - IoApics[FindIoApicForIRQ(i)].FirstIRQ>>

\* Mutant: the entry is unmasked before its vector is written.
UnmaskOnly(e, o) == [e EXCEPT !.masked = FALSE]
\* IoApicWrite64: the low half holds the vector and clears the mask, ...
WriteLow(e, o) == [e EXCEPT !.masked = FALSE, !.vector = o.IntVector]
\* ... the high half holds the destination.
WriteHigh(e, o) == [e EXCEPT !.dest = o.CpuID]

\* SetRedirectIRQ, the first write: without an I/O APIC it returns FALSE, which
\* the driver ignores.
SetRedirectLow ==
    /\ setupStep = "redirectLow"
    /\ IF FindIoApicForIRQ(irq) = NONE
       THEN setupStep' = "idle" /\ UNCHANGED redir
       ELSE /\ redir' = [redir EXCEPT ![PinOf(irq)] = WriteLow(@, offer[irq])]
            /\ setupStep' = "redirectHigh"
    /\ UNCHANGED <<late, Interrupt, running, pCpuIDs, Idx, irq, todo, RetryCount, offer, irr, isr, stray>>

SetRedirectHigh ==
    /\ setupStep = "redirectHigh"
    /\ redir' = [redir EXCEPT ![PinOf(irq)] = WriteHigh(@, offer[irq])]
    /\ setupStep' = "idle"
    /\ UNCHANGED <<late, Interrupt, running, pCpuIDs, Idx, irq, todo, RetryCount, offer, irr, isr, stray>>

\* KrInitSMP: the other processors run KrInitInt and are listed in ascending order.
Ascending(ids) == \A j, k \in DOMAIN ids : j < k => ids[j] < ids[k]

KrInitSMP ==
    /\ setupStep = "idle" /\ running # CPUs
    /\ ~late => todo = {}
    /\ running' = CPUs
    /\ Interrupt' = [c \in CPUs |-> IF c \in running THEN Interrupt[c] ELSE KrInitInt]
    /\ \E ids \in [1..Cardinality(CPUs) -> CPUs] :
          Ascending(ids) /\ (\A c \in CPUs : \E k \in DOMAIN ids : ids[k] = c) /\ pCpuIDs' = ids
    /\ UNCHANGED <<late, redir, setupVars, irr, isr, stray>>

-----------------------------------------------------------------------------
(***************************************************************************)
(* Hardware.  A pin whose mask is set loses the edge.  The local APIC of a *)
(* processor that is not started loses the interrupt.                      *)
(***************************************************************************)
Feeds(i, p) == IoApics[p[1]].FirstIRQ + p[2] = i
Wire(i) == CHOOSE p \in Pins : Feeds(i, p)

Fire(i) ==
    LET e == redir[Wire(i)] IN
    /\ \E p \in Pins : Feeds(i, p)
    /\ ~e.masked
    /\ irr' = [c \in CPUs |-> IF c = e.dest /\ c \in running
                              THEN irr[c] \cup {e.vector} ELSE irr[c]]
    /\ stray' = (stray \/ e.vector # offer[i].IntVector \/ e.dest # offer[i].CpuID)
    /\ UNCHANGED <<late, Interrupt, running, pCpuIDs, redir, setupVars, isr>>

TimerExpires(c) ==
    /\ c \in running
    /\ irr' = [irr EXCEPT ![c] = @ \cup {TIMER}]
    /\ UNCHANGED <<late, Interrupt, running, pCpuIDs, redir, setupVars, isr, stray>>

\* A local APIC delivers its highest vector; with one in service it waits for
\* the end of interrupt.
Deliver(c) ==
    /\ isr[c] = NONE /\ irr[c] # {}
    /\ LET v == CHOOSE v \in irr[c] : \A w \in irr[c] : w <= v IN
       /\ isr' = [isr EXCEPT ![c] = v]
       /\ irr' = [irr EXCEPT ![c] = @ \ {v}]
    /\ UNCHANGED <<late, Interrupt, running, pCpuIDs, redir, setupVars, stray>>

\* KrDispatchInterrupt: the handler of the vector, if there is one, and then
\* the end of interrupt for every vector that is not an exception or spurious.
\* Mutant: the first vector after the exceptions, the timer's, is not ended.
EndsAboveTimer(v) == v > RESERVED /\ v # SPURIOUS
IssuesEnd(v) == v >= RESERVED /\ v # SPURIOUS

KrDispatchInterrupt(c) ==
    /\ isr[c] # NONE
    /\ isr' = IF IssuesEnd(isr[c]) THEN [isr EXCEPT ![c] = NONE] ELSE isr
    /\ UNCHANGED <<late, Interrupt, running, pCpuIDs, redir, setupVars, irr, stray>>

-----------------------------------------------------------------------------
Setup == Begin \/ AldistOfferSetupForIRQ \/ SetHardwareInterrupt
         \/ SetRedirectLow \/ SetRedirectHigh \/ KrInitSMP

IrqNext ==
    \/ setupStep # "meltdown" /\ Setup
    \/ \E i \in IRQs : Fire(i)
    \/ \E c \in CPUs : TimerExpires(c) \/ Deliver(c) \/ KrDispatchInterrupt(c)

\* Local APICs deliver and processors handle what they get.
IrqFairness ==
    /\ WF_irqVars(setupStep # "meltdown" /\ Setup)
    /\ \A c \in CPUs : WF_irqVars(Deliver(c)) /\ WF_irqVars(KrDispatchInterrupt(c))

IrqSpec == IrqInit /\ [][IrqNext]_irqVars /\ IrqFairness

-----------------------------------------------------------------------------
IrqTypeOK ==
    /\ running \subseteq CPUs /\ Range(pCpuIDs) \subseteq running
    /\ Idx \in 0..Len(pCpuIDs) - 1 /\ RetryCount \in 0..Len(pCpuIDs) + 1
    /\ setupStep \in {"idle", "offer", "set", "redirectLow", "redirectHigh", "meltdown"}
    /\ \A c \in CPUs : irr[c] \subseteq Vectors /\ isr[c] \in Vectors \cup {NONE}
    /\ \A p \in Pins : redir[p].vector \in Vectors /\ redir[p].dest \in CPUs

\* Two interrupts are never offered the same vector of the same processor, and
\* none the vector of the timer or the spurious one: an interrupt that was set
\* up keeps its place in the table.
VectorsAreExclusive ==
    \A i \in IRQs : offer[i] # NONE =>
        /\ offer[i].IntVector \notin {TIMER, SPURIOUS}
        /\ \A j \in IRQs \ {i} : offer[j] # offer[i]

\* The kernel gives up with "all present CPUs have their interrupt vectors
\* assigned" (IRQAldist.c 33) only when that is so.
OverrunMeansFull ==
    setupStep = "meltdown" => \A c \in Range(pCpuIDs) : FreeVectors(c) = {}

\* The table of a running processor serves every vector that any of its local
\* APIC, a pin or its timer sends it.
EveryVectorHasAHandler ==
    \A c \in CPUs : isr[c] # NONE => Interrupt[c][isr[c]] # NONE

\* An interrupt that a pin lets through goes to the processor and the vector
\* its driver was offered, also between the two writes of its entry, as long as
\* only the bootstrap processor is up: a pin's destination is written last.
NoStrayInterrupt == ~late => ~stray

\* No two interrupts are offered the same vector of the same processor and
\* none a vector that is in use otherwise, and the kernel gives up for lack of
\* vectors only when there is none left; whatever vector a processor serves,
\* its table has a handler; and an unmasked pin sends its interrupt where it was
\* offered, also between the two halves of SetRedirectIRQ.
InterruptsAreRouted ==
    /\ IrqTypeOK /\ VectorsAreExclusive /\ OverrunMeansFull
    /\ EveryVectorHasAHandler /\ NoStrayInterrupt

\* No processor goes radio silent (Interrupt.c 56): whatever interrupt is in
\* service, known or not, is ended, so that the local APIC delivers the next.
InterruptsAreEnded == \A c \in CPUs : []<>(isr[c] = NONE)

\* An interrupt a driver asked for is let through by the pin its device is
\* wired to, unless the kernel melts down for lack of vectors.
IrqsAreRouted == \A i \in IRQs : <>(setupStep = "meltdown" \/ ~redir[Wire(i)].masked)
=============================================================================
