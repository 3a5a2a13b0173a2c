---------------------------- MODULE DeviceProofs ----------------------------
(***************************************************************************)
(* Proofs about how devices come into service: what the ACPI tables say    *)
(* (Acpi), for any tables, the routing of interrupts (IrqRouting), for any *)
(* number of processors, interrupts, I/O APICs and vectors, and the device *)
(* tree and its pairing with the drivers (Devdriv), for any drivers and    *)
(* any number of functions.                                                *)
(***************************************************************************)
EXTENDS IrqRouting, Acpi, Devdriv, SequenceTheorems, FiniteSetTheorems, WellFoundedInduction, TLAPS
-----------------------------------------------------------------------------
(* Interrupt routing *)

Offers == [CpuID : CPUs, IntVector : Vectors]
Steps  == {"idle", "offer", "set", "redirectLow", "redirectHigh", "meltdown"}

(* The types of the state; an interrupt that is set up is not to be set up *)
(* again.                                                                  *)
Shape ==
    /\ Interrupt \in [CPUs -> [Vectors -> Nat \cup {NONE}]]
    /\ pCpuIDs \in Seq(CPUs) /\ Idx \in 0..Len(pCpuIDs) - 1
    /\ RetryCount \in 0..Len(pCpuIDs) + 1
    /\ setupStep \in Steps /\ (setupStep = "offer" => RetryCount <= Len(pCpuIDs))
    /\ todo \subseteq IRQs /\ (setupStep # "idle" => irq \in IRQs /\ irq \notin todo)
    /\ offer \in [IRQs -> Offers \cup {NONE}]
    /\ redir \in [Pins -> [masked : BOOLEAN, vector : Vectors, dest : CPUs]]
    /\ irr \in [CPUs -> SUBSET Vectors] /\ isr \in [CPUs -> Vectors \cup {NONE}]

(* The bootstrap processor alone, or all of them in ascending order. *)
Alone == running = {BSP} /\ pCpuIDs = <<BSP>>

Listed ==
    \/ Alone
    \/ /\ running = CPUs /\ Ascending(pCpuIDs)
       /\ \A c \in CPUs : \E k \in 1..Len(pCpuIDs) : pCpuIDs[k] = c

(* An interrupt that was offered a place has it, from SetHardwareInterrupt *)
(* on; until then the place is free.                                       *)
Placed(i) ==
    /\ offer[i].CpuID \in running
    /\ offer[i].IntVector > TIMER /\ offer[i].IntVector # SPURIOUS
    /\ Interrupt[offer[i].CpuID][offer[i].IntVector] = (IF setupStep = "set" /\ i = irq THEN NONE ELSE i)

Places == \A i \in IRQs : offer[i] # NONE => Placed(i)

Asked ==
    /\ \A i \in todo : offer[i] = NONE
    /\ setupStep = "offer" => offer[irq] = NONE
    /\ setupStep \in {"set", "redirectLow", "redirectHigh"} => offer[irq] # NONE

Initialised ==
    \A c \in running : \A v \in Vectors : v <= TIMER \/ v = SPURIOUS => Interrupt[c][v] # NONE

(* The processors that were tried for the interrupt have no free vector:   *)
(* the RetryCount ones before Idx, going round the list.                   *)
Tries(k) == IF k <= Idx THEN Idx + 1 - k ELSE Idx + Len(pCpuIDs) + 1 - k

Tried ==
    setupStep = "offer" =>
        \A k \in 1..Len(pCpuIDs) : Tries(k) <= RetryCount => FreeVectors(pCpuIDs[k]) = {}

(* A vector that is in use, or is about to be. *)
Used(c, v) ==
    Interrupt[c][v] # NONE \/ (setupStep = "set" /\ offer[irq] = [CpuID |-> c, IntVector |-> v])

(* A pin sends to processor 0 until its destination is written.  That      *)
(* processor has a handler for whatever vector another one uses, because   *)
(* the distribution begins every round with it.                            *)
Covered == \A c \in running : \A v \in Vectors : Used(c, v) => Used(0, v)

IsLowestFree(c, v) ==
    /\ v \in RESERVED..NUM_INT_VECTORS - 1 /\ ~Used(c, v)
    /\ \A w \in RESERVED..v - 1 : Used(c, w)

Round ==
    \A k \in 1..Len(pCpuIDs) : Idx # 0 /\ k > Idx =>
        \A v \in Vectors : IsLowestFree(pCpuIDs[k], v) => Used(0, v)

(* What a local APIC holds or has in service was sent to a processor that  *)
(* runs and has a handler.                                                 *)
Handled ==
    \A c \in CPUs :
        /\ \A v \in irr[c] : c \in running /\ Interrupt[c][v] # NONE
        /\ isr[c] # NONE => c \in running /\ Interrupt[c][isr[c]] # NONE

ZeroFirst == BSP = 0 => Covered /\ Round /\ Handled

(* The first write of SetRedirectIRQ unmasks the pin.  A pin that is       *)
(* masked still has its first destination; one that is not sends where the *)
(* interrupt was offered, or to processor 0 between the two writes.        *)
Half ==
    setupStep = "redirectHigh" => FindIoApicForIRQ(irq) # NONE /\ ~redir[PinOf(irq)].masked

Masked == \A p \in Pins : redir[p].masked => redir[p].dest = 0

Sends(i, e) ==
    /\ offer[i] # NONE /\ ~(i = irq /\ setupStep \in {"set", "redirectLow"})
    /\ e.vector = offer[i].IntVector
    /\ e.dest = offer[i].CpuID \/ (i = irq /\ setupStep = "redirectHigh" /\ e.dest = 0)

Routed ==
    \A i \in IRQs : \A p \in Pins : Feeds(i, p) /\ ~redir[p].masked => Sends(i, redir[p])

(* Without late, nothing is set up once the other processors run. *)
BootOnly ==
    ~late => /\ \A i \in IRQs : offer[i] # NONE => offer[i].CpuID = BSP
             /\ Alone \/ (todo = {} /\ setupStep = "idle")
             /\ BSP = 0 => ~stray

IrqIInv ==
    /\ Shape /\ Listed /\ Places /\ Asked /\ Initialised
    /\ Tried /\ OverrunMeansFull /\ ZeroFirst
    /\ Half /\ Masked /\ Routed /\ BootOnly
-----------------------------------------------------------------------------
(* Facts about the constants *)

LEMMA VectorFacts ==
    /\ RESERVED \in Nat /\ NUM_INT_VECTORS \in Nat /\ RESERVED + 1 < NUM_INT_VECTORS
    /\ Vectors \subseteq Nat /\ TIMER \in Vectors /\ SPURIOUS \in Vectors
    /\ RESERVED > 0 /\ SPURIOUS = NUM_INT_VECTORS - 1 /\ TIMER = RESERVED
    /\ NONE \notin Nat /\ NONE \notin Vectors /\ NONE \notin Offers /\ NONE \notin IRQs
    /\ CPUs \subseteq Nat /\ 0 \in CPUs /\ BSP \in CPUs /\ IRQs \subseteq Nat
    <1>1. NONE \notin Offers
        BY IrqAssumption DEF IrqAssumption, Offers
    <1>2. /\ RESERVED \in Nat /\ NUM_INT_VECTORS \in Nat /\ RESERVED + 1 < NUM_INT_VECTORS
          /\ RESERVED > 0 /\ NONE \notin Nat
        BY IrqAssumption DEF IrqAssumption
    <1>3. CPUs \subseteq Nat /\ 0 \in CPUs /\ BSP \in CPUs /\ IRQs \subseteq Nat
        BY IrqAssumption DEF IrqAssumption
    <1>4. Vectors \subseteq Nat /\ TIMER \in Vectors /\ SPURIOUS \in Vectors
        BY <1>2 DEF Vectors, TIMER, SPURIOUS
    <1> QED
        BY <1>1, <1>2, <1>3, <1>4 DEF TIMER, SPURIOUS

(* A set of vectors has a lowest and a highest one. *)
LEMMA LowestNumber ==
    ASSUME NEW S \in SUBSET Nat, S # {}
    PROVE  \E m \in S : \A k \in S : m <= k
    <1> DEFINE R == OpToRel(<, Nat)
    <1>1. IsWellFoundedOn(R, Nat)
        BY NatLessThanWellFounded
    <1>2. \A j, k \in Nat : j < k => <<j, k>> \in R
        BY DEF OpToRel
    <1> HIDE DEF R
    <1>3. PICK m \in S : \A k \in S : ~ (<<k, m>> \in R)
        BY <1>1, WFMin
    <1>4. ASSUME NEW k \in S PROVE m <= k
        <2>1. m \in Nat /\ k \in Nat /\ ~ (<<k, m>> \in R)
            BY <1>3
        <2>2. ~ (k < m)
            BY <1>2, <2>1
        <2> QED
            BY <2>1, <2>2
    <1> QED
        BY <1>4

LEMMA HighestNumber ==
    ASSUME NEW S \in SUBSET Nat, S # {}, NEW b \in Nat, \A k \in S : k <= b
    PROVE  \E m \in S : \A k \in S : k <= m
    <1> DEFINE Bounds == {n \in Nat : \A k \in S : k <= n}
    <1>1. PICK n \in Bounds : \A m \in Bounds : n <= m
        <2>1. Bounds \in SUBSET Nat /\ Bounds # {}
            OBVIOUS
        <2> HIDE DEF Bounds
        <2> QED
            BY <2>1, LowestNumber
    <1>2. n \in S
        <2> SUFFICES ASSUME n \notin S PROVE FALSE
            OBVIOUS
        <2>1. \A k \in S : k \in Nat /\ k < n
            BY <1>1
        <2>2. n > 0 /\ n \in Nat
            <3>1. PICK k \in S : TRUE
                OBVIOUS
            <3> QED
                BY <1>1, <2>1, <3>1
        <2>3. n - 1 \in Bounds
            BY <2>1, <2>2
        <2> QED
            BY <2>2, <2>3, <1>1
    <1> QED
        BY <1>1, <1>2

(* A pin is the one that FindIoApicForIRQ and SetRedirectIRQ compute, and  *)
(* no other interrupt has it.                                              *)
LEMMA PinFacts ==
    ASSUME NEW i \in IRQs, FindIoApicForIRQ(i) # NONE
    PROVE  PinOf(i) \in Pins /\ Feeds(i, PinOf(i))
    <1> DEFINE found == {a \in DOMAIN IoApics : InRange(a, i)}
               a == FindIoApicForIRQ(i)
    <1>1. IoApics \in Seq([FirstIRQ : Nat, MaxRedirEntry : 0..NUM_INT_VECTORS])
        BY IrqAssumption DEF IrqAssumption
    <1>2. DOMAIN IoApics = 1..Len(IoApics) /\ Len(IoApics) \in Nat
        BY <1>1
    <1>3. ASSUME NEW b \in DOMAIN IoApics
          PROVE  IoApics[b].FirstIRQ \in Nat /\ IoApics[b].MaxRedirEntry \in 0..NUM_INT_VECTORS
        <2> DEFINE R == [FirstIRQ : Nat, MaxRedirEntry : 0..NUM_INT_VECTORS]
        <2>1. IoApics \in Seq(R)
            BY <1>1
        <2> HIDE DEF R
        <2>2. IoApics[b] \in R
            BY <1>2, <2>1, ElementOfSeq
        <2> USE DEF R
        <2> QED
            BY <2>2
    <1>4. \A b, c \in DOMAIN IoApics : InRange(b, i) /\ InRange(c, i) => b = c
        <2> SUFFICES ASSUME NEW b \in DOMAIN IoApics, NEW c \in DOMAIN IoApics,
                            InRange(b, i), InRange(c, i), b # c
                     PROVE  FALSE
            OBVIOUS
        <2>1. \/ IoApics[b].FirstIRQ + IoApics[b].MaxRedirEntry < IoApics[c].FirstIRQ
              \/ IoApics[c].FirstIRQ + IoApics[c].MaxRedirEntry < IoApics[b].FirstIRQ
            BY IrqAssumption DEF IrqAssumption
        <2> QED
            BY <2>1, <1>3, VectorFacts DEF InRange
    <1>5. found # {}
        BY DEF FindIoApicForIRQ
    <1>6. PICK b \in found : TRUE
        BY <1>5
    <1>7. \A c \in found : c = b
        BY <1>4
    <1>8. b <= b
        BY <1>2
    <1>9. a = CHOOSE d \in found : \A c \in found : d <= c
        BY <1>5 DEF FindIoApicForIRQ
    <1>10. a \in found
        BY <1>6, <1>7, <1>8, <1>9
    <1>11. i - IoApics[a].FirstIRQ \in 0..NUM_INT_VECTORS /\ i - IoApics[a].FirstIRQ <= IoApics[a].MaxRedirEntry
        BY <1>10, <1>3, VectorFacts DEF InRange
    <1>12. PinOf(i) = <<a, i - IoApics[a].FirstIRQ>>
        BY DEF PinOf
    <1>13. PinOf(i) \in Pins
        BY <1>10, <1>11, <1>12 DEF Pins
    <1>14. IoApics[a].FirstIRQ + (i - IoApics[a].FirstIRQ) = i
        BY <1>10, <1>3, VectorFacts
    <1> HIDE DEF a
    <1> QED
        BY <1>12, <1>13, <1>14 DEF Feeds

(* The pin that an interrupt is wired to is the only one. *)
LEMMA OnePin ==
    ASSUME NEW i \in IRQs, NEW p \in Pins, NEW q \in Pins, Feeds(i, p), Feeds(i, q)
    PROVE  p = q
    <1>1. IoApics \in Seq([FirstIRQ : Nat, MaxRedirEntry : 0..NUM_INT_VECTORS])
        BY IrqAssumption DEF IrqAssumption
    <1>2. DOMAIN IoApics = 1..Len(IoApics) /\ Len(IoApics) \in Nat
        BY <1>1
    <1>3. ASSUME NEW b \in DOMAIN IoApics
          PROVE  IoApics[b].FirstIRQ \in Nat /\ IoApics[b].MaxRedirEntry \in 0..NUM_INT_VECTORS
        <2> DEFINE R == [FirstIRQ : Nat, MaxRedirEntry : 0..NUM_INT_VECTORS]
        <2>1. IoApics \in Seq(R)
            BY <1>1
        <2> HIDE DEF R
        <2>2. IoApics[b] \in R
            BY <1>2, <2>1, ElementOfSeq
        <2> USE DEF R
        <2> QED
            BY <2>2
    <1>4. ASSUME NEW r \in Pins PROVE /\ r = <<r[1], r[2]>> /\ r[1] \in DOMAIN IoApics /\ r[2] \in Nat
                                      /\ r[2] <= IoApics[r[1]].MaxRedirEntry
        <2>1. NUM_INT_VECTORS \in Nat
            BY VectorFacts
        <2> QED
            BY <2>1 DEF Pins
    <1>5. p[1] = q[1]
        <2> SUFFICES ASSUME p[1] # q[1] PROVE FALSE
            OBVIOUS
        <2>1. \/ IoApics[p[1]].FirstIRQ + IoApics[p[1]].MaxRedirEntry < IoApics[q[1]].FirstIRQ
              \/ IoApics[q[1]].FirstIRQ + IoApics[q[1]].MaxRedirEntry < IoApics[p[1]].FirstIRQ
            BY <1>4, IrqAssumption DEF IrqAssumption
        <2> QED
            BY <2>1, <1>3, <1>4, VectorFacts DEF Feeds
    <1>6. p[2] = q[2]
        BY <1>3, <1>4, <1>5, VectorFacts DEF Feeds
    <1> QED
        BY <1>4, <1>5, <1>6

(* Two interrupts are wired to different pins. *)
LEMMA OneInterrupt ==
    ASSUME NEW i \in IRQs, NEW j \in IRQs, NEW p \in Pins, Feeds(i, p), Feeds(j, p)
    PROVE  i = j
    BY DEF Feeds
-----------------------------------------------------------------------------
(* The initial states *)

LEMMA IrqInitIInv == IrqInit => IrqIInv
    <1> SUFFICES ASSUME IrqInit PROVE IrqIInv
        OBVIOUS
    <1> USE VectorFacts
    <1>1. KrInitInt \in [Vectors -> Nat \cup {NONE}] /\ Empty \in [Vectors -> Nat \cup {NONE}]
        BY DEF KrInitInt, Empty
    <1>2. Interrupt \in [CPUs -> [Vectors -> Nat \cup {NONE}]] /\ Interrupt[BSP] = KrInitInt
        BY <1>1 DEF IrqInit
    <1>3. pCpuIDs \in Seq(CPUs) /\ Len(pCpuIDs) = 1
        BY DEF IrqInit
    <1>4. redir \in [Pins -> [masked : BOOLEAN, vector : Vectors, dest : CPUs]]
        <2>1. 0 \in Vectors
            BY DEF Vectors
        <2> QED
            BY <2>1 DEF IrqInit
    <1>5. Shape
        BY <1>2, <1>3, <1>4 DEF IrqInit, Shape, Steps
    <1>6. Listed /\ Places /\ Asked /\ Tried /\ OverrunMeansFull
        BY DEF IrqInit, Listed, Alone, Places, Asked, Tried, OverrunMeansFull
    <1>7. Initialised
        BY <1>2 DEF IrqInit, Initialised, KrInitInt
    <1>8. (Covered /\ Round /\ Handled) \/ BSP # 0
        BY DEF IrqInit, Covered, Round, Handled
    <1>9. Half /\ Masked /\ Routed /\ BootOnly
        BY DEF IrqInit, Half, Masked, Routed, BootOnly, Alone
    <1> QED
        BY <1>5, <1>6, <1>7, <1>8, <1>9 DEF IrqIInv, ZeroFirst
-----------------------------------------------------------------------------
(* The hardware *)

(* What the interrupt controllers do leaves the set-up as it is. *)
LEMMA SetupStands ==
    ASSUME IrqIInv, UNCHANGED <<late, Interrupt, running, pCpuIDs, redir, setupVars>>,
           irr' \in [CPUs -> SUBSET Vectors], isr' \in [CPUs -> Vectors \cup {NONE}],
           BSP = 0 => Handled', ~late /\ BSP = 0 => ~stray'
    PROVE  IrqIInv'
    <1>1. Shape' /\ Listed' /\ Places' /\ Asked' /\ Initialised'
        BY DEF IrqIInv, setupVars, Shape, Listed, Alone, Places, Placed, Asked, Initialised
    <1>2. Tried' /\ OverrunMeansFull'
        BY DEF IrqIInv, setupVars, Tried, Tries, OverrunMeansFull, FreeVectors
    <1>3. BSP = 0 => Covered' /\ Round'
        BY DEF IrqIInv, setupVars, ZeroFirst, Covered, Round, Used, IsLowestFree
    <1>4. Half' /\ Masked' /\ Routed'
        BY DEF IrqIInv, setupVars, Half, FindIoApicForIRQ, PinOf, Masked, Routed, Sends
    <1>5. BootOnly'
        BY DEF IrqIInv, setupVars, BootOnly, Alone
    <1> QED
        BY <1>1, <1>2, <1>3, <1>4, <1>5 DEF IrqIInv, ZeroFirst

LEMMA FireIInv == ASSUME IrqIInv, NEW i \in IRQs, Fire(i) PROVE IrqIInv'
    <1> USE VectorFacts
    <1> DEFINE p == Wire(i)
               e == redir[p]
    <1>1. p \in Pins /\ Feeds(i, p)
        BY DEF Fire, Wire
    <1>2. /\ e \in [masked : BOOLEAN, vector : Vectors, dest : CPUs] /\ ~e.masked
          /\ irr' = [c \in CPUs |-> IF c = e.dest /\ c \in running THEN irr[c] \cup {e.vector} ELSE irr[c]]
          /\ stray' = (stray \/ e.vector # offer[i].IntVector \/ e.dest # offer[i].CpuID)
          /\ UNCHANGED <<late, Interrupt, running, pCpuIDs, redir, setupVars, isr>>
        BY <1>1 DEF Fire, IrqIInv, Shape
    <1>3. Sends(i, e)
        BY <1>1, <1>2 DEF IrqIInv, Routed
    <1> HIDE DEF e, p
    <1>4. e.vector \in Vectors /\ e.dest \in CPUs
        BY <1>2
    <1>5. irr' \in [CPUs -> SUBSET Vectors] /\ isr' \in [CPUs -> Vectors \cup {NONE}]
        BY <1>2, <1>4 DEF IrqIInv, Shape
    <1>6. offer[i] \in Offers /\ Placed(i)
        BY <1>3 DEF IrqIInv, Shape, Places, Sends
    <1>7. offer[i].CpuID \in CPUs /\ offer[i].IntVector \in Vectors
        BY <1>6 DEF Offers
    <1>8. Interrupt[offer[i].CpuID][e.vector] = i /\ offer[i].CpuID \in running
        BY <1>3, <1>6 DEF Sends, Placed
    <1>9. ASSUME BSP = 0, e.dest \in running PROVE Interrupt[e.dest][e.vector] # NONE
        <2>1. CASE e.dest = offer[i].CpuID
            BY <2>1, <1>8
        <2>2. CASE setupStep = "redirectHigh" /\ e.dest = 0
            <3>1. Used(offer[i].CpuID, e.vector)
                BY <1>8 DEF Used
            <3>2. Used(0, e.vector)
                BY <3>1, <1>4, <1>8, <1>9 DEF IrqIInv, ZeroFirst, Covered
            <3> QED
                BY <2>2, <3>2 DEF Used
        <2> QED
            BY <2>1, <2>2, <1>3 DEF Sends
    <1>10. ASSUME BSP = 0 PROVE Handled'
        <2>1. Handled
            BY <1>10 DEF IrqIInv, ZeroFirst
        <2>2. ASSUME NEW c \in CPUs, NEW v \in irr'[c] PROVE c \in running /\ Interrupt[c][v] # NONE
            <3>1. CASE v \in irr[c]
                BY <3>1, <2>1 DEF Handled
            <3>2. CASE v \notin irr[c]
                <4>1. c = e.dest /\ c \in running /\ v = e.vector
                    BY <1>2, <3>2
                <4> QED
                    BY <4>1, <1>9, <1>10
            <3> QED
                BY <3>1, <3>2
        <2> QED
            BY <1>2, <2>1, <2>2 DEF Handled
    <1>11. ASSUME ~late, BSP = 0 PROVE ~stray'
        <2>1. ~stray /\ offer[i].CpuID = 0
            BY <1>3, <1>11 DEF IrqIInv, BootOnly, Sends
        <2>2. e.vector = offer[i].IntVector /\ e.dest = offer[i].CpuID
            BY <1>3, <2>1 DEF Sends
        <2> QED
            BY <1>2, <2>1, <2>2
    <1> QED
        BY <1>2, <1>5, <1>10, <1>11, SetupStands

LEMMA TimerIInv == ASSUME IrqIInv, NEW c \in CPUs, TimerExpires(c) PROVE IrqIInv'
    <1> USE VectorFacts
    <1>1. irr' \in [CPUs -> SUBSET Vectors] /\ isr' \in [CPUs -> Vectors \cup {NONE}]
        BY DEF TimerExpires, IrqIInv, Shape
    <1>2. ASSUME BSP = 0 PROVE Handled'
        <2>1. Handled /\ Interrupt[c][TIMER] # NONE /\ c \in running
            BY <1>2 DEF TimerExpires, IrqIInv, ZeroFirst, Initialised
        <2> QED
            BY <2>1 DEF TimerExpires, Handled, IrqIInv, Shape
    <1> QED
        BY <1>1, <1>2, SetupStands DEF TimerExpires, IrqIInv, BootOnly

LEMMA DeliverIInv == ASSUME IrqIInv, NEW c \in CPUs, Deliver(c) PROVE IrqIInv'
    <1> USE VectorFacts
    <1> DEFINE v == CHOOSE v \in irr[c] : \A w \in irr[c] : w <= v
    <1>1. \E x \in irr[c] : \A w \in irr[c] : w <= x
        <2>1. irr[c] \subseteq 0..NUM_INT_VECTORS - 1 /\ irr[c] # {}
            BY DEF Deliver, IrqIInv, Shape, Vectors
        <2>2. irr[c] \in SUBSET Nat /\ \A k \in irr[c] : k <= NUM_INT_VECTORS
            BY <2>1
        <2> QED
            BY <2>1, <2>2, HighestNumber
    <1>2. v \in irr[c]
        BY <1>1
    <1>3. /\ isr' = [isr EXCEPT ![c] = v] /\ irr' = [irr EXCEPT ![c] = @ \ {v}]
          /\ UNCHANGED <<late, Interrupt, running, pCpuIDs, redir, setupVars, stray>>
        BY DEF Deliver
    <1> HIDE DEF v
    <1>4. irr' \in [CPUs -> SUBSET Vectors] /\ isr' \in [CPUs -> Vectors \cup {NONE}]
        BY <1>2, <1>3 DEF IrqIInv, Shape
    <1>5. ASSUME BSP = 0 PROVE Handled'
        BY <1>2, <1>3, <1>5 DEF Handled, IrqIInv, Shape, ZeroFirst
    <1> QED
        BY <1>3, <1>4, <1>5, SetupStands DEF IrqIInv, BootOnly

LEMMA DispatchIInv == ASSUME IrqIInv, NEW c \in CPUs, KrDispatchInterrupt(c) PROVE IrqIInv'
    <1> USE VectorFacts
    <1>1. isr' = isr \/ isr' = [isr EXCEPT ![c] = NONE]
        BY DEF KrDispatchInterrupt
    <1>2. irr' \in [CPUs -> SUBSET Vectors] /\ isr' \in [CPUs -> Vectors \cup {NONE}]
        BY <1>1 DEF KrDispatchInterrupt, IrqIInv, Shape
    <1>3. ASSUME BSP = 0 PROVE Handled'
        BY <1>1, <1>3 DEF KrDispatchInterrupt, Handled, IrqIInv, Shape, ZeroFirst
    <1> QED
        BY <1>2, <1>3, SetupStands DEF KrDispatchInterrupt, IrqIInv, BootOnly
-----------------------------------------------------------------------------
(* Setting up an interrupt *)

(* What the two shapes of the list have in common; 0 is its first entry if *)
(* it is the bootstrap processor's ID.                                     *)
ListFacts ==
    /\ Len(pCpuIDs) \in Nat /\ Len(pCpuIDs) >= 1 /\ running \subseteq CPUs /\ BSP \in running
    /\ \A k \in 1..Len(pCpuIDs) : pCpuIDs[k] \in running
    /\ \A c \in running : \E k \in 1..Len(pCpuIDs) : pCpuIDs[k] = c
    /\ \A j, k \in 1..Len(pCpuIDs) : j # k => pCpuIDs[j] # pCpuIDs[k]
    /\ BSP = 0 => pCpuIDs[1] = 0

LEMMA ListedFacts == ASSUME Shape, Listed PROVE ListFacts
    <1> USE VectorFacts
    <1>1. Len(pCpuIDs) \in Nat /\ \A k \in 1..Len(pCpuIDs) : pCpuIDs[k] \in CPUs
        BY DEF Shape
    <1>2. CASE Alone
        BY <1>1, <1>2 DEF Alone, ListFacts
    <1>3. CASE /\ running = CPUs /\ Ascending(pCpuIDs)
               /\ \A c \in CPUs : \E k \in 1..Len(pCpuIDs) : pCpuIDs[k] = c
        <2>1. DOMAIN pCpuIDs = 1..Len(pCpuIDs)
            BY DEF Shape
        <2>2. \A j, k \in 1..Len(pCpuIDs) : j < k => pCpuIDs[j] < pCpuIDs[k]
            BY <1>3, <2>1 DEF Ascending
        <2>3. \A j, k \in 1..Len(pCpuIDs) : j # k => pCpuIDs[j] # pCpuIDs[k]
            <3> SUFFICES ASSUME NEW j \in 1..Len(pCpuIDs), NEW k \in 1..Len(pCpuIDs), j # k
                         PROVE  pCpuIDs[j] # pCpuIDs[k]
                OBVIOUS
            <3>1. j < k \/ k < j
                BY <1>1
            <3>2. pCpuIDs[j] \in Nat /\ pCpuIDs[k] \in Nat
                BY <1>1
            <3> QED
                BY <2>2, <3>1, <3>2
        <2>4. PICK k \in 1..Len(pCpuIDs) : pCpuIDs[k] = 0
            BY <1>3
        <2>5. k = 1
            <3> SUFFICES ASSUME 1 < k PROVE FALSE
                BY <1>1
            <3>1. 1 \in 1..Len(pCpuIDs)
                BY <1>1, <2>4
            <3>2. pCpuIDs[1] \in Nat
                BY <1>1, <3>1
            <3>3. pCpuIDs[1] < pCpuIDs[k]
                BY <2>2, <3>1
            <3> QED
                BY <2>4, <3>2, <3>3
        <2>6. Len(pCpuIDs) >= 1
            BY <1>1, <2>4
        <2> QED
            BY <1>1, <1>3, <2>3, <2>4, <2>5, <2>6 DEF ListFacts
    <1> QED
        BY <1>2, <1>3 DEF Listed

LEMMA BeginIInv == ASSUME IrqIInv, Begin PROVE IrqIInv'
    <1> USE VectorFacts
    <1>1. PICK i \in todo : irq' = i /\ todo' = todo \ {i}
        BY DEF Begin
    <1>2. /\ setupStep = "idle" /\ setupStep' = "offer" /\ RetryCount' = 0
          /\ UNCHANGED <<late, Interrupt, running, pCpuIDs, redir, Idx, offer, irr, isr, stray>>
        BY DEF Begin
    <1>3. ListFacts /\ i \in IRQs /\ offer[i] = NONE
        BY <1>1, ListedFacts DEF IrqIInv, Shape, Asked
    <1>4. Shape'
        BY <1>1, <1>2, <1>3 DEF IrqIInv, Shape, Steps, ListFacts
    <1>5. Listed' /\ Places' /\ Asked' /\ Initialised' /\ OverrunMeansFull'
        BY <1>1, <1>2, <1>3
        DEF IrqIInv, Listed, Alone, Places, Placed, Asked, Initialised, OverrunMeansFull
    <1>6. Tried'
        <2>1. \A k \in 1..Len(pCpuIDs) : ~(Tries(k)' <= RetryCount')
            BY <1>2, <1>3 DEF Tries, IrqIInv, Shape, ListFacts
        <2> QED
            BY <1>2, <2>1 DEF Tried
    <1>7. BSP = 0 => Covered' /\ Round' /\ Handled'
        BY <1>2 DEF IrqIInv, ZeroFirst, Covered, Round, Used, IsLowestFree, Handled
    <1>8. Half' /\ Masked' /\ Routed'
        BY <1>2 DEF IrqIInv, Half, Masked, Routed, Sends
    <1>9. BootOnly'
        BY <1>1, <1>2 DEF IrqIInv, BootOnly, Alone
    <1> QED
        BY <1>4, <1>5, <1>6, <1>7, <1>8, <1>9 DEF IrqIInv, ZeroFirst

(* The processor whose turn it is has no free vector. *)
LEMMA OfferFullIInv ==
    ASSUME IrqIInv, AldistOfferSetupForIRQ, FreeVectors(pCpuIDs[Idx + 1]) = {}
    PROVE  IrqIInv'
    <1> USE VectorFacts
    <1>1. ListFacts /\ Idx \in 0..Len(pCpuIDs) - 1 /\ RetryCount \in 0..Len(pCpuIDs)
        BY ListedFacts DEF IrqIInv, Shape, AldistOfferSetupForIRQ, ListFacts
    <1>2. /\ setupStep = "offer" /\ Idx' = NextIdx /\ RetryCount' = RetryCount + 1
          /\ setupStep' = (IF RetryCount < Len(pCpuIDs) THEN "offer" ELSE "meltdown")
          /\ UNCHANGED <<late, Interrupt, running, pCpuIDs, redir, irq, todo, offer, irr, isr, stray>>
        BY DEF AldistOfferSetupForIRQ
    <1>3. \/ Idx + 1 < Len(pCpuIDs) /\ Idx' = Idx + 1
          \/ Idx + 1 = Len(pCpuIDs) /\ Idx' = 0
        BY <1>1, <1>2 DEF NextIdx, ListFacts
    <1>4. Shape'
        BY <1>1, <1>2, <1>3 DEF IrqIInv, Shape, Steps, ListFacts
    <1>5. Listed' /\ Places' /\ Asked' /\ Initialised'
        BY <1>2 DEF IrqIInv, Listed, Alone, Places, Placed, Asked, Initialised
    <1>6. ASSUME NEW k \in 1..Len(pCpuIDs), Tries(k)' <= RetryCount'
          PROVE  FreeVectors(pCpuIDs[k]) = {}
        <2>1. CASE k = Idx + 1
            BY <2>1
        <2>2. CASE k # Idx + 1
            <3>1. Tries(k) <= RetryCount
                BY <1>1, <1>2, <1>3, <1>6, <2>2 DEF Tries, ListFacts
            <3> QED
                BY <1>2, <3>1 DEF IrqIInv, Tried
        <2> QED
            BY <2>1, <2>2
    <1>7. \A c \in CPUs : FreeVectors(c)' = FreeVectors(c)
        BY <1>2 DEF FreeVectors
    <1>8. \A k \in 1..Len(pCpuIDs) : pCpuIDs[k] \in CPUs
        BY <1>1 DEF ListFacts
    <1>9. Tried'
        BY <1>2, <1>6, <1>7, <1>8 DEF Tried
    <1>10. OverrunMeansFull'
        <2> SUFFICES ASSUME setupStep' = "meltdown", NEW c \in Range(pCpuIDs') PROVE FreeVectors(c)' = {}
            BY DEF OverrunMeansFull
        <2>1. RetryCount' = Len(pCpuIDs) + 1
            BY <1>1, <1>2 DEF ListFacts
        <2>2. PICK k \in 1..Len(pCpuIDs) : pCpuIDs[k] = c
            BY <1>2 DEF Range, IrqIInv, Shape
        <2>3. Tries(k)' <= RetryCount'
            BY <2>1, <1>1, <1>2, <1>3 DEF Tries, ListFacts
        <2> QED
            BY <2>2, <2>3, <1>6, <1>7, <1>8
    <1>11. ASSUME BSP = 0 PROVE Covered' /\ Round' /\ Handled'
        <2>1. Covered' /\ Handled'
            BY <1>2, <1>11 DEF IrqIInv, ZeroFirst, Covered, Used, Handled
        <2>2. \A c \in CPUs : \A v \in Vectors : Used(c, v)' <=> Used(c, v)
            BY <1>2 DEF Used
        <2>3. Idx' # 0 => Idx' = Idx + 1
            BY <1>3
        <2>4. CASE Idx = 0
            <3>1. FreeVectors(0) = {}
                BY <1>1, <1>11, <2>4 DEF ListFacts
            <3>2. \A v \in RESERVED..NUM_INT_VECTORS - 1 : Used(0, v)
                BY <3>1 DEF FreeVectors, Used
            <3> QED
                BY <2>1, <2>2, <3>2 DEF Round, IsLowestFree
        <2>5. CASE Idx # 0
            <3>1. Round
                BY <1>11 DEF IrqIInv, ZeroFirst
            <3>2. ASSUME NEW k \in 1..Len(pCpuIDs), Idx' # 0, k > Idx', NEW v \in Vectors,
                         IsLowestFree(pCpuIDs[k], v)'
                  PROVE  Used(0, v)'
                <4>1. IsLowestFree(pCpuIDs[k], v)
                    BY <1>2, <3>2 DEF IsLowestFree, Used
                <4>2. k > Idx
                    BY <1>1, <2>3, <3>2 DEF ListFacts
                <4> QED
                    BY <2>2, <2>5, <3>1, <4>1, <4>2 DEF Round
            <3>3. Round'
                BY <3>2, <1>2 DEF Round
            <3> QED
                BY <2>1, <3>3
        <2> QED
            BY <2>4, <2>5
    <1>12. Half' /\ Masked' /\ Routed'
        BY <1>2 DEF IrqIInv, Half, Masked, Routed, Sends
    <1>13. BootOnly'
        BY <1>2 DEF IrqIInv, BootOnly, Alone
    <1> QED
        BY <1>4, <1>5, <1>9, <1>10, <1>11, <1>12, <1>13 DEF IrqIInv, ZeroFirst

(* The processor whose turn it is offers its lowest free vector. *)
LEMMA OfferFreeIInv ==
    ASSUME IrqIInv, AldistOfferSetupForIRQ, FreeVectors(pCpuIDs[Idx + 1]) # {}
    PROVE  IrqIInv'
    <1> USE VectorFacts
    <1> PICK c : c = pCpuIDs[Idx + 1]
        OBVIOUS
    <1> PICK v : v = CHOOSE u \in FreeVectors(c) : \A w \in FreeVectors(c) : u <= w
        OBVIOUS
    <1> DEFINE o == [CpuID |-> c, IntVector |-> v]
    <1>1. ListFacts /\ Idx \in 0..Len(pCpuIDs) - 1
        BY ListedFacts DEF IrqIInv, Shape
    <1>2. Idx + 1 \in 1..Len(pCpuIDs)
        BY <1>1 DEF ListFacts
    <1>3. c \in running /\ c \in CPUs
        BY <1>1, <1>2 DEF ListFacts
    <1>4. v \in FreeVectors(c) /\ \A w \in FreeVectors(c) : v <= w
        <2>1. FreeVectors(c) \in SUBSET Nat
            BY DEF FreeVectors
        <2>2. \E m \in FreeVectors(c) : \A w \in FreeVectors(c) : m <= w
            BY <2>1, LowestNumber
        <2> QED
            BY <2>2
    <1>5. /\ setupStep = "offer" /\ setupStep' = "set" /\ Idx' = NextIdx
          /\ offer' = [offer EXCEPT ![irq] = o]
          /\ UNCHANGED <<late, Interrupt, running, pCpuIDs, redir, irq, todo, RetryCount, irr, isr, stray>>
        BY DEF AldistOfferSetupForIRQ
    <1>6. /\ v \in Vectors /\ v \in RESERVED..NUM_INT_VECTORS - 1 /\ Interrupt[c][v] = NONE
          /\ \A w \in RESERVED..v - 1 : Interrupt[c][w] # NONE
        <2>1. v \in RESERVED..NUM_INT_VECTORS - 1 /\ Interrupt[c][v] = NONE
            BY <1>4 DEF FreeVectors
        <2>2. ASSUME NEW w \in RESERVED..v - 1 PROVE Interrupt[c][w] # NONE
            BY <1>4, <2>1 DEF FreeVectors
        <2> QED
            BY <2>1, <2>2 DEF Vectors
    <1>7. v > TIMER /\ v # SPURIOUS
        <2>1. ~(v <= TIMER \/ v = SPURIOUS)
            BY <1>3, <1>6 DEF IrqIInv, Initialised
        <2>2. v \in Nat /\ TIMER \in Nat
            BY <1>6
        <2> QED
            BY <2>1, <2>2
    <1>8. o \in Offers /\ o # NONE /\ o.CpuID = c /\ o.IntVector = v
        <2>1. o \in Offers
            BY <1>3, <1>6 DEF Offers
        <2> QED
            BY <2>1
    <1> HIDE DEF o
    <1>9. /\ irq \in IRQs /\ irq \notin todo /\ offer[irq] = NONE
          /\ offer \in [IRQs -> Offers \cup {NONE}]
        BY <1>5 DEF IrqIInv, Shape, Asked
    <1>10. offer'[irq] = o /\ \A i \in IRQs : i # irq => offer'[i] = offer[i]
        BY <1>5, <1>9
    <1>11. \/ Idx + 1 < Len(pCpuIDs) /\ Idx' = Idx + 1
           \/ Idx + 1 = Len(pCpuIDs) /\ Idx' = 0
        BY <1>1, <1>5 DEF NextIdx, ListFacts
    <1>12. Shape'
        <2>1. offer' \in [IRQs -> Offers \cup {NONE}]
            BY <1>5, <1>8, <1>9
        <2>2. Idx' \in 0..Len(pCpuIDs) - 1
            BY <1>1, <1>11 DEF ListFacts
        <2> QED
            BY <2>1, <2>2, <1>5 DEF IrqIInv, Shape, Steps
    <1>13. Listed' /\ Initialised' /\ Tried' /\ OverrunMeansFull' /\ Half' /\ Masked'
        BY <1>5 DEF IrqIInv, Listed, Alone, Initialised, Tried, OverrunMeansFull, Half, Masked
    <1>14. Asked'
        BY <1>5, <1>8, <1>9, <1>10 DEF IrqIInv, Shape, Asked
    <1>15. Places'
        <2> SUFFICES ASSUME NEW i \in IRQs, offer'[i] # NONE PROVE Placed(i)'
            BY DEF Places
        <2>1. CASE i = irq
            <3>1. offer'[i] = o /\ setupStep' = "set" /\ i = irq' /\ Interrupt' = Interrupt /\ running' = running
                BY <2>1, <1>5, <1>10
            <3> QED
                BY <3>1, <1>3, <1>6, <1>7, <1>8 DEF Placed
        <2>2. CASE i # irq
            BY <2>2, <1>5, <1>10 DEF Placed, Places, IrqIInv
        <2> QED
            BY <2>1, <2>2
    <1>16. \A d \in CPUs : \A w \in Vectors : Used(d, w)' <=> Used(d, w) \/ (d = c /\ w = v)
        <2>1. \A d \in CPUs : \A w \in Vectors : o = [CpuID |-> d, IntVector |-> w] <=> d = c /\ w = v
            BY <1>8 DEF o
        <2>2. offer'[irq'] = o /\ setupStep' = "set" /\ setupStep # "set" /\ Interrupt' = Interrupt
            BY <1>5, <1>10
        <2> QED
            BY <2>1, <2>2 DEF Used
    <1>17. \A d \in CPUs : \A w \in Vectors : Used(d, w) <=> Interrupt[d][w] # NONE
        BY <1>5 DEF Used
    <1>18. \A w \in RESERVED..v - 1 : w \in Vectors /\ Used(c, w)
        <2> SUFFICES ASSUME NEW w \in RESERVED..v - 1 PROVE w \in Vectors /\ Used(c, w)
            OBVIOUS
        <2>1. w \in Vectors
            BY <1>6 DEF Vectors
        <2> QED
            BY <2>1, <1>3, <1>6, <1>17
    <1>19. ASSUME BSP = 0 PROVE Covered' /\ Round' /\ Handled'
        <2>1. Covered /\ Round /\ Handled
            BY <1>19 DEF IrqIInv, ZeroFirst
        <2>2. Handled'
            BY <1>5, <2>1 DEF Handled
        <2>3. Idx # 0 => c # 0
            BY <1>1, <1>2, <1>19 DEF ListFacts
        <2>4. Idx = 0 => c = 0
            BY <1>19, <1>1 DEF ListFacts
        <2>5. Used(0, v)'
            <3>1. CASE Idx = 0
                BY <2>4, <3>1, <1>6, <1>16
            <3>2. CASE Idx # 0
                <4>1. IsLowestFree(c, v)
                    BY <1>3, <1>6, <1>17, <1>18 DEF IsLowestFree
                <4>2. Used(0, v)
                    BY <2>1, <3>2, <4>1, <1>1, <1>2, <1>6 DEF Round, ListFacts
                <4> QED
                    BY <4>2, <1>6, <1>16
            <3> QED
                BY <3>1, <3>2
        <2>6. Covered'
            <3> SUFFICES ASSUME NEW d \in running, NEW w \in Vectors, Used(d, w)' PROVE Used(0, w)'
                BY <1>5 DEF Covered
            <3>1. d \in CPUs
                BY <1>1 DEF ListFacts
            <3>2. CASE Used(d, w)
                BY <3>1, <3>2, <2>1, <1>16 DEF Covered
            <3>3. CASE ~Used(d, w)
                BY <3>1, <3>3, <2>5, <1>16
            <3> QED
                BY <3>2, <3>3
        <2>7. Round'
            <3> SUFFICES ASSUME NEW k \in 1..Len(pCpuIDs), Idx' # 0, k > Idx', NEW w \in Vectors,
                                IsLowestFree(pCpuIDs[k], w)'
                         PROVE  Used(0, w)'
                BY <1>5 DEF Round
            <3> PICK d : d = pCpuIDs[k]
                OBVIOUS
            <3>1. Idx' = Idx + 1 /\ k # Idx + 1 /\ k > Idx
                BY <1>1, <1>11 DEF ListFacts
            <3>2. d # c /\ d \in running /\ d \in CPUs
                BY <1>1, <1>2, <3>1 DEF ListFacts
            <3>3. w \in RESERVED..NUM_INT_VECTORS - 1 /\ ~Used(d, w) /\ \A x \in RESERVED..w - 1 : Used(d, x)
                <4>1. w \in RESERVED..NUM_INT_VECTORS - 1 /\ ~Used(d, w)' /\ \A x \in RESERVED..w - 1 : Used(d, x)'
                    <5>1. IsLowestFree(d, w)'
                        BY <1>5
                    <5> QED
                        BY <5>1 DEF IsLowestFree
                <4>2. \A x \in RESERVED..w - 1 : x \in Vectors
                    BY <4>1 DEF Vectors
                <4> QED
                    BY <4>1, <4>2, <3>2, <1>16
            <3>4. CASE Idx = 0
                <4>1. c = 0
                    BY <2>4, <3>4
                <4>2. CASE w < v
                    <5>1. w \in RESERVED..v - 1
                        BY <4>2, <3>3, <1>6
                    <5> QED
                        BY <5>1, <4>1, <1>16, <1>18
                <4>3. CASE w = v
                    BY <2>5, <4>3
                <4>4. CASE w > v
                    <5>1. Used(d, v)
                        BY <4>4, <3>3, <1>6
                    <5>2. Used(0, v)
                        BY <5>1, <3>2, <2>1, <1>6 DEF Covered
                    <5> QED
                        BY <5>2, <4>1, <1>3, <1>6, <1>17
                <4> QED
                    BY <4>2, <4>3, <4>4, <1>6, <3>3
            <3>5. CASE Idx # 0
                <4>1. IsLowestFree(pCpuIDs[k], w)
                    BY <3>3 DEF IsLowestFree
                <4> QED
                    BY <4>1, <3>1, <3>5, <2>1, <1>16 DEF Round
            <3> QED
                BY <3>4, <3>5
        <2> QED
            BY <2>2, <2>6, <2>7
    <1>20. Routed'
        <2> SUFFICES ASSUME NEW i \in IRQs, NEW p \in Pins, Feeds(i, p), ~redir[p].masked
                     PROVE  Sends(i, redir[p])'
            BY <1>5 DEF Routed
        <2>1. Sends(i, redir[p])
            BY DEF IrqIInv, Routed
        <2>2. i # irq
            BY <2>1, <1>9 DEF Sends
        <2> QED
            BY <2>1, <2>2, <1>5, <1>10 DEF Sends
    <1>21. BootOnly'
        <2>1. ~late => Alone
            BY <1>5 DEF IrqIInv, BootOnly
        <2>2. Alone => c = BSP
            BY <1>3 DEF Alone
        <2> QED
            BY <2>1, <2>2, <1>5, <1>8, <1>10 DEF IrqIInv, BootOnly, Alone
    <1> QED
        BY <1>12, <1>13, <1>14, <1>15, <1>19, <1>20, <1>21 DEF IrqIInv, ZeroFirst

LEMMA SetHardwareIInv == ASSUME IrqIInv, SetHardwareInterrupt PROVE IrqIInv'
    <1> USE VectorFacts
    <1> DEFINE c == offer[irq].CpuID
               v == offer[irq].IntVector
    <1>1. /\ setupStep = "set" /\ setupStep' = "redirectLow"
          /\ Interrupt' = [Interrupt EXCEPT ![c][v] = irq]
          /\ UNCHANGED <<late, running, pCpuIDs, redir, Idx, irq, todo, RetryCount, offer, irr, isr, stray>>
        BY DEF SetHardwareInterrupt, TargetCpu
    <1>2. irq \in IRQs /\ offer[irq] \in Offers /\ Placed(irq)
        BY <1>1 DEF IrqIInv, Shape, Asked, Places
    <1>3. c \in CPUs /\ v \in Vectors /\ offer[irq] = [CpuID |-> c, IntVector |-> v]
        BY <1>2 DEF Offers
    <1>4. Interrupt[c][v] = NONE /\ irq # NONE
        BY <1>1, <1>2 DEF Placed
    <1> HIDE DEF c, v
    <1>5. Interrupt \in [CPUs -> [Vectors -> Nat \cup {NONE}]]
        BY DEF IrqIInv, Shape
    <1>6. /\ Interrupt' \in [CPUs -> [Vectors -> Nat \cup {NONE}]] /\ Interrupt'[c][v] = irq
          /\ \A d \in CPUs : \A w \in Vectors : d # c \/ w # v => Interrupt'[d][w] = Interrupt[d][w]
        BY <1>1, <1>2, <1>3, <1>5
    <1>7. \A d \in CPUs : \A w \in Vectors : Interrupt[d][w] # NONE => Interrupt'[d][w] # NONE
        BY <1>4, <1>6
    <1>8. ListFacts
        BY ListedFacts DEF IrqIInv
    <1>9. Shape'
        BY <1>1, <1>6 DEF IrqIInv, Shape, Steps
    <1>10. Listed' /\ Asked' /\ Tried' /\ OverrunMeansFull' /\ Half' /\ Masked' /\ BootOnly'
        BY <1>1 DEF IrqIInv, Listed, Alone, Asked, Tried, OverrunMeansFull, Half, Masked, BootOnly
    <1>11. Initialised'
        BY <1>1, <1>7, <1>8 DEF IrqIInv, Initialised, ListFacts
    <1>12. Places'
        <2> SUFFICES ASSUME NEW i \in IRQs, offer[i] # NONE PROVE Placed(i)'
            BY <1>1 DEF Places
        <2>1. Placed(i) /\ offer[i] \in Offers
            BY DEF IrqIInv, Places, Shape
        <2>2. offer[i].CpuID \in CPUs /\ offer[i].IntVector \in Vectors
            BY <2>1 DEF Offers
        <2>3. CASE i = irq
            BY <2>1, <2>3, <1>1, <1>6 DEF Placed, c, v
        <2>4. CASE i # irq
            <3>1. Interrupt[offer[i].CpuID][offer[i].IntVector] = i /\ i # NONE
                BY <2>1, <2>4 DEF Placed
            <3>2. offer[i].CpuID # c \/ offer[i].IntVector # v
                BY <3>1, <1>4
            <3> QED
                BY <2>1, <2>2, <3>1, <3>2, <1>1, <1>6 DEF Placed
        <2> QED
            BY <2>3, <2>4
    <1>13. \A d \in CPUs : \A w \in Vectors : Used(d, w)' <=> Used(d, w)
        <2> SUFFICES ASSUME NEW d \in CPUs, NEW w \in Vectors PROVE Used(d, w)' <=> Used(d, w)
            OBVIOUS
        <2>1. Used(d, w)' <=> Interrupt'[d][w] # NONE
            BY <1>1 DEF Used
        <2>2. CASE d = c /\ w = v
            BY <2>1, <2>2, <1>1, <1>3, <1>4, <1>6 DEF Used
        <2>3. CASE ~(d = c /\ w = v)
            <3>1. offer[irq] # [CpuID |-> d, IntVector |-> w]
                BY <2>3, <1>3
            <3> QED
                BY <2>1, <2>3, <3>1, <1>6 DEF Used
        <2> QED
            BY <2>2, <2>3
    <1>14. ASSUME BSP = 0 PROVE Covered' /\ Round' /\ Handled'
        <2>1. Covered /\ Round /\ Handled
            BY <1>14 DEF IrqIInv, ZeroFirst
        <2>2. Covered'
            BY <2>1, <1>1, <1>8, <1>13 DEF Covered, ListFacts
        <2>3. \A d \in CPUs : \A w \in Vectors : IsLowestFree(d, w)' => IsLowestFree(d, w)
            <3> SUFFICES ASSUME NEW d \in CPUs, NEW w \in Vectors, IsLowestFree(d, w)'
                         PROVE  IsLowestFree(d, w)
                OBVIOUS
            <3>1. \A x \in RESERVED..w - 1 : x \in Vectors
                BY DEF Vectors
            <3> QED
                BY <3>1, <1>13 DEF IsLowestFree
        <2>4. Round'
            BY <2>1, <2>3, <1>1, <1>8, <1>13 DEF Round, ListFacts
        <2>5. Handled'
            BY <2>1, <1>1, <1>7 DEF Handled, IrqIInv, Shape
        <2> QED
            BY <2>2, <2>4, <2>5
    <1>15. Routed'
        BY <1>1 DEF IrqIInv, Routed, Sends
    <1> QED
        BY <1>9, <1>10, <1>11, <1>12, <1>14, <1>15 DEF IrqIInv, ZeroFirst

(* SetRedirectIRQ changes the pin and the step alone. *)
LEMMA RedirectKeeps ==
    ASSUME IrqIInv,
           setupStep \in {"redirectLow", "redirectHigh"}, setupStep' \in {"redirectHigh", "idle"},
           UNCHANGED <<late, Interrupt, running, pCpuIDs, Idx, irq, todo, RetryCount, offer, irr, isr, stray>>,
           redir' \in [Pins -> [masked : BOOLEAN, vector : Vectors, dest : CPUs]]
    PROVE  /\ Shape' /\ Listed' /\ Places' /\ Asked' /\ Initialised'
           /\ Tried' /\ OverrunMeansFull' /\ ZeroFirst' /\ BootOnly'
    <1>1. Shape'
        BY DEF IrqIInv, Shape, Steps
    <1>2. Listed' /\ Places' /\ Asked' /\ Initialised' /\ Tried' /\ OverrunMeansFull'
        BY DEF IrqIInv, Listed, Alone, Places, Placed, Asked, Initialised, Tried, OverrunMeansFull
    <1>3. BSP = 0 => Covered' /\ Round' /\ Handled'
        BY DEF IrqIInv, ZeroFirst, Covered, Round, Used, IsLowestFree, Handled
    <1>4. BootOnly'
        BY DEF IrqIInv, BootOnly, Alone
    <1> QED
        BY <1>1, <1>2, <1>3, <1>4 DEF ZeroFirst

LEMMA RedirectLowIInv == ASSUME IrqIInv, SetRedirectLow PROVE IrqIInv'
    <1> USE VectorFacts
    <1>1. /\ setupStep = "redirectLow"
          /\ UNCHANGED <<late, Interrupt, running, pCpuIDs, Idx, irq, todo, RetryCount, offer, irr, isr, stray>>
        BY DEF SetRedirectLow
    <1>2. redir \in [Pins -> [masked : BOOLEAN, vector : Vectors, dest : CPUs]]
        BY DEF IrqIInv, Shape
    <1>3. CASE FindIoApicForIRQ(irq) = NONE
        <2>1. setupStep' = "idle" /\ redir' = redir
            BY <1>3 DEF SetRedirectLow
        <2>2. Half' /\ Masked' /\ Routed'
            BY <1>1, <2>1 DEF IrqIInv, Half, Masked, Routed, Sends
        <2> QED
            BY <2>1, <2>2, <1>1, <1>2, RedirectKeeps DEF IrqIInv
    <1>4. CASE FindIoApicForIRQ(irq) # NONE
        <2>1. irq \in IRQs /\ offer[irq] \in Offers /\ offer[irq] # NONE
            BY <1>1 DEF IrqIInv, Shape, Asked
        <2> PICK pin : pin = PinOf(irq)
            OBVIOUS
        <2>2. pin \in Pins /\ Feeds(irq, pin)
            BY <2>1, <1>4, PinFacts
        <2>3. /\ setupStep' = "redirectHigh"
              /\ redir' = [redir EXCEPT ![pin] = [redir[pin] EXCEPT !.masked = FALSE, !.vector = offer[irq].IntVector]]
            BY <1>4 DEF SetRedirectLow, WriteLow
        <2>4. offer[irq].IntVector \in Vectors
            BY <2>1 DEF Offers
        <2>5. redir[pin] \in [masked : BOOLEAN, vector : Vectors, dest : CPUs] /\ redir[pin].dest \in CPUs
            BY <1>2, <2>2
        <2>6. /\ redir'[pin].dest = redir[pin].dest /\ ~redir'[pin].masked
              /\ redir'[pin].vector = offer[irq].IntVector
              /\ \A p \in Pins : p # pin => redir'[p] = redir[p]
            BY <2>2, <2>3, <2>5, <1>2
        <2>7. redir' \in [Pins -> [masked : BOOLEAN, vector : Vectors, dest : CPUs]]
            BY <2>2, <2>3, <2>4, <2>5, <1>2
        <2>8. redir[pin].dest = 0
            <3>1. redir[pin].masked
                BY <2>1, <2>2, <1>1 DEF IrqIInv, Routed, Sends
            <3> QED
                BY <3>1, <2>2 DEF IrqIInv, Masked
        <2>9. Half'
            <3>1. (FindIoApicForIRQ(irq) = NONE)' <=> FindIoApicForIRQ(irq) = NONE
                BY <1>1 DEF FindIoApicForIRQ
            <3>2. PinOf(irq)' = pin
                BY <1>1 DEF PinOf, FindIoApicForIRQ
            <3> QED
                BY <3>1, <3>2, <1>4, <2>6 DEF Half
        <2>10. Masked'
            BY <2>6 DEF IrqIInv, Masked
        <2>11. Routed'
            <3> SUFFICES ASSUME NEW i \in IRQs, NEW p \in Pins, Feeds(i, p), ~redir'[p].masked
                         PROVE  Sends(i, redir[p])'
                BY DEF Routed
            <3>1. CASE p = pin
                <4>1. i = irq
                    BY <2>1, <2>2, <3>1, OneInterrupt
                <4> QED
                    BY <4>1, <3>1, <1>1, <2>1, <2>3, <2>6, <2>8 DEF Sends
            <3>2. CASE p # pin
                <4>1. Sends(i, redir[p]) /\ i # irq
                    <5>1. Sends(i, redir[p])
                        BY <3>2, <2>6 DEF IrqIInv, Routed
                    <5> QED
                        BY <5>1, <1>1 DEF Sends
                <4> QED
                    BY <4>1, <3>2, <1>1, <2>3, <2>6 DEF Sends
            <3> QED
                BY <3>1, <3>2
        <2> QED
            BY <2>3, <2>7, <2>9, <2>10, <2>11, <1>1, RedirectKeeps DEF IrqIInv
    <1> QED
        BY <1>3, <1>4

LEMMA RedirectHighIInv == ASSUME IrqIInv, SetRedirectHigh PROVE IrqIInv'
    <1> USE VectorFacts
    <1>1. /\ setupStep = "redirectHigh" /\ setupStep' = "idle"
          /\ UNCHANGED <<late, Interrupt, running, pCpuIDs, Idx, irq, todo, RetryCount, offer, irr, isr, stray>>
        BY DEF SetRedirectHigh
    <1>2. redir \in [Pins -> [masked : BOOLEAN, vector : Vectors, dest : CPUs]]
        BY DEF IrqIInv, Shape
    <1>3. irq \in IRQs /\ offer[irq] \in Offers /\ offer[irq] # NONE
        BY <1>1 DEF IrqIInv, Shape, Asked
    <1> PICK pin : pin = PinOf(irq)
        OBVIOUS
    <1>4. pin \in Pins /\ Feeds(irq, pin) /\ ~redir[pin].masked
        BY <1>1, <1>3, PinFacts DEF IrqIInv, Half
    <1>5. redir' = [redir EXCEPT ![pin] = [redir[pin] EXCEPT !.dest = offer[irq].CpuID]]
        BY DEF SetRedirectHigh, WriteHigh
    <1>6. offer[irq].CpuID \in CPUs
        BY <1>3 DEF Offers
    <1>7. redir[pin] \in [masked : BOOLEAN, vector : Vectors, dest : CPUs]
        BY <1>2, <1>4
    <1>8. /\ redir'[pin].dest = offer[irq].CpuID /\ redir'[pin].vector = redir[pin].vector
          /\ ~redir'[pin].masked
          /\ \A p \in Pins : p # pin => redir'[p] = redir[p]
        BY <1>2, <1>4, <1>5, <1>7
    <1>9. redir' \in [Pins -> [masked : BOOLEAN, vector : Vectors, dest : CPUs]]
        BY <1>2, <1>4, <1>5, <1>6, <1>7
    <1>10. Half' /\ Masked'
        BY <1>1, <1>8 DEF IrqIInv, Half, Masked
    <1>11. Routed'
        <2> SUFFICES ASSUME NEW i \in IRQs, NEW p \in Pins, Feeds(i, p), ~redir'[p].masked
                     PROVE  Sends(i, redir[p])'
            BY DEF Routed
        <2>1. CASE p = pin
            <3>1. i = irq
                BY <1>3, <1>4, <2>1, OneInterrupt
            <3>2. Sends(irq, redir[pin])
                BY <1>3, <1>4 DEF IrqIInv, Routed
            <3> QED
                BY <3>1, <3>2, <2>1, <1>1, <1>3, <1>8 DEF Sends
        <2>2. CASE p # pin
            <3>1. Sends(i, redir[p]) /\ redir'[p] = redir[p]
                BY <2>2, <1>8 DEF IrqIInv, Routed
            <3>2. i # irq
                BY <2>2, <1>3, <1>4, OnePin
            <3> QED
                BY <3>1, <3>2, <1>1 DEF Sends
        <2> QED
            BY <2>1, <2>2
    <1> QED
        BY <1>1, <1>9, <1>10, <1>11, RedirectKeeps DEF IrqIInv

LEMMA InitSmpIInv == ASSUME IrqIInv, KrInitSMP PROVE IrqIInv'
    <1> USE VectorFacts
    <1>1. /\ setupStep = "idle" /\ (~late => todo = {}) /\ running' = CPUs /\ running # CPUs
          /\ Interrupt' = [c \in CPUs |-> IF c \in running THEN Interrupt[c] ELSE KrInitInt]
          /\ UNCHANGED <<late, redir, setupVars, irr, isr, stray>>
        BY DEF KrInitSMP
    <1>2. PICK ids \in [1..Cardinality(CPUs) -> CPUs] :
              Ascending(ids) /\ (\A c \in CPUs : \E k \in DOMAIN ids : ids[k] = c) /\ pCpuIDs' = ids
        BY DEF KrInitSMP
    <1>3. running = {BSP} /\ pCpuIDs = <<BSP>> /\ Len(pCpuIDs) = 1
        BY <1>1 DEF IrqIInv, Listed, Alone
    <1>4. Cardinality(CPUs) \in Nat
        BY IrqAssumption, FS_CardinalityType DEF IrqAssumption
    <1>5. ids \in Seq(CPUs) /\ Len(ids) = Cardinality(CPUs) /\ DOMAIN ids = 1..Len(ids)
        BY <1>2, <1>4
    <1>6. Len(ids) \in Nat /\ Len(ids) >= 1
        <2>1. \E k \in 1..Len(ids) : ids[k] = 0
            BY <1>2, <1>5
        <2> QED
            BY <1>4, <1>5, <2>1
    <1>7. Idx = 0 /\ RetryCount \in 0..2
        BY <1>3 DEF IrqIInv, Shape
    <1>8. KrInitInt \in [Vectors -> Nat \cup {NONE}]
        BY DEF KrInitInt
    <1>9. Interrupt' \in [CPUs -> [Vectors -> Nat \cup {NONE}]]
        BY <1>1, <1>8 DEF IrqIInv, Shape
    <1>10. Idx' = 0 /\ RetryCount' \in 0..Len(ids) + 1 /\ setupStep' = "idle" /\ todo' = todo
           /\ offer' = offer /\ irq' = irq
        BY <1>1, <1>6, <1>7 DEF setupVars
    <1>11. Shape'
        <2>1. pCpuIDs' \in Seq(CPUs) /\ Idx' \in 0..Len(pCpuIDs') - 1 /\ RetryCount' \in 0..Len(pCpuIDs') + 1
            BY <1>2, <1>5, <1>6, <1>10
        <2>2. redir' = redir /\ irr' = irr /\ isr' = isr
            BY <1>1
        <2>3. Shape
            BY DEF IrqIInv
        <2> QED
            BY <1>9, <1>10, <2>1, <2>2, <2>3 DEF Shape, Steps
    <1>12. Listed'
        BY <1>1, <1>2, <1>5 DEF Listed
    <1>13. \A c \in running : Interrupt'[c] = Interrupt[c]
        BY <1>1, <1>3
    <1>14. Places'
        BY <1>1, <1>3, <1>10, <1>13 DEF IrqIInv, Places, Placed
    <1>15. Asked' /\ Tried' /\ OverrunMeansFull' /\ Half'
        BY <1>1, <1>10 DEF IrqIInv, Asked, Tried, OverrunMeansFull, Half
    <1>16. Initialised'
        <2> SUFFICES ASSUME NEW c \in CPUs, NEW v \in Vectors, v <= TIMER \/ v = SPURIOUS
                     PROVE  Interrupt'[c][v] # NONE
            BY <1>1 DEF Initialised
        <2>1. CASE c \in running
            BY <2>1, <1>13 DEF IrqIInv, Initialised
        <2>2. CASE c \notin running
            <3>1. Interrupt'[c] = KrInitInt
                BY <1>1, <2>2
            <3> QED
                BY <3>1 DEF KrInitInt
        <2> QED
            BY <2>1, <2>2
    <1>17. ASSUME BSP = 0 PROVE Covered' /\ Round' /\ Handled'
        <2>1. Handled
            BY <1>17 DEF IrqIInv, ZeroFirst
        <2>2. Handled'
            BY <2>1, <1>1, <1>13 DEF Handled
        <2>3. Round'
            BY <1>10 DEF Round
        <2>4. Covered'
            <3> SUFFICES ASSUME NEW c \in CPUs, NEW v \in Vectors, Interrupt'[c][v] # NONE
                         PROVE  Interrupt'[0][v] # NONE
                BY <1>1, <1>10 DEF Covered, Used
            <3>1. CASE c = 0
                BY <3>1
            <3>2. CASE c # 0
                <4>1. Interrupt'[c] = KrInitInt
                    BY <3>2, <1>1, <1>3, <1>17
                <4>2. v <= TIMER \/ v = SPURIOUS
                    BY <4>1 DEF KrInitInt
                <4> QED
                    BY <4>2, <1>1, <1>16 DEF Initialised
            <3> QED
                BY <3>1, <3>2
        <2> QED
            BY <2>2, <2>3, <2>4
    <1>18. Masked' /\ Routed'
        BY <1>1, <1>10 DEF IrqIInv, Masked, Routed, Sends
    <1>19. BootOnly'
        BY <1>1, <1>10 DEF IrqIInv, BootOnly
    <1> QED
        BY <1>11, <1>12, <1>14, <1>15, <1>16, <1>17, <1>18, <1>19 DEF IrqIInv, ZeroFirst
-----------------------------------------------------------------------------
(* The invariant and its consequences *)

LEMMA IrqNextIInv == IrqIInv /\ [IrqNext]_irqVars => IrqIInv'
    <1> SUFFICES ASSUME IrqIInv, [IrqNext]_irqVars PROVE IrqIInv'
        OBVIOUS
    <1>1. CASE Setup
        <2>1. CASE AldistOfferSetupForIRQ
            BY <2>1, OfferFullIInv, OfferFreeIInv
        <2> QED
            BY <1>1, <2>1, BeginIInv, SetHardwareIInv, RedirectLowIInv, RedirectHighIInv, InitSmpIInv
            DEF Setup
    <1>2. CASE \E i \in IRQs : Fire(i)
        BY <1>2, FireIInv
    <1>3. CASE \E c \in CPUs : TimerExpires(c) \/ Deliver(c) \/ KrDispatchInterrupt(c)
        BY <1>3, TimerIInv, DeliverIInv, DispatchIInv
    <1>4. CASE UNCHANGED irqVars
        <2>1. UNCHANGED <<late, Interrupt, running, pCpuIDs, redir, setupVars, irr, isr, stray>>
            BY <1>4 DEF irqVars
        <2>2. irr' \in [CPUs -> SUBSET Vectors] /\ isr' \in [CPUs -> Vectors \cup {NONE}]
            BY <2>1 DEF IrqIInv, Shape
        <2>3. BSP = 0 => Handled'
            BY <2>1 DEF IrqIInv, ZeroFirst, Handled
        <2> QED
            BY <2>1, <2>2, <2>3, SetupStands DEF IrqIInv, BootOnly
    <1> QED
        BY <1>1, <1>2, <1>3, <1>4 DEF IrqNext

LEMMA IrqInvariant == IrqSpec => []IrqIInv
    BY IrqInitIInv, IrqNextIInv, PTL DEF IrqSpec

(* What the invariant says of the offers, whatever the ID of the bootstrap *)
(* processor.                                                              *)
OffersAreSound == IrqTypeOK /\ VectorsAreExclusive /\ OverrunMeansFull

LEMMA OffersFollow == ASSUME IrqIInv PROVE OffersAreSound
    <1> USE VectorFacts
    <1>1. ListFacts
        BY ListedFacts DEF IrqIInv
    <1>2. IrqTypeOK
        <2>1. Range(pCpuIDs) \subseteq running
            BY <1>1 DEF ListFacts, Range, IrqIInv, Shape
        <2>2. \A p \in Pins : redir[p].vector \in Vectors /\ redir[p].dest \in CPUs
            BY DEF IrqIInv, Shape
        <2> QED
            BY <1>1, <2>1, <2>2 DEF IrqTypeOK, IrqIInv, Shape, Steps, ListFacts
    <1>3. VectorsAreExclusive
        <2> SUFFICES ASSUME NEW i \in IRQs, offer[i] # NONE
                     PROVE  /\ offer[i].IntVector \notin {TIMER, SPURIOUS}
                            /\ \A j \in IRQs \ {i} : offer[j] # offer[i]
            BY DEF VectorsAreExclusive
        <2>1. Placed(i) /\ offer[i] \in Offers
            BY DEF IrqIInv, Places, Shape
        <2>2. offer[i].IntVector \notin {TIMER, SPURIOUS}
            BY <2>1 DEF Placed
        <2>3. ASSUME NEW j \in IRQs \ {i}, offer[j] = offer[i] PROVE FALSE
            <3>1. Placed(j)
                BY <2>3 DEF IrqIInv, Places
            <3> QED
                BY <2>1, <2>3, <3>1 DEF Placed
        <2> QED
            BY <2>2, <2>3
    <1> QED
        BY <1>2, <1>3 DEF OffersAreSound, IrqIInv

(* AldistOfferSetupForIRQ never gives a vector of a processor twice, nor   *)
(* the timer's or the spurious one, and the kernel melts down for lack of  *)
(* vectors only when no active processor has one left.                     *)
THEOREM OffersAreExclusive == IrqSpec => []OffersAreSound
    BY IrqInvariant, OffersFollow, PTL

(* With the bootstrap processor's local APIC ID 0, as a redirection entry  *)
(* has it from reset, whatever a pin lets through is served too: between   *)
(* the two writes of SetRedirectIRQ it goes where it was offered as long   *)
(* as only the bootstrap processor runs, and always to a processor whose   *)
(* table has a handler for the vector.                                     *)
THEOREM InterruptsRouted == ASSUME BSP = 0 PROVE IrqSpec => []InterruptsAreRouted
    <1>1. ASSUME IrqIInv PROVE InterruptsAreRouted
        <2>1. OffersAreSound
            BY <1>1, OffersFollow
        <2>2. EveryVectorHasAHandler
            BY <1>1 DEF IrqIInv, ZeroFirst, Handled, EveryVectorHasAHandler
        <2>3. NoStrayInterrupt
            BY <1>1 DEF IrqIInv, BootOnly, NoStrayInterrupt
        <2> QED
            BY <2>1, <2>2, <2>3 DEF OffersAreSound, InterruptsAreRouted
    <1> QED
        BY <1>1, IrqInvariant, PTL
-----------------------------------------------------------------------------
(* The ACPI tables *)

(* The walk over the MADT meets the record at cur again and again. *)
Stuck == cur <= Len(fw.records) /\ fw.records[cur].RecordSize = 0

(* The processors and the I/O APICs among the first n records. *)
CpusIn(n) == {fw.records[k].id : k \in {m \in 1 .. n : UsableLocalApic(fw.records[m])}}
IoApicsIn(n) == {fw.records[k].id : k \in {m \in 1 .. n : fw.records[m].type = "IoApic"}}

AfterWalk == {"mcfg", "fadt", "ioapics", "done"}

WalkIsInBounds ==
  /\ fw \in Firmwares /\ cur \in 1 .. Len(fw.records) + 1
  /\ acpiStep \in {"rsdp", "xsdt", "madt", "walk", "meltdown"} \cup AfterWalk
  /\ acpiStep \in AfterWalk => cur = Len(fw.records) + 1

ProcessorsAreRead ==
  /\ IsFiniteSet(DOMAIN ProcInfo) /\ DOMAIN ProcInfo = CpusIn(cur - 1)
  /\ IdealProcessorCount = Cardinality(DOMAIN ProcInfo)
  /\ acpiStep # "meltdown" =>
       \A id \in DOMAIN ProcInfo :
         ProcInfo[id] = [BSP |-> acpiStep \in AfterWalk /\ id = BspApicID,
                         RFD |-> acpiStep \in AfterWalk /\ id = BspApicID]

(* Every I/O APIC has the interrupts its record says and, once mapped, as  *)
(* many pins as the device.                                                *)
IoApicsAreRead ==
  /\ DOMAIN ioApicTable = IoApicsIn(cur - 1)
  /\ \A k \in 1 .. cur - 1 : fw.records[k].type = "IoApic" =>
       LET entry == ioApicTable[fw.records[k].id] IN
       \E on \in BOOLEAN : entry = [FirstIRQ |-> fw.records[k].FirstIRQ,
                                    MaxRedirEntry |-> IF on THEN fw.pins[fw.records[k].id] - 1 ELSE 0,
                                    INIT |-> on]
  /\ IoApicIDs \in Seq(Nat) /\ {IoApicIDs[m] : m \in 1 .. Len(IoApicIDs)} = DOMAIN ioApicTable

IoApicsAreMapped ==
  /\ nextIoApic \in Nat /\ nextIoApic > 0
  /\ acpiStep \notin {"ioapics", "done", "meltdown"} => nextIoApic = 1
  /\ acpiStep \in {"ioapics", "done"} =>
       /\ \A m \in 1 .. Len(IoApicIDs) : m < nextIoApic => ioApicTable[IoApicIDs[m]].INIT
       /\ pFadt.sum
  /\ acpiStep = "done" => nextIoApic > Len(IoApicIDs)

AcpiIInv ==
  /\ WalkIsInBounds
  /\ ~Stuck => ProcessorsAreRead /\ IoApicsAreRead
  /\ IoApicsAreMapped

(* What is known of the tables of a firmware. *)
FirmwareFacts ==
  /\ fw.records \in Seq(Record) /\ Len(fw.records) \in Nat
  /\ \A k \in 1 .. Len(fw.records) : fw.records[k] \in Record
  /\ \A j, k \in 1 .. Len(fw.records) :
       /\ fw.records[j].type = fw.records[k].type /\ fw.records[j].type # "other"
       /\ fw.records[j].id = fw.records[k].id
       => j = k
  /\ \A k \in 1 .. Len(fw.records) :
       fw.records[k].type = "IoApic" => fw.pins[fw.records[k].id] \in Nat \ {0}

LEMMA FirmwareIsInOrder ==
  ASSUME AcpiAssumption, fw \in Firmwares
  PROVE  FirmwareFacts
<1>1. /\ fw.records \in Seq(Record)
      /\ \A j, k \in DOMAIN fw.records :
           /\ fw.records[j].type = fw.records[k].type /\ fw.records[j].type # "other"
           /\ fw.records[j].id = fw.records[k].id
           => j = k
      /\ \A k \in DOMAIN fw.records :
           fw.records[k].type = "IoApic" => fw.pins[fw.records[k].id] \in Nat \ {0}
  BY Zenon DEF AcpiAssumption
<1> DEFINE R == fw.records
<1>2. R \in Seq(Record)
  BY <1>1
<1> HIDE DEF R
<1>3. Len(R) \in Nat /\ DOMAIN R = 1 .. Len(R) /\ \A k \in 1 .. Len(R) : R[k] \in Record
  BY <1>2
<1> QED
  BY <1>1, <1>3, Zenon DEF R, FirmwareFacts

(* Steps that leave the tables alone. *)
LEMMA TablesAreKept ==
  ASSUME ~Stuck => ProcessorsAreRead /\ IoApicsAreRead,
         UNCHANGED <<fw, madtVars, ioApicVars>>,
         acpiStep # "meltdown",
         acpiStep' # "meltdown" => (acpiStep' \in AfterWalk <=> acpiStep \in AfterWalk)
  PROVE  (~Stuck => ProcessorsAreRead /\ IoApicsAreRead)'
<1>1. /\ fw' = fw /\ cur' = cur /\ IdealProcessorCount' = IdealProcessorCount
      /\ ProcInfo' = ProcInfo /\ ioApicTable' = ioApicTable /\ IoApicIDs' = IoApicIDs
  BY DEF madtVars, ioApicVars
<1>2. Stuck' <=> Stuck
  BY <1>1 DEF Stuck
<1>3. ASSUME IoApicsAreRead PROVE IoApicsAreRead'
  BY <1>1, <1>3, Zenon DEF IoApicsAreRead, IoApicsIn
<1>4. ASSUME ProcessorsAreRead PROVE ProcessorsAreRead'
  <2>1. CpusIn(cur - 1)' = CpusIn(cur - 1)
    BY <1>1 DEF CpusIn
  <2>2. CASE acpiStep' = "meltdown"
    BY <1>1, <1>4, <2>1, <2>2 DEF ProcessorsAreRead
  <2>3. CASE acpiStep' # "meltdown"
    <3>1. acpiStep' \in AfterWalk <=> acpiStep \in AfterWalk
      BY <2>3
    <3>2. ASSUME NEW id \in DOMAIN ProcInfo
          PROVE  ProcInfo[id] = [BSP |-> acpiStep' \in AfterWalk /\ id = BspApicID,
                                 RFD |-> acpiStep' \in AfterWalk /\ id = BspApicID]
      <4>1. CASE acpiStep \in AfterWalk
        BY <3>1, <4>1, <1>4 DEF ProcessorsAreRead
      <4>2. CASE acpiStep \notin AfterWalk
        BY <3>1, <4>2, <1>4 DEF ProcessorsAreRead
      <4> QED
        BY <4>1, <4>2
    <3> QED
      BY <1>1, <1>4, <2>1, <3>2 DEF ProcessorsAreRead
  <2> QED
    BY <2>2, <2>3
<1> QED
  BY <1>2, <1>3, <1>4

LEMMA AcpiInitOK ==
  ASSUME AcpiAssumption, AcpiInit
  PROVE  AcpiIInv
<1>1. FirmwareFacts
  BY FirmwareIsInOrder DEF AcpiInit
<1>2. WalkIsInBounds /\ IoApicsAreMapped
  BY <1>1 DEF WalkIsInBounds, IoApicsAreMapped, AcpiInit, AfterWalk, FirmwareFacts
<1>3. DOMAIN ProcInfo = {} /\ DOMAIN ioApicTable = {} /\ Len(IoApicIDs) = 0 /\ IoApicIDs \in Seq(Nat)
  BY DEF AcpiInit
<1>4. cur - 1 = 0 /\ IdealProcessorCount = 0
  BY DEF AcpiInit
<1>5. CpusIn(cur - 1) = {} /\ IoApicsIn(cur - 1) = {}
  BY <1>4 DEF CpusIn, IoApicsIn
<1>6. ProcessorsAreRead
  BY <1>3, <1>4, <1>5, FS_EmptySet DEF ProcessorsAreRead
<1>7. {IoApicIDs[m] : m \in 1 .. Len(IoApicIDs)} = {}
  BY <1>3
<1>8. IoApicsAreRead
  BY <1>3, <1>4, <1>5, <1>7 DEF IoApicsAreRead
<1> QED
  BY <1>2, <1>6, <1>8 DEF AcpiIInv

(* The checks before the walk and the look for the other tables after it. *)
LEMMA ChecksOK ==
  ASSUME AcpiIInv, CheckRsdp \/ CheckXsdt \/ FindMadt \/ FindMcfg \/ FindFadt \/ IoApicsDone
  PROVE  AcpiIInv'
<1>1. UNCHANGED <<fw, madtVars, ioApicVars, nextIoApic>>
  BY DEF CheckRsdp, CheckXsdt, FindMadt, FindMcfg, FindFadt, IoApicsDone
<1>2. \/ acpiStep \in {"rsdp", "xsdt", "madt"} /\ acpiStep' \in {"xsdt", "madt", "walk", "meltdown"}
      \/ acpiStep = "mcfg" /\ acpiStep' \in {"fadt", "meltdown"}
      \/ acpiStep = "fadt" /\ acpiStep' \in {"ioapics", "meltdown"} /\ (acpiStep' = "ioapics" => pFadt'.sum)
      \/ acpiStep = "ioapics" /\ acpiStep' = "done" /\ pFadt' = pFadt /\ nextIoApic > Len(IoApicIDs)
  BY DEF CheckRsdp, CheckXsdt, FindMadt, FindMcfg, FindFadt, IoApicsDone, Fail
<1>3. (~Stuck => ProcessorsAreRead /\ IoApicsAreRead)'
  BY <1>1, <1>2, TablesAreKept DEF AcpiIInv, AfterWalk
<1>4. WalkIsInBounds'
  BY <1>1, <1>2 DEF AcpiIInv, WalkIsInBounds, AfterWalk, madtVars
<1>5. IoApicsAreMapped'
  <2>1. nextIoApic' = nextIoApic /\ ioApicTable' = ioApicTable /\ IoApicIDs' = IoApicIDs
    BY <1>1 DEF ioApicVars
  <2>2. IoApicsAreMapped
    BY DEF AcpiIInv
  <2>3. CASE acpiStep = "fadt"
    <3>1. nextIoApic = 1
      BY <2>2, <2>3 DEF IoApicsAreMapped
    <3>2. \A m \in 1 .. Len(IoApicIDs) : ~(m < 1)
      OBVIOUS
    <3> QED
      BY <1>2, <2>1, <2>2, <2>3, <3>1, <3>2 DEF IoApicsAreMapped
  <2>4. CASE acpiStep # "fadt"
    BY <1>2, <2>1, <2>2, <2>4 DEF IoApicsAreMapped
  <2> QED
    BY <2>3, <2>4
<1> QED
  BY <1>3, <1>4, <1>5 DEF AcpiIInv

(* One record more. *)
LEMMA CpusGrow ==
  ASSUME NEW n \in Nat, n > 0
  PROVE  CpusIn(n) = CpusIn(n - 1) \cup (IF UsableLocalApic(fw.records[n]) THEN {fw.records[n].id} ELSE {})
<1>1. \A m : m \in 1 .. n <=> m \in 1 .. n - 1 \/ m = n
  OBVIOUS
<1> QED
  BY <1>1, Zenon DEF CpusIn

LEMMA IoApicsGrow ==
  ASSUME NEW n \in Nat, n > 0
  PROVE  IoApicsIn(n) = IoApicsIn(n - 1) \cup (IF fw.records[n].type = "IoApic" THEN {fw.records[n].id} ELSE {})
<1>1. \A m : m \in 1 .. n <=> m \in 1 .. n - 1 \/ m = n
  OBVIOUS
<1> QED
  BY <1>1, Zenon DEF IoApicsIn

(* A record that is met for the first time has an ID of its own. *)
LEMMA NewRecord ==
  ASSUME FirmwareFacts, cur \in 1 .. Len(fw.records)
  PROVE  /\ UsableLocalApic(fw.records[cur]) => fw.records[cur].id \notin CpusIn(cur - 1)
         /\ fw.records[cur].type = "IoApic" => fw.records[cur].id \notin IoApicsIn(cur - 1)
<1>1. \A m \in 1 .. cur - 1 : m \in 1 .. Len(fw.records) /\ m # cur
  BY DEF FirmwareFacts
<1>2. ASSUME UsableLocalApic(fw.records[cur]), fw.records[cur].id \in CpusIn(cur - 1)
      PROVE  FALSE
  <2>1. PICK m \in 1 .. cur - 1 : UsableLocalApic(fw.records[m]) /\ fw.records[m].id = fw.records[cur].id
    BY <1>2 DEF CpusIn
  <2>2. fw.records[m].type = "LocalApic" /\ fw.records[cur].type = "LocalApic" /\ "LocalApic" # "other"
    BY <1>2, <2>1 DEF UsableLocalApic
  <2> QED
    BY <1>1, <2>1, <2>2 DEF FirmwareFacts
<1>3. ASSUME fw.records[cur].type = "IoApic", fw.records[cur].id \in IoApicsIn(cur - 1)
      PROVE  FALSE
  <2>1. PICK m \in 1 .. cur - 1 : fw.records[m].type = "IoApic" /\ fw.records[m].id = fw.records[cur].id
    BY <1>3 DEF IoApicsIn
  <2> QED
    BY <1>1, <1>3, <2>1 DEF FirmwareFacts
<1> QED
  BY <1>2, <1>3

LEMMA WalkReadsProcessor ==
  ASSUME FirmwareFacts, ProcessorsAreRead, WalkMadt, cur \in 1 .. Len(fw.records), cur' = cur + 1
  PROVE  ProcessorsAreRead'
<1> DEFINE r == fw.records[cur]
<1>1. acpiStep = "walk" /\ acpiStep' = acpiStep /\ fw' = fw /\ acpiStep \notin AfterWalk
  BY DEF WalkMadt, AfterWalk
<1>2. cur' - 1 = cur /\ cur \in Nat /\ cur > 0
  OBVIOUS
<1>3. CpusIn(cur - 1)' = CpusIn(cur)
  BY <1>1, <1>2 DEF CpusIn
<1>4. CpusIn(cur) = CpusIn(cur - 1) \cup (IF UsableLocalApic(r) THEN {r.id} ELSE {})
  BY <1>2, CpusGrow
<1>5. /\ IsFiniteSet(DOMAIN ProcInfo) /\ DOMAIN ProcInfo = CpusIn(cur - 1)
      /\ IdealProcessorCount = Cardinality(DOMAIN ProcInfo)
      /\ \A id \in DOMAIN ProcInfo : ProcInfo[id] = [BSP |-> FALSE, RFD |-> FALSE]
  BY <1>1 DEF ProcessorsAreRead
<1>6. CASE UsableLocalApic(r)
  <2>1. /\ IdealProcessorCount' = IdealProcessorCount + 1
        /\ ProcInfo' = With(ProcInfo, r.id, [BSP |-> FALSE, RFD |-> FALSE])
    BY <1>6 DEF WalkMadt
  <2>2. DOMAIN ProcInfo' = DOMAIN ProcInfo \cup {r.id}
    BY <2>1 DEF With
  <2>3. r.id \notin DOMAIN ProcInfo
    BY <1>5, <1>6, NewRecord
  <2>4. \A id \in DOMAIN ProcInfo' : ProcInfo'[id] = [BSP |-> FALSE, RFD |-> FALSE]
    BY <1>5, <2>1, <2>2 DEF With
  <2>5. IsFiniteSet(DOMAIN ProcInfo') /\ Cardinality(DOMAIN ProcInfo') = Cardinality(DOMAIN ProcInfo) + 1
    BY <1>5, <2>2, <2>3, FS_AddElement
  <2>6. DOMAIN ProcInfo' = CpusIn(cur - 1)'
    BY <1>3, <1>4, <1>5, <1>6, <2>2
  <2>7. \A id \in DOMAIN ProcInfo' : ProcInfo'[id] = [BSP |-> acpiStep' \in AfterWalk /\ id = BspApicID,
                                                      RFD |-> acpiStep' \in AfterWalk /\ id = BspApicID]
    BY <1>1, <2>4
  <2> QED
    BY <1>5, <2>1, <2>5, <2>6, <2>7 DEF ProcessorsAreRead
<1>7. CASE ~UsableLocalApic(r)
  <2>1. IdealProcessorCount' = IdealProcessorCount /\ ProcInfo' = ProcInfo
    BY <1>7 DEF WalkMadt
  <2>2. DOMAIN ProcInfo' = CpusIn(cur - 1)'
    BY <1>3, <1>4, <1>5, <1>7, <2>1
  <2>3. \A id \in DOMAIN ProcInfo' : ProcInfo'[id] = [BSP |-> acpiStep' \in AfterWalk /\ id = BspApicID,
                                                      RFD |-> acpiStep' \in AfterWalk /\ id = BspApicID]
    BY <1>1, <1>5, <2>1
  <2> QED
    BY <1>5, <2>1, <2>2, <2>3 DEF ProcessorsAreRead
<1> QED
  BY <1>6, <1>7

(* What the table says of the I/O APIC of record k. *)
EntryOf(k, on) ==
  [FirstIRQ |-> fw.records[k].FirstIRQ,
   MaxRedirEntry |-> IF on THEN fw.pins[fw.records[k].id] - 1 ELSE 0, INIT |-> on]

LEMMA WalkReadsIoApic ==
  ASSUME FirmwareFacts, IoApicsAreRead, WalkMadt, cur \in 1 .. Len(fw.records), cur' = cur + 1
  PROVE  IoApicsAreRead'
<1> DEFINE r == fw.records[cur]
<1>1. fw' = fw
  BY DEF WalkMadt
<1>2. cur' - 1 = cur /\ cur \in Nat /\ cur > 0
  OBVIOUS
<1>3. IoApicsIn(cur - 1)' = IoApicsIn(cur)
  BY <1>1, <1>2 DEF IoApicsIn
<1>4. IoApicsIn(cur) = IoApicsIn(cur - 1) \cup (IF r.type = "IoApic" THEN {r.id} ELSE {})
  BY <1>2, IoApicsGrow
<1>5. /\ DOMAIN ioApicTable = IoApicsIn(cur - 1)
      /\ \A k \in 1 .. cur - 1 : fw.records[k].type = "IoApic" =>
           \E on \in BOOLEAN : ioApicTable[fw.records[k].id] = EntryOf(k, on)
      /\ IoApicIDs \in Seq(Nat) /\ {IoApicIDs[m] : m \in 1 .. Len(IoApicIDs)} = DOMAIN ioApicTable
  BY DEF IoApicsAreRead, EntryOf
<1>6. SUFFICES /\ DOMAIN ioApicTable' = IoApicsIn(cur)
               /\ \A k \in 1 .. cur : fw.records[k].type = "IoApic" =>
                    \E on \in BOOLEAN : ioApicTable'[fw.records[k].id] = EntryOf(k, on)
               /\ IoApicIDs' \in Seq(Nat)
               /\ {IoApicIDs'[m] : m \in 1 .. Len(IoApicIDs')} = DOMAIN ioApicTable'
  BY <1>1, <1>2, <1>3 DEF IoApicsAreRead, EntryOf
<1>7. CASE r.type = "IoApic"
  <2> DEFINE new == [FirstIRQ |-> r.FirstIRQ, MaxRedirEntry |-> 0, INIT |-> FALSE]
  <2>1. ioApicTable' = With(ioApicTable, r.id, new) /\ IoApicIDs' = Append(IoApicIDs, r.id)
    BY <1>7 DEF WalkMadt
  <2>2. DOMAIN ioApicTable' = DOMAIN ioApicTable \cup {r.id}
    BY <2>1 DEF With
  <2>3. r.id \notin DOMAIN ioApicTable
    BY <1>5, <1>7, NewRecord
  <2>4. ioApicTable'[r.id] = EntryOf(cur, FALSE)
    BY <2>1, <2>2 DEF With, EntryOf
  <2>5. ASSUME NEW k \in 1 .. cur - 1, fw.records[k].type = "IoApic"
        PROVE  \E on \in BOOLEAN : ioApicTable'[fw.records[k].id] = EntryOf(k, on)
    <3>1. fw.records[k].id \in DOMAIN ioApicTable
      BY <1>5, <2>5 DEF IoApicsIn
    <3>2. ioApicTable'[fw.records[k].id] = ioApicTable[fw.records[k].id]
      BY <2>1, <2>2, <2>3, <3>1 DEF With
    <3> QED
      BY <1>5, <2>5, <3>2
  <2>6. \A k \in 1 .. cur : k \in 1 .. cur - 1 \/ k = cur
    BY <1>2
  <2>7. \A k \in 1 .. cur : fw.records[k].type = "IoApic" =>
          \E on \in BOOLEAN : ioApicTable'[fw.records[k].id] = EntryOf(k, on)
    BY <2>4, <2>5, <2>6, Zenon
  <2>8. r.id \in Nat
    BY DEF FirmwareFacts, Record
  <2>9. /\ IoApicIDs' \in Seq(Nat) /\ Len(IoApicIDs) \in Nat /\ Len(IoApicIDs') = Len(IoApicIDs) + 1
        /\ \A m \in 1 .. Len(IoApicIDs) : IoApicIDs'[m] = IoApicIDs[m]
        /\ IoApicIDs'[Len(IoApicIDs) + 1] = r.id
    <3> HIDE DEF r
    <3> QED
      BY <1>5, <2>1, <2>8
  <2>10. {IoApicIDs'[m] : m \in 1 .. Len(IoApicIDs')} = {IoApicIDs[m] : m \in 1 .. Len(IoApicIDs)} \cup {r.id}
    <3> HIDE DEF r
    <3>1. \A m : m \in 1 .. Len(IoApicIDs') <=> m \in 1 .. Len(IoApicIDs) \/ m = Len(IoApicIDs) + 1
      BY <2>9
    <3> QED
      BY <2>9, <3>1, Zenon
  <2>11. DOMAIN ioApicTable' = IoApicsIn(cur)
    BY <1>4, <1>5, <1>7, <2>2
  <2> QED
    BY <1>5, <2>2, <2>7, <2>9, <2>10, <2>11, Zenon
<1>8. CASE r.type # "IoApic"
  <2>1. ioApicTable' = ioApicTable /\ IoApicIDs' = IoApicIDs
    BY <1>8 DEF WalkMadt, ioApicVars
  <2>2. IoApicsIn(cur) = IoApicsIn(cur - 1)
    BY <1>4, <1>8
  <2>3. \A k \in 1 .. cur : k \in 1 .. cur - 1 \/ k = cur
    BY <1>2
  <2> QED
    BY <1>5, <1>8, <2>1, <2>2, <2>3, Zenon
<1> QED
  BY <1>7, <1>8

LEMMA WalkMadtOK ==
  ASSUME AcpiAssumption, AcpiIInv, WalkMadt
  PROVE  AcpiIInv'
<1>1. FirmwareFacts
  BY FirmwareIsInOrder DEF AcpiIInv, WalkIsInBounds
<1>2. cur \in 1 .. Len(fw.records) /\ Len(fw.records) \in Nat /\ fw.records[cur] \in Record
  BY <1>1 DEF AcpiIInv, WalkIsInBounds, WalkMadt, FirmwareFacts
<1>3. acpiStep = "walk" /\ acpiStep' = acpiStep /\ fw' = fw /\ nextIoApic' = nextIoApic /\ pFadt' = pFadt
  BY DEF WalkMadt
<1>4. cur' = IF fw.records[cur].RecordSize = 0 THEN cur ELSE cur + 1
  BY DEF WalkMadt, Advance
<1>5. WalkIsInBounds'
  BY <1>2, <1>3, <1>4 DEF AcpiIInv, WalkIsInBounds, AfterWalk
<1>6. IoApicsAreMapped'
  BY <1>3 DEF AcpiIInv, IoApicsAreMapped
<1>7. CASE fw.records[cur].RecordSize = 0
  <2>1. Stuck'
    BY <1>2, <1>3, <1>4, <1>7 DEF Stuck
  <2> QED
    BY <1>5, <1>6, <2>1 DEF AcpiIInv
<1>8. CASE fw.records[cur].RecordSize # 0
  <2>1. ProcessorsAreRead /\ IoApicsAreRead
    BY <1>8 DEF AcpiIInv, Stuck
  <2>2. cur' = cur + 1
    BY <1>4, <1>8
  <2>3. ProcessorsAreRead'
    BY <1>1, <1>2, <2>1, <2>2, WalkReadsProcessor
  <2>4. IoApicsAreRead'
    BY <1>1, <1>2, <2>1, <2>2, WalkReadsIoApic
  <2> QED
    BY <1>5, <1>6, <2>3, <2>4 DEF AcpiIInv
<1> QED
  BY <1>7, <1>8

LEMMA EndMadtOK ==
  ASSUME AcpiAssumption, AcpiIInv, EndMadt
  PROVE  AcpiIInv'
<1>1. FirmwareFacts
  BY FirmwareIsInOrder DEF AcpiIInv, WalkIsInBounds
<1>2. /\ acpiStep = "walk" /\ acpiStep' \in {"mcfg", "meltdown"} /\ fw' = fw /\ cur' = cur
      /\ IdealProcessorCount' = IdealProcessorCount /\ nextIoApic' = nextIoApic
      /\ ioApicTable' = ioApicTable /\ IoApicIDs' = IoApicIDs
  BY DEF EndMadt, Fail, ioApicVars
<1>3. cur = Len(fw.records) + 1 /\ Len(fw.records) \in Nat
  BY <1>1 DEF AcpiIInv, WalkIsInBounds, EndMadt, FirmwareFacts
<1>4. ~Stuck
  BY <1>3 DEF Stuck
<1>5. ProcessorsAreRead /\ IoApicsAreRead
  BY <1>4 DEF AcpiIInv
<1>6. WalkIsInBounds'
  BY <1>2, <1>3 DEF AcpiIInv, WalkIsInBounds, AfterWalk
<1>7. IoApicsAreMapped'
  BY <1>2 DEF AcpiIInv, IoApicsAreMapped
<1>8. IoApicsAreRead'
  BY <1>2, <1>5, Zenon DEF IoApicsAreRead, IoApicsIn
<1>9. ProcessorsAreRead'
  <2>1. \A id \in DOMAIN ProcInfo : ProcInfo[id] = [BSP |-> FALSE, RFD |-> FALSE]
    BY <1>2, <1>5 DEF ProcessorsAreRead, AfterWalk
  <2>2. ProcInfo' = IF BspApicID \in DOMAIN ProcInfo
                    THEN [ProcInfo EXCEPT ![BspApicID] = [BSP |-> TRUE, RFD |-> TRUE]] ELSE ProcInfo
    BY DEF EndMadt
  <2>3. DOMAIN ProcInfo' = DOMAIN ProcInfo
    BY <2>2
  <2>4. \A id \in DOMAIN ProcInfo' : ProcInfo'[id] = [BSP |-> id = BspApicID, RFD |-> id = BspApicID]
    BY <2>1, <2>2
  <2>5. acpiStep' # "meltdown" => acpiStep' \in AfterWalk
    BY <1>2 DEF AfterWalk
  <2>6. acpiStep' # "meltdown" =>
          \A id \in DOMAIN ProcInfo' : ProcInfo'[id] = [BSP |-> acpiStep' \in AfterWalk /\ id = BspApicID,
                                                        RFD |-> acpiStep' \in AfterWalk /\ id = BspApicID]
    BY <2>4, <2>5
  <2>7. CpusIn(cur - 1)' = CpusIn(cur - 1)
    BY <1>2 DEF CpusIn
  <2> QED
    BY <1>2, <1>5, <2>3, <2>6, <2>7 DEF ProcessorsAreRead
<1> QED
  BY <1>6, <1>7, <1>8, <1>9 DEF AcpiIInv

(* Every I/O APIC that is listed has a record, and its entry is what that  *)
(* record says.                                                            *)
LEMMA ListedIoApic ==
  ASSUME IoApicsAreRead, NEW id \in DOMAIN ioApicTable
  PROVE  \E k \in 1 .. cur - 1, on \in BOOLEAN :
            /\ fw.records[k].type = "IoApic" /\ fw.records[k].id = id
            /\ ioApicTable[id] = EntryOf(k, on)
<1>1. PICK k \in 1 .. cur - 1 : fw.records[k].type = "IoApic" /\ fw.records[k].id = id
  BY DEF IoApicsAreRead, IoApicsIn
<1>2. PICK on \in BOOLEAN : ioApicTable[id] = EntryOf(k, on)
  BY <1>1 DEF IoApicsAreRead, EntryOf
<1> QED
  BY <1>1, <1>2

Mapped(e, P, V) == [e EXCEPT !.MaxRedirEntry = P, !.INIT = V]

LEMMA EntryUpdate ==
  ASSUME NEW F, NEW M, NEW N, NEW P, NEW V, NEW e, e = [FirstIRQ |-> F, MaxRedirEntry |-> M, INIT |-> N]
  PROVE  Mapped(e, P, V) = [FirstIRQ |-> F, MaxRedirEntry |-> P, INIT |-> V]
<1> DEFINE h == [e EXCEPT !.MaxRedirEntry = P]
<1>1. Mapped(e, P, V) = [h EXCEPT !.INIT = V]
  BY DEF Mapped
<1>2. h = [FirstIRQ |-> F, MaxRedirEntry |-> P, INIT |-> N]
  OBVIOUS
<1> HIDE DEF h
<1>3. [h EXCEPT !.INIT = V] = [FirstIRQ |-> F, MaxRedirEntry |-> P, INIT |-> V]
  BY <1>2
<1> QED
  BY <1>1, <1>3

(* An I/O APIC is mapped. *)
LEMMA MappedOK ==
  ASSUME FirmwareFacts, IoApicsAreRead, NEW id \in DOMAIN ioApicTable, ~ioApicTable[id].INIT,
         cur = Len(fw.records) + 1, fw' = fw, cur' = cur, IoApicIDs' = IoApicIDs,
         ioApicTable' = [ioApicTable EXCEPT ![id].MaxRedirEntry = fw.pins[id] - 1, ![id].INIT = TRUE]
  PROVE  /\ IoApicsAreRead' /\ DOMAIN ioApicTable' = DOMAIN ioApicTable
         /\ ioApicTable'[id].INIT
         /\ \A x \in DOMAIN ioApicTable : x # id => ioApicTable'[x] = ioApicTable[x]
<1>1. PICK k \in 1 .. cur - 1, on \in BOOLEAN :
         /\ fw.records[k].type = "IoApic" /\ fw.records[k].id = id
         /\ ioApicTable[id] = EntryOf(k, on)
  BY ListedIoApic
<1>2. on = FALSE
  BY <1>1 DEF EntryOf
<1>3. DOMAIN ioApicTable' = DOMAIN ioApicTable /\ \A x \in DOMAIN ioApicTable : x # id => ioApicTable'[x] = ioApicTable[x]
  OBVIOUS
<1>4. ioApicTable'[id] = EntryOf(k, TRUE)
  <2>1. ioApicTable[id] = [FirstIRQ |-> fw.records[k].FirstIRQ, MaxRedirEntry |-> 0, INIT |-> FALSE]
    BY <1>1, <1>2 DEF EntryOf
  <2>2. ioApicTable'[id] = Mapped(ioApicTable[id], fw.pins[id] - 1, TRUE)
    BY DEF Mapped
  <2>3. PICK e, F, P : e = ioApicTable[id] /\ F = fw.records[k].FirstIRQ /\ P = fw.pins[id] - 1
    OBVIOUS
  <2>4. e = [FirstIRQ |-> F, MaxRedirEntry |-> 0, INIT |-> FALSE]
    BY <2>1, <2>3
  <2>5. Mapped(e, P, TRUE) = [FirstIRQ |-> F, MaxRedirEntry |-> P, INIT |-> TRUE]
    <3>1. PICK M, N, V : M = 0 /\ N = FALSE /\ V = TRUE
      BY Zenon
    <3>2. e = [FirstIRQ |-> F, MaxRedirEntry |-> M, INIT |-> N]
      BY <2>4, <3>1, Zenon
    <3>3. Mapped(e, P, V) = [FirstIRQ |-> F, MaxRedirEntry |-> P, INIT |-> V]
      BY <3>2, EntryUpdate
    <3> QED
      BY <3>1, <3>3, Zenon
  <2>6. ioApicTable'[id] = [FirstIRQ |-> F, MaxRedirEntry |-> P, INIT |-> TRUE]
    BY <2>2, <2>3, <2>5
  <2> QED
    BY <1>1, <2>3, <2>6 DEF EntryOf
<1>5. ASSUME NEW m \in 1 .. cur - 1, fw.records[m].type = "IoApic"
      PROVE  \E b \in BOOLEAN : ioApicTable'[fw.records[m].id] = EntryOf(m, b)
  <2>1. CASE fw.records[m].id = id
    <3>1. cur - 1 = Len(fw.records)
      BY DEF FirmwareFacts
    <3>2. m = k
      BY <1>1, <1>5, <2>1, <3>1 DEF FirmwareFacts
    <3> QED
      BY <1>4, <2>1, <3>2
  <2>2. CASE fw.records[m].id # id
    <3>1. fw.records[m].id \in DOMAIN ioApicTable
      BY <1>5 DEF IoApicsAreRead, IoApicsIn
    <3>2. \E b \in BOOLEAN : ioApicTable[fw.records[m].id] = EntryOf(m, b)
      BY <1>5 DEF IoApicsAreRead, EntryOf
    <3> QED
      BY <1>3, <2>2, <3>1, <3>2
  <2> QED
    BY <2>1, <2>2
<1>6. IoApicsIn(cur - 1)' = IoApicsIn(cur - 1)
  BY DEF IoApicsIn
<1>7. /\ DOMAIN ioApicTable = IoApicsIn(cur - 1)
      /\ IoApicIDs \in Seq(Nat) /\ {IoApicIDs[m] : m \in 1 .. Len(IoApicIDs)} = DOMAIN ioApicTable
  BY DEF IoApicsAreRead
<1>8. IoApicsAreRead'
  <2>1. \A m \in 1 .. cur' - 1 : fw'.records[m].type = "IoApic" =>
           \E b \in BOOLEAN : ioApicTable'[fw'.records[m].id] =
              [FirstIRQ |-> fw'.records[m].FirstIRQ,
               MaxRedirEntry |-> IF b THEN fw'.pins[fw'.records[m].id] - 1 ELSE 0, INIT |-> b]
    BY <1>5, Zenon DEF EntryOf
  <2>2. DOMAIN ioApicTable' = IoApicsIn(cur - 1)'
    BY <1>3, <1>6, <1>7, Zenon
  <2>3. IoApicIDs' \in Seq(Nat) /\ {IoApicIDs'[m] : m \in 1 .. Len(IoApicIDs')} = DOMAIN ioApicTable'
    BY <1>3, <1>7
  <2> QED
    BY <2>1, <2>2, <2>3, Zenon DEF IoApicsAreRead
<1>9. ioApicTable'[id].INIT
  BY <1>4 DEF EntryOf
<1> QED
  BY <1>3, <1>8, <1>9

LEMMA IoApicsInitOK ==
  ASSUME AcpiAssumption, AcpiIInv, IoApicsInit
  PROVE  AcpiIInv'
<1> DEFINE id == IoApicIDs[nextIoApic]
<1>1. FirmwareFacts
  BY FirmwareIsInOrder DEF AcpiIInv, WalkIsInBounds
<1>2. /\ acpiStep = "ioapics" /\ nextIoApic <= Len(IoApicIDs) /\ fw' = fw /\ IoApicIDs' = IoApicIDs
      /\ UNCHANGED madtVars /\ pFadt' = pFadt
  BY DEF IoApicsInit
<1>3. cur' = cur /\ IdealProcessorCount' = IdealProcessorCount /\ ProcInfo' = ProcInfo
  BY <1>2 DEF madtVars
<1>4. cur = Len(fw.records) + 1 /\ Len(fw.records) \in Nat
  BY <1>1, <1>2 DEF AcpiIInv, WalkIsInBounds, AfterWalk, FirmwareFacts
<1>5. ~Stuck
  BY <1>4 DEF Stuck
<1>6. ProcessorsAreRead /\ IoApicsAreRead /\ IoApicsAreMapped
  BY <1>5 DEF AcpiIInv
<1>7. nextIoApic \in Nat /\ Len(IoApicIDs) \in Nat /\ nextIoApic \in 1 .. Len(IoApicIDs)
  BY <1>2, <1>6 DEF IoApicsAreRead, IoApicsAreMapped
<1>8. id \in DOMAIN ioApicTable
  BY <1>6, <1>7 DEF IoApicsAreRead
<1>9. acpiStep' \in {"ioapics", "meltdown"}
  BY <1>2 DEF IoApicsInit, Fail
<1>10. WalkIsInBounds'
  BY <1>2, <1>3, <1>4, <1>9 DEF AcpiIInv, WalkIsInBounds, AfterWalk
<1>11. ProcessorsAreRead'
  <2>1. CpusIn(cur - 1)' = CpusIn(cur - 1)
    BY <1>2, <1>3 DEF CpusIn
  <2>2. acpiStep' # "meltdown" => acpiStep' = acpiStep /\ acpiStep # "meltdown"
    BY <1>2, <1>9
  <2> QED
    BY <1>3, <1>6, <2>1, <2>2 DEF ProcessorsAreRead
<1>12. ASSUME ioApicTable' = ioApicTable PROVE IoApicsAreRead'
  BY <1>2, <1>3, <1>6, <1>12, Zenon DEF IoApicsAreRead, IoApicsIn
<1>13. \A m \in 1 .. Len(IoApicIDs) : m < nextIoApic => IoApicIDs[m] \in DOMAIN ioApicTable /\ ioApicTable[IoApicIDs[m]].INIT
  BY <1>2, <1>6 DEF IoApicsAreRead, IoApicsAreMapped
<1>14. \A m \in 1 .. Len(IoApicIDs) : m < nextIoApic + 1 => m < nextIoApic \/ m = nextIoApic
  BY <1>7
<1>15. CASE ioApicTable[id].INIT /\ nextIoApic' = nextIoApic + 1 /\ UNCHANGED <<acpiStep, MdCode, ioApicTable>>
  <2>1. IoApicsAreMapped'
    BY <1>2, <1>6, <1>7, <1>13, <1>14, <1>15 DEF IoApicsAreMapped
  <2> QED
    BY <1>10, <1>11, <1>12, <1>15, <2>1 DEF AcpiIInv
<1>16. CASE /\ ~ioApicTable[id].INIT /\ nextIoApic' = nextIoApic + 1
            /\ ioApicTable' = [ioApicTable EXCEPT ![id].MaxRedirEntry = fw.pins[id] - 1, ![id].INIT = TRUE]
            /\ UNCHANGED <<acpiStep, MdCode>>
  <2> HIDE DEF id
  <2>1. /\ IoApicsAreRead' /\ DOMAIN ioApicTable' = DOMAIN ioApicTable
        /\ ioApicTable'[id].INIT
        /\ \A x \in DOMAIN ioApicTable : x # id => ioApicTable'[x] = ioApicTable[x]
    BY <1>1, <1>2, <1>3, <1>4, <1>6, <1>8, <1>16, MappedOK
  <2>2. \A m \in 1 .. Len(IoApicIDs) : m < nextIoApic + 1 => ioApicTable'[IoApicIDs[m]].INIT
    <3> SUFFICES ASSUME NEW m \in 1 .. Len(IoApicIDs), m < nextIoApic + 1
                 PROVE  ioApicTable'[IoApicIDs[m]].INIT
      OBVIOUS
    <3>1. m < nextIoApic \/ m = nextIoApic
      BY <1>14
    <3>2. CASE IoApicIDs[m] = id
      BY <2>1, <3>2
    <3>3. CASE IoApicIDs[m] # id
      <4>1. m < nextIoApic
        BY <3>1, <3>3 DEF id
      <4> QED
        BY <1>13, <2>1, <3>3, <4>1
    <3> QED
      BY <3>2, <3>3
  <2>3. IoApicsAreMapped'
    <3>1. nextIoApic' \in Nat /\ nextIoApic' > 0
      BY <1>7, <1>16
    <3>2. acpiStep' = "ioapics" /\ pFadt'.sum
      BY <1>2, <1>6, <1>16 DEF IoApicsAreMapped
    <3>3. \A m \in 1 .. Len(IoApicIDs') : m < nextIoApic' => ioApicTable'[IoApicIDs'[m]].INIT
      BY <1>2, <1>16, <2>2, Zenon
    <3> QED
      BY <3>1, <3>2, <3>3 DEF IoApicsAreMapped
  <2> QED
    BY <1>10, <1>11, <2>1, <2>3 DEF AcpiIInv
<1>17. CASE ~ioApicTable[id].INIT /\ Fail("IO_APICS_INIT_FAILURE") /\ UNCHANGED <<nextIoApic, ioApicTable>>
  <2>1. IoApicsAreMapped'
    BY <1>6, <1>17 DEF IoApicsAreMapped, Fail
  <2> QED
    BY <1>10, <1>11, <1>12, <1>17, <2>1 DEF AcpiIInv
<1> QED
  BY <1>15, <1>16, <1>17 DEF IoApicsInit

(* The invariant gives what the run checks. *)
LEMMA TopologyFromAcpiIInv ==
  ASSUME AcpiAssumption
  PROVE  AcpiIInv => TopologyIsExact
<1> SUFFICES ASSUME AcpiIInv, acpiStep = "done" PROVE TopologyIsExact
  BY DEF TopologyIsExact
<1>1. FirmwareFacts
  BY FirmwareIsInOrder DEF AcpiIInv, WalkIsInBounds
<1>2. cur = Len(fw.records) + 1 /\ Len(fw.records) \in Nat /\ cur - 1 = Len(fw.records)
  BY <1>1 DEF AcpiIInv, WalkIsInBounds, AfterWalk, FirmwareFacts
<1>3. ProcessorsAreRead /\ IoApicsAreRead /\ IoApicsAreMapped
  BY <1>2 DEF AcpiIInv, Stuck
<1> DEFINE R == fw.records
<1>4. DOMAIN R = 1 .. Len(R)
  BY <1>1 DEF FirmwareFacts
<1>5. DOMAIN ProcInfo = {r.id : r \in Enabled}
  <2>1. DOMAIN ProcInfo = CpusIn(Len(R))
    BY <1>2, <1>3 DEF ProcessorsAreRead
  <2>2. CpusIn(Len(R)) = {r.id : r \in Enabled}
    BY <1>4, Zenon DEF CpusIn, Enabled, UsableLocalApic
  <2> QED
    BY <2>1, <2>2
<1>6. IdealProcessorCount = Cardinality(DOMAIN ProcInfo)
  BY <1>3 DEF ProcessorsAreRead
<1>7. \A id \in DOMAIN ProcInfo : ProcInfo[id].BSP = (id = BspApicID)
  BY <1>3 DEF ProcessorsAreRead, AfterWalk
<1>8. pFadt.sum
  BY <1>3 DEF IoApicsAreMapped
<1>9. ASSUME NEW id \in DOMAIN ioApicTable
      PROVE  \E k \in 1 .. Len(R) : /\ R[k].type = "IoApic" /\ R[k].id = id
                                    /\ ioApicTable[id] = EntryOf(k, TRUE)
  <2>1. PICK k \in 1 .. cur - 1, on \in BOOLEAN :
           /\ R[k].type = "IoApic" /\ R[k].id = id /\ ioApicTable[id] = EntryOf(k, on)
    BY <1>3, ListedIoApic
  <2>2. PICK m \in 1 .. Len(IoApicIDs) : IoApicIDs[m] = id
    BY <1>3 DEF IoApicsAreRead
  <2>3. nextIoApic > Len(IoApicIDs) /\ nextIoApic \in Nat /\ Len(IoApicIDs) \in Nat
    BY <1>3 DEF IoApicsAreMapped, IoApicsAreRead
  <2>4. m < nextIoApic
    BY <2>3
  <2>5. ioApicTable[id].INIT
    BY <1>3, <2>2, <2>4 DEF IoApicsAreMapped
  <2>6. on = TRUE
    BY <2>1, <2>5 DEF EntryOf
  <2> QED
    BY <1>2, <2>1, <2>6
<1>10. ASSUME NEW k \in 1 .. Len(R), R[k].type = "IoApic"
       PROVE  /\ R[k].id \in DOMAIN ioApicTable /\ ioApicTable[R[k].id] = EntryOf(k, TRUE)
              /\ R[k].FirstIRQ \in Nat /\ fw.pins[R[k].id] \in Nat \ {0}
  <2>1. R[k].id \in DOMAIN ioApicTable
    BY <1>2, <1>3, <1>10 DEF IoApicsAreRead, IoApicsIn
  <2>2. PICK j \in 1 .. Len(R) : /\ R[j].type = "IoApic" /\ R[j].id = R[k].id
                                 /\ ioApicTable[R[k].id] = EntryOf(j, TRUE)
    BY <1>9, <2>1
  <2>3. j = k
    BY <1>1, <1>10, <2>2 DEF FirmwareFacts
  <2>4. R[k] \in Record
    BY <1>1 DEF FirmwareFacts
  <2>5. fw.pins[R[k].id] \in Nat \ {0}
    BY <1>1, <1>10 DEF FirmwareFacts
  <2> QED
    BY <2>1, <2>2, <2>3, <2>4, <2>5 DEF Record
<1>11. ASSUME NEW gsi \in 0 .. MAX_GSI, NEW k \in 1 .. Len(R), R[k].type = "IoApic"
       PROVE  R[k].id \in IoApicsForIRQ(gsi) <=> gsi \in R[k].FirstIRQ .. R[k].FirstIRQ + fw.pins[R[k].id] - 1
  <2>1. PICK F, P : F = R[k].FirstIRQ /\ P = fw.pins[R[k].id]
    OBVIOUS
  <2>2. F \in Nat /\ P \in Nat \ {0} /\ gsi \in Nat
    <3>1. MAX_GSI \in Nat
      BY Zenon DEF AcpiAssumption
    <3>2. gsi \in Nat
      BY <3>1
    <3>3. R[k].FirstIRQ \in Nat /\ fw.pins[R[k].id] \in Nat \ {0}
      BY <1>10, <1>11
    <3> QED
      BY <2>1, <3>2, <3>3
  <2>3. /\ R[k].id \in DOMAIN ioApicTable
        /\ ioApicTable[R[k].id] = [FirstIRQ |-> F, MaxRedirEntry |-> P - 1, INIT |-> TRUE]
    BY <1>10, <1>11, <2>1 DEF EntryOf
  <2>4. R[k].id \in IoApicsForIRQ(gsi) <=> gsi >= F /\ gsi <= F + (P - 1)
    BY <2>3 DEF IoApicsForIRQ
  <2>5. gsi \in F .. F + P - 1 <=> gsi >= F /\ gsi <= F + (P - 1)
    BY <2>2
  <2> QED
    BY <2>1, <2>4, <2>5
<1>12. ASSUME NEW gsi \in 0 .. MAX_GSI
       PROVE  IoApicsForIRQ(gsi) =
                {r.id : r \in {s \in FwIoApics : gsi \in s.FirstIRQ .. s.FirstIRQ + fw.pins[s.id] - 1}}
  <2> DEFINE On(s) == gsi \in s.FirstIRQ .. s.FirstIRQ + fw.pins[s.id] - 1
  <2>1. \A k \in 1 .. Len(R) : R[k].type = "IoApic" => (R[k].id \in IoApicsForIRQ(gsi) <=> On(R[k]))
    BY <1>11
  <2>2. \A s : s \in FwIoApics <=> s.type = "IoApic" /\ \E k \in 1 .. Len(R) : s = R[k]
    BY <1>4, Zenon DEF FwIoApics
  <2>3. IoApicsForIRQ(gsi) \subseteq DOMAIN ioApicTable
    BY DEF IoApicsForIRQ
  <2> HIDE DEF On, R
  <2>4. ASSUME NEW x \in IoApicsForIRQ(gsi) PROVE \E s \in FwIoApics : On(s) /\ x = s.id
    <3>1. PICK k \in 1 .. Len(R) : R[k].type = "IoApic" /\ R[k].id = x
      BY <1>9, <2>3
    <3>2. On(R[k]) /\ R[k] \in FwIoApics
      BY <2>1, <2>2, <2>4, <3>1
    <3> QED
      BY <3>1, <3>2
  <2>5. ASSUME NEW s \in FwIoApics, On(s) PROVE s.id \in IoApicsForIRQ(gsi)
    BY <2>1, <2>2, <2>5
  <2>6. IoApicsForIRQ(gsi) = {r.id : r \in {s \in FwIoApics : On(s)}}
    BY <2>4, <2>5, Zenon
  <2> QED
    BY <2>6, Zenon DEF On
<1> QED
  BY <1>5, <1>6, <1>7, <1>8, <1>12 DEF TopologyIsExact

(* Whatever order the MADT lists them in, and whichever of its records are *)
(* of no interest: when KrInitACPI and IoApicsInit are through, the kernel *)
(* knows exactly the enabled processors, each once, which of them is the   *)
(* bootstrap processor, and for every interrupt the I/O APIC whose pin it  *)
(* is.                                                                     *)
THEOREM TopologyExact ==
  ASSUME AcpiAssumption
  PROVE  AcpiSpec => []TopologyIsExact
<1>1. AcpiInit => AcpiIInv
  BY AcpiInitOK
<1>2. AcpiIInv /\ [AcpiNext]_acpiVars => AcpiIInv'
  <2> SUFFICES ASSUME AcpiIInv, [AcpiNext]_acpiVars PROVE AcpiIInv'
    OBVIOUS
  <2>1. CASE CheckRsdp \/ CheckXsdt \/ FindMadt \/ FindMcfg \/ FindFadt \/ IoApicsDone
    BY <2>1, ChecksOK
  <2>2. CASE WalkMadt
    BY <2>2, WalkMadtOK
  <2>3. CASE EndMadt
    BY <2>3, EndMadtOK
  <2>4. CASE IoApicsInit
    BY <2>4, IoApicsInitOK
  <2>5. CASE UNCHANGED acpiVars
    <3>1. /\ fw' = fw /\ acpiStep' = acpiStep /\ nextIoApic' = nextIoApic /\ pFadt' = pFadt
          /\ cur' = cur /\ IdealProcessorCount' = IdealProcessorCount /\ ProcInfo' = ProcInfo
          /\ ioApicTable' = ioApicTable /\ IoApicIDs' = IoApicIDs
      BY <2>5 DEF acpiVars, madtVars, ioApicVars
    <3>2. WalkIsInBounds' /\ IoApicsAreMapped' /\ (Stuck' <=> Stuck)
      BY <3>1 DEF AcpiIInv, WalkIsInBounds, IoApicsAreMapped, Stuck
    <3>3. CpusIn(cur - 1)' = CpusIn(cur - 1)
      BY <3>1 DEF CpusIn
    <3>4. ProcessorsAreRead' <=> ProcessorsAreRead
      BY <3>1, <3>3, Zenon DEF ProcessorsAreRead
    <3>5. IoApicsAreRead' <=> IoApicsAreRead
      <4>1. IoApicsIn(cur - 1)' = IoApicsIn(cur - 1)
        BY <3>1 DEF IoApicsIn
      <4> QED
        BY <3>1, <4>1, Zenon DEF IoApicsAreRead
    <3> QED
      BY <3>2, <3>4, <3>5 DEF AcpiIInv
  <2> QED
    BY <2>1, <2>2, <2>3, <2>4, <2>5, Zenon DEF AcpiNext
<1>3. AcpiIInv => TopologyIsExact
  BY TopologyFromAcpiIInv
<1> QED
  BY <1>1, <1>2, <1>3, PTL DEF AcpiSpec
-----------------------------------------------------------------------------
(* The device tree and pairing *)

(* The order in which PcieEnumerate meets the positions. *)
Before(p, q) ==
    \/ p[1] < q[1]
    \/ p[1] = q[1] /\ p[2] < q[2]
    \/ p[1] = q[1] /\ p[2] = q[2] /\ p[3] < q[3]

Chain == kids[PCIE_ROOT]

(* The devices of the tree that have a driver. *)
Paired == {n \in Tree : driver[n] # NULL}

TreeTypes ==
    /\ phase \in {"register", "enumerate", "pair", "done", "meltdown"}
    /\ toRegister \in Seq(Drivers) /\ LoadedDrivers \in Seq(Drivers)
    /\ kids \in [Nodes -> Seq(Nodes)]
    /\ class \in [Nodes -> Classes \cup {NULL}]
    /\ driver \in [Nodes -> Drivers \cup {NULL}]
    /\ probes \in [Nodes \X Drivers -> Nat]

(* Before the root is initialised drivers may have hung devices below it,  *)
(* but there is nothing else, and no device has been offered to a driver.  *)
NothingFound ==
    phase = "register" =>
        /\ \A n \in Nodes : class[n] = NULL /\ (n # ROOT => kids[n] = <<>>)
        /\ cursor = <<0, 0, 0>> /\ g_DeviceCount = 0

NothingOffered ==
    phase \in {"register", "enumerate", "meltdown"} =>
        /\ \A n \in {ROOT, PCIE_ROOT} \cup Positions : driver[n] = NULL
        /\ probes = [q \in Nodes \X Drivers |-> 0]
        /\ stack = <<>> /\ NrPaired = 0

(* The tree once the root is initialised. *)
TreeShape ==
    phase # "register" =>
        /\ kids[ROOT] = <<PCIE_ROOT>> /\ \A n \in Nodes \ {ROOT, PCIE_ROOT} : kids[n] = <<>>
        /\ Chain \in Seq(Positions) /\ Len(Chain) <= MaxFunctions /\ g_DeviceCount = Len(Chain) + 2
        /\ \A j, k \in 1 .. Len(Chain) : j < k => Before(Chain[j], Chain[k])
        /\ IsFiniteSet(Kids(PCIE_ROOT)) /\ Cardinality(Kids(PCIE_ROOT)) = Len(Chain)
        /\ class[ROOT] = NULL /\ class[PCIE_ROOT] = NULL
        /\ driver[ROOT] = NULL /\ driver[PCIE_ROOT] = NULL

(* The cursor is past everything found. *)
CursorIsAhead ==
    phase = "enumerate" =>
        /\ \E b \in 0 .. PCIE_MAX_BUS + 1, v \in 0 .. PCIE_MAX_DEV - 1, f \in 0 .. PCIE_MAX_FUN - 1 :
              cursor = <<b, v, f>>
        /\ \A k \in 1 .. Len(Chain) : Before(Chain[k], cursor)

(* The first m functions were offered to the drivers, the others were not. *)
Offered(m) ==
    /\ \A k \in 1 .. m : driver[Chain[k]] = NULL =>
         \A d \in Range(LoadedDrivers) :
            IsDriverCompatibleWithDevice(d, Chain[k]) => probes[<<Chain[k], d>>] > 0
    /\ \A k \in m + 1 .. Len(Chain) :
         driver[Chain[k]] = NULL /\ \A d \in Drivers : probes[<<Chain[k], d>>] = 0

(* A frame of LocalDevdrivPairAttempt, and the frames at each stage of the *)
(* walk: the call for the root visits the first function of the chain, a   *)
(* recursive call the ones from the second on.                             *)
F(n, b, k, a, p) == [node |-> n, base |-> b, kid |-> k, at |-> a, paired |-> p]

AtRoot        == stack = <<F(ROOT, NULL, NULL, "root", 0)>>
AtPcieRoot    == stack = <<F(ROOT, PCIE_ROOT, PCIE_ROOT, "kids", 0)>>
AtFirst       == Len(Chain) > 0 /\ stack = <<F(ROOT, PCIE_ROOT, Chain[1], "kids", 0)>>
AfterKids(b, p) == stack = <<F(ROOT, b, NULL, "kids", p)>>
AtSibling(m, a, p, r) ==
    stack = <<F(Chain[m], NULL, NULL, a, p), F(ROOT, PCIE_ROOT, NULL, "kids", r)>>

Walk(m, total) ==
    \/ m = 0 /\ total = 0 /\ (AtRoot \/ AtPcieRoot \/ AtFirst)
    \/ m = Len(Chain) /\ (AfterKids(PCIE_ROOT, total) \/ AfterKids(NULL, total))
    \/ \E p, r \in Nat : /\ total = p + r
                         /\ \/ m + 1 \in 2 .. Len(Chain) /\ AtSibling(m + 1, "root", p, r)
                            \/ m \in 2 .. Len(Chain) /\ AtSibling(m, "kids", p, r)

WalkIsOn ==
    phase \in {"pair", "done"} =>
      /\ IsFiniteSet(Paired)
      /\ \E m \in 0 .. Len(Chain) :
           /\ Offered(m)
           /\ phase = "pair" => Walk(m, Cardinality(Paired)) /\ NrPaired = 0
           /\ phase = "done" => m = Len(Chain) /\ NrPaired = Cardinality(Paired) /\ stack = <<>>

TreeIInv ==
    /\ TreeTypes /\ NothingFound /\ NothingOffered /\ TreeShape /\ CursorIsAhead /\ WalkIsOn
    /\ OfferedOnce
-----------------------------------------------------------------------------
(* Facts about the constants and the operators of the tree *)

NodeFacts ==
    /\ ROOT \in Nodes /\ PCIE_ROOT \in Nodes /\ Positions \subseteq Nodes /\ Platform \subseteq Nodes
    /\ Platform \subseteq Drivers
    /\ ROOT # PCIE_ROOT /\ ROOT \notin Positions /\ PCIE_ROOT \notin Positions
    /\ ROOT \notin Drivers /\ PCIE_ROOT \notin Drivers /\ Drivers \cap Positions = {}
    /\ NULL \notin Nodes /\ NULL \notin Drivers
    /\ PCIE_MAX_BUS \in Nat \ {0} /\ PCIE_MAX_DEV \in Nat \ {0} /\ PCIE_MAX_FUN \in Nat \ {0}
    /\ MaxFunctions \in Nat

LEMMA Constants == ASSUME DevdrivAssumption PROVE NodeFacts
    BY DEF DevdrivAssumption, NodeFacts, Nodes

LEMMA Types == ASSUME TreeTypes
    PROVE  /\ \A n \in Nodes : kids[n] \in Seq(Nodes)
           /\ DOMAIN kids = Nodes /\ DOMAIN class = Nodes /\ DOMAIN driver = Nodes
           /\ DOMAIN probes = Nodes \X Drivers
           /\ Range(LoadedDrivers) \subseteq Drivers
           /\ \A k \in DOMAIN LoadedDrivers : LoadedDrivers[k] \in Drivers
    <1>1. LoadedDrivers \in Seq(Drivers)
        BY DEF TreeTypes
    <1>2. \A k \in DOMAIN LoadedDrivers : LoadedDrivers[k] \in Drivers
        BY <1>1
    <1>3. Range(LoadedDrivers) \subseteq Drivers
        BY <1>2 DEF Range
    <1> QED
        BY <1>2, <1>3 DEF TreeTypes

LEMMA BeforeIsOrder ==
    ASSUME NEW p, NEW q, p \in Positions, Before(p, q)
    PROVE  p # q
    BY DEF Positions, Before

(* What AddChildDevice does to a chain, and to the set of its members. *)
LEMMA ChainGrows ==
    ASSUME NEW s, NEW S, s \in Seq(S), NEW x \in S
    PROVE  /\ Append(s, x) \in Seq(S) /\ Len(Append(s, x)) = Len(s) + 1 /\ Len(s) \in Nat
           /\ \A k \in 1 .. Len(s) : Append(s, x)[k] = s[k]
           /\ Append(s, x)[Len(s) + 1] = x
           /\ Range(Append(s, x)) = Range(s) \cup {x}
    <1>1. /\ Append(s, x) \in Seq(S) /\ Len(Append(s, x)) = Len(s) + 1 /\ Len(s) \in Nat
          /\ \A k \in 1 .. Len(s) : Append(s, x)[k] = s[k]
          /\ Append(s, x)[Len(s) + 1] = x
        OBVIOUS
    <1>2. DOMAIN s = 1 .. Len(s) /\ DOMAIN Append(s, x) = 1 .. Len(s) + 1
        OBVIOUS
    <1>3. \A k : k \in 1 .. Len(s) + 1 <=> k \in 1 .. Len(s) \/ k = Len(s) + 1
        BY <1>1
    <1> DEFINE t == Append(s, x)
    <1>4. /\ \A k \in 1 .. Len(s) : t[k] = s[k]
          /\ t[Len(s) + 1] = x /\ DOMAIN t = 1 .. Len(s) + 1
        BY <1>1, <1>2
    <1> HIDE DEF t
    <1>5. Range(t) = Range(s) \cup {x}
        BY <1>2, <1>3, <1>4, Zenon DEF Range
    <1> QED
        BY <1>1, <1>5 DEF t

(* The links of the nodes once the tree is built. *)
Linked ==
    /\ Len(Chain) \in Nat /\ DOMAIN Chain = 1 .. Len(Chain)
    /\ \A k \in 1 .. Len(Chain) : Chain[k] \in Positions
    /\ \A j, k \in 1 .. Len(Chain) : Chain[j] = Chain[k] => j = k
    /\ NextSib(ROOT) = NULL /\ NextSib(PCIE_ROOT) = NULL
    /\ \A k \in 1 .. Len(Chain) : NextSib(Chain[k]) = IF k < Len(Chain) THEN Chain[k + 1] ELSE NULL
    /\ FirstKid(ROOT) = PCIE_ROOT
    /\ FirstKid(PCIE_ROOT) = IF Len(Chain) > 0 THEN Chain[1] ELSE NULL
    /\ \A k \in 1 .. Len(Chain) : FirstKid(Chain[k]) = NULL
    /\ Tree = {ROOT, PCIE_ROOT} \cup Kids(PCIE_ROOT)
    /\ \A x : x \in Kids(PCIE_ROOT) <=> \E k \in 1 .. Len(Chain) : x = Chain[k]

LEMMA Links ==
    ASSUME DevdrivAssumption, TreeTypes, TreeShape, phase # "register"
    PROVE  Linked
    <1>0. NodeFacts
        BY Constants
    <1>1. /\ kids[ROOT] = <<PCIE_ROOT>> /\ \A n \in Nodes \ {ROOT, PCIE_ROOT} : kids[n] = <<>>
          /\ Chain \in Seq(Positions)
          /\ \A j, k \in 1 .. Len(Chain) : j < k => Before(Chain[j], Chain[k])
        BY DEF TreeShape
    <1>2. Len(Chain) \in Nat /\ DOMAIN Chain = 1 .. Len(Chain) /\ \A k \in 1 .. Len(Chain) : Chain[k] \in Positions
        BY <1>1
    <1>3. \A j, k \in 1 .. Len(Chain) : Chain[j] = Chain[k] => j = k
        <2> SUFFICES ASSUME NEW j \in 1 .. Len(Chain), NEW k \in 1 .. Len(Chain), j # k
                     PROVE  Chain[j] # Chain[k]
            OBVIOUS
        <2>1. j < k \/ k < j
            BY <1>2
        <2>2. ASSUME j < k PROVE Chain[j] # Chain[k]
            BY <2>2, <1>1, <1>2, BeforeIsOrder
        <2>3. ASSUME k < j PROVE Chain[j] # Chain[k]
            BY <2>3, <1>1, <1>2, BeforeIsOrder
        <2> QED
            BY <2>1, <2>2, <2>3
    <1>4. NextSib(ROOT) = NULL /\ NextSib(PCIE_ROOT) = NULL
        <2>1. Parent(ROOT) = ROOT /\ Parent(PCIE_ROOT) = ROOT
            BY <1>0 DEF Parent, NodeFacts
        <2>2. Len(kids[ROOT]) = 1
            BY <1>1
        <2>3. \A n : {i \in 2 .. Len(kids[ROOT]) : kids[ROOT][i - 1] = n} = {}
            BY <2>2
        <2> QED
            BY <2>1, <2>3, Zenon DEF NextSib
    <1>5. ASSUME NEW k \in 1 .. Len(Chain)
          PROVE  NextSib(Chain[k]) = IF k < Len(Chain) THEN Chain[k + 1] ELSE NULL
        <2> DEFINE next == {i \in 2 .. Len(Chain) : Chain[i - 1] = Chain[k]}
        <2>1. Parent(Chain[k]) = PCIE_ROOT
            BY <1>2 DEF Parent
        <2>2. NextSib(Chain[k]) = IF next = {} THEN NULL ELSE Chain[CHOOSE i \in next : TRUE]
            BY <2>1 DEF NextSib, Chain
        <2>3. \A i \in next : i = k + 1
            <3> SUFFICES ASSUME NEW i \in 2 .. Len(Chain), Chain[i - 1] = Chain[k] PROVE i = k + 1
                OBVIOUS
            <3>1. i - 1 \in 1 .. Len(Chain)
                BY <1>2
            <3>2. i - 1 = k
                BY <1>3, <3>1
            <3> QED
                BY <1>2, <3>2
        <2>4. CASE k < Len(Chain)
            <3>1. k + 1 \in 2 .. Len(Chain) /\ k + 1 - 1 = k
                BY <1>2, <2>4
            <3>2. k + 1 \in next
                BY <3>1
            <3> HIDE DEF next
            <3>3. (CHOOSE i \in next : TRUE) = k + 1
                BY <2>3, <3>2, Zenon
            <3> QED
                BY <2>2, <2>4, <3>2, <3>3
        <2>5. CASE ~(k < Len(Chain))
            <3>1. next = {}
                <4>1. \A i \in next : i \in 2 .. Len(Chain)
                    OBVIOUS
                <4> QED
                    BY <1>2, <2>3, <2>5, <4>1
            <3> HIDE DEF next
            <3> QED
                BY <2>2, <2>5, <3>1
        <2> QED
            BY <2>4, <2>5
    <1>6. FirstKid(ROOT) = PCIE_ROOT
        BY <1>1 DEF FirstKid
    <1>7. FirstKid(PCIE_ROOT) = IF Len(Chain) > 0 THEN Chain[1] ELSE NULL
        <2>1. Chain = <<>> <=> Len(Chain) = 0
            BY <1>1
        <2>2. FirstKid(PCIE_ROOT) = IF Chain = <<>> THEN NULL ELSE Chain[1]
            BY DEF FirstKid, Chain
        <2> QED
            BY <1>2, <2>1, <2>2
    <1>8. \A k \in 1 .. Len(Chain) : FirstKid(Chain[k]) = NULL
        <2> SUFFICES ASSUME NEW k \in 1 .. Len(Chain) PROVE FirstKid(Chain[k]) = NULL
            OBVIOUS
        <2>1. Chain[k] \in Nodes \ {ROOT, PCIE_ROOT}
            BY <1>0, <1>2 DEF NodeFacts
        <2> QED
            BY <1>1, <2>1 DEF FirstKid
    <1>9. Kids(ROOT) = {PCIE_ROOT}
        <2>1. DOMAIN kids[ROOT] = {1} /\ kids[ROOT][1] = PCIE_ROOT
            BY <1>1
        <2> QED
            BY <2>1 DEF Kids, Range
    <1>10. Tree = {ROOT, PCIE_ROOT} \cup Kids(PCIE_ROOT)
        <2>1. UNION {Kids(x) : x \in Kids(ROOT)} = Kids(PCIE_ROOT)
            BY <1>9, Zenon
        <2> QED
            BY <1>9, <2>1, Zenon DEF Tree
    <1>11. \A x : x \in Kids(PCIE_ROOT) <=> \E k \in 1 .. Len(Chain) : x = Chain[k]
        BY <1>2, Zenon DEF Kids, Chain, Range
    <1> QED
        BY <1>2, <1>3, <1>4, <1>5, <1>6, <1>7, <1>8, <1>10, <1>11, Zenon DEF Linked
-----------------------------------------------------------------------------
(* Registration and enumeration *)

LEMMA TreeInitOK == ASSUME DevdrivAssumption, TreeInit PROVE TreeIInv
    <1>0. NodeFacts
        BY Constants
    <1>1. toRegister \in Seq(Drivers)
        BY DEF TreeInit, DevdrivAssumption
    <1>2. LoadedDrivers = <<>>
        BY DEF TreeInit, LoadedDrivers
    <1>3. LoadedDrivers \in Seq(Drivers)
        BY <1>2
    <1>4. /\ kids \in [Nodes -> Seq(Nodes)] /\ class \in [Nodes -> Classes \cup {NULL}]
          /\ driver \in [Nodes -> Drivers \cup {NULL}]
        BY DEF TreeInit
    <1>5. probes = [q \in Nodes \X Drivers |-> 0]
        BY DEF TreeInit
    <1>6. probes \in [Nodes \X Drivers -> Nat] /\ OfferedOnce
        BY <1>5 DEF OfferedOnce
    <1>7. TreeTypes
        BY <1>0, <1>1, <1>3, <1>4, <1>6 DEF TreeTypes, TreeInit, NodeFacts
    <1>8. NothingFound /\ NothingOffered
        BY <1>0, <1>5 DEF NothingFound, NothingOffered, TreeInit, NodeFacts
    <1>9. phase = "register"
        BY DEF TreeInit
    <1> QED
        BY <1>6, <1>7, <1>8, <1>9 DEF TreeIInv, TreeShape, CursorIsAhead, WalkIsOn

LEMMA RegisterDriverOK == ASSUME DevdrivAssumption, TreeIInv, RegisterDriver PROVE TreeIInv'
    <1>0. NodeFacts
        BY Constants
    <1>1. TreeTypes /\ NothingFound /\ NothingOffered /\ OfferedOnce
        BY DEF TreeIInv
    <1>2. /\ phase = "register" /\ phase' = "register" /\ class' = class /\ g_DeviceCount' = g_DeviceCount
          /\ cursor' = cursor /\ stack' = stack /\ NrPaired' = NrPaired /\ probes' = probes
        BY DEF RegisterDriver
    <1> PICK d : d = Head(toRegister)
        OBVIOUS
    <1>3. d \in Drivers /\ toRegister' \in Seq(Drivers)
        BY <1>1 DEF RegisterDriver, TreeTypes
    <1>4. \/ UNCHANGED <<table, kids, driver>>
          \/ /\ \E ok \in BOOLEAN : table' = Loaded(LoadedDrivers, d, ok)
             /\ kids' = IF d \in Platform THEN AddChildDevice(kids, ROOT, d) ELSE kids
             /\ driver' = IF d \in Platform THEN [driver EXCEPT ![d] = d] ELSE driver
        BY DEF RegisterDriver
    <1>5. LoadedDrivers' \in Seq(Drivers)
        <2>1. CASE table' = table
            BY <1>1, <2>1 DEF LoadedDrivers, TreeTypes
        <2>2. ASSUME NEW ok \in BOOLEAN, table' = Loaded(LoadedDrivers, d, ok)
              PROVE  LoadedDrivers' \in Seq(Drivers)
            <3>1. LoadedDrivers \in Seq(Drivers)
                BY <1>1 DEF TreeTypes
            <3>2. Loaded(LoadedDrivers, d, ok) \in Seq(Drivers)
                BY <1>3, <3>1 DEF Loaded
            <3>3. LoadedDrivers' = IF table' = NULL THEN <<>> ELSE table'
                BY DEF LoadedDrivers
            <3> QED
                BY <2>2, <3>2, <3>3
        <2> QED
            BY <1>4, <2>1, <2>2
    <1>6. /\ kids' \in [Nodes -> Seq(Nodes)] /\ driver' \in [Nodes -> Drivers \cup {NULL}]
          /\ \A n \in Nodes : n # ROOT => kids'[n] = kids[n]
          /\ \A n \in {ROOT, PCIE_ROOT} \cup Positions : driver'[n] = driver[n]
        <2>1. kids \in [Nodes -> Seq(Nodes)] /\ driver \in [Nodes -> Drivers \cup {NULL}]
            BY <1>1 DEF TreeTypes
        <2>2. CASE kids' = kids /\ driver' = driver
            BY <2>1, <2>2
        <2>3. CASE d \in Platform /\ kids' = AddChildDevice(kids, ROOT, d) /\ driver' = [driver EXCEPT ![d] = d]
            <3>1. d \in Nodes /\ d \notin {ROOT, PCIE_ROOT} \cup Positions /\ ROOT \in Nodes
                BY <1>0, <1>3, <2>3 DEF NodeFacts
            <3>2. kids[ROOT] \in Seq(Nodes)
                BY <2>1, <3>1
            <3>3. Append(kids[ROOT], d) \in Seq(Nodes)
                BY <3>1, <3>2
            <3>4. kids' = [kids EXCEPT ![ROOT] = Append(kids[ROOT], d)]
                BY <2>3 DEF AddChildDevice
            <3>5. kids' \in [Nodes -> Seq(Nodes)] /\ \A n \in Nodes : n # ROOT => kids'[n] = kids[n]
                BY <2>1, <3>1, <3>3, <3>4
            <3>6. /\ driver' \in [Nodes -> Drivers \cup {NULL}]
                  /\ \A n \in {ROOT, PCIE_ROOT} \cup Positions : driver'[n] = driver[n]
                <4>1. {ROOT, PCIE_ROOT} \cup Positions \subseteq Nodes
                    BY <1>0 DEF NodeFacts
                <4>2. driver' = [driver EXCEPT ![d] = d]
                    BY <2>3
                <4> QED
                    BY <1>3, <2>1, <3>1, <4>1, <4>2
            <3> QED
                BY <3>5, <3>6
        <2> QED
            BY <1>4, <2>2, <2>3
    <1>7. TreeTypes'
        BY <1>1, <1>2, <1>3, <1>5, <1>6 DEF TreeTypes
    <1>8. NothingFound'
        BY <1>1, <1>2, <1>6 DEF NothingFound
    <1>9. NothingOffered'
        BY <1>1, <1>2, <1>6 DEF NothingOffered
    <1>10. OfferedOnce'
        BY <1>1, <1>2 DEF OfferedOnce
    <1> QED
        BY <1>2, <1>7, <1>8, <1>9, <1>10 DEF TreeIInv, TreeShape, CursorIsAhead, WalkIsOn

LEMMA InitDeviceTreeOK == ASSUME DevdrivAssumption, TreeIInv, InitDeviceTree PROVE TreeIInv'
    <1>0. NodeFacts
        BY Constants
    <1>1. TreeTypes /\ NothingFound /\ NothingOffered /\ OfferedOnce
        BY DEF TreeIInv
    <1>2. /\ phase = "register" /\ phase' = "enumerate" /\ class' = class /\ g_DeviceCount' = 2
          /\ kids' = AddChildDevice(ZeroRoot(kids), ROOT, PCIE_ROOT) /\ table' = table
          /\ toRegister' = toRegister /\ driver' = driver
          /\ cursor' = cursor /\ stack' = stack /\ NrPaired' = NrPaired /\ probes' = probes
        BY DEF InitDeviceTree
    <1>3. /\ kids \in [Nodes -> Seq(Nodes)] /\ ROOT \in Nodes /\ PCIE_ROOT \in Nodes /\ ROOT # PCIE_ROOT
        BY <1>0, <1>1 DEF TreeTypes, NodeFacts
    <1>4. /\ kids' \in [Nodes -> Seq(Nodes)] /\ kids'[ROOT] = <<PCIE_ROOT>>
          /\ \A n \in Nodes : n # ROOT => kids'[n] = kids[n]
        <2>1. ZeroRoot(kids) = [kids EXCEPT ![ROOT] = <<>>]
            BY DEF ZeroRoot
        <2>2. ZeroRoot(kids) \in [Nodes -> Seq(Nodes)] /\ ZeroRoot(kids)[ROOT] = <<>>
              /\ \A n \in Nodes : n # ROOT => ZeroRoot(kids)[n] = kids[n]
            BY <1>3, <2>1
        <2> PICK z : z = ZeroRoot(kids)
            OBVIOUS
        <2>3. kids' = [z EXCEPT ![ROOT] = Append(z[ROOT], PCIE_ROOT)]
            BY <1>2 DEF AddChildDevice
        <2>4. Append(z[ROOT], PCIE_ROOT) = <<PCIE_ROOT>> /\ <<PCIE_ROOT>> \in Seq(Nodes)
            BY <1>3, <2>2
        <2> QED
            BY <1>3, <2>2, <2>3, <2>4
    <1>5. \A n \in Nodes : class[n] = NULL /\ (n # ROOT => kids[n] = <<>>)
        BY <1>1, <1>2 DEF NothingFound
    <1>6. Chain' = <<>> /\ cursor' = <<0, 0, 0>>
        BY <1>1, <1>2, <1>3, <1>4, <1>5 DEF Chain, NothingFound
    <1>7. LoadedDrivers' = LoadedDrivers
        BY <1>2 DEF LoadedDrivers
    <1>8. TreeTypes'
        BY <1>1, <1>2, <1>4, <1>7 DEF TreeTypes
    <1>9. NothingFound' /\ NothingOffered'
        BY <1>1, <1>2 DEF NothingFound, NothingOffered
    <1>10. TreeShape'
        <2>1. Len(Chain') = 0 /\ Chain' \in Seq(Positions) /\ DOMAIN Chain' = {}
            BY <1>6
        <2>2. Kids(PCIE_ROOT)' = {}
            BY <2>1 DEF Kids, Chain, Range
        <2>3. driver[ROOT] = NULL /\ driver[PCIE_ROOT] = NULL
            BY <1>1, <1>2 DEF NothingOffered
        <2>4. \A n \in Nodes \ {ROOT, PCIE_ROOT} : kids'[n] = <<>>
            BY <1>4, <1>5
        <2>5. IsFiniteSet({}) /\ Cardinality({}) = 0
            BY FS_EmptySet
        <2>6. 0 <= MaxFunctions
            BY <1>0 DEF NodeFacts
        <2> QED
            BY <1>2, <1>3, <1>4, <1>5, <2>1, <2>2, <2>3, <2>4, <2>5, <2>6 DEF TreeShape
    <1>11. CursorIsAhead'
        <2>1. 0 \in 0 .. PCIE_MAX_BUS + 1 /\ 0 \in 0 .. PCIE_MAX_DEV - 1 /\ 0 \in 0 .. PCIE_MAX_FUN - 1
            BY <1>0 DEF NodeFacts
        <2>2. Len(Chain') = 0
            BY <1>6
        <2> QED
            BY <1>6, <2>1, <2>2 DEF CursorIsAhead
    <1>12. OfferedOnce'
        BY <1>1, <1>2 DEF OfferedOnce
    <1> QED
        BY <1>2, <1>8, <1>9, <1>10, <1>11, <1>12 DEF TreeIInv, WalkIsOn

(* A probe moves the cursor on, and the counter of buses passes the last. *)
InRange3(p) ==
    \E b \in 0 .. PCIE_MAX_BUS + 1, v \in 0 .. PCIE_MAX_DEV - 1, f \in 0 .. PCIE_MAX_FUN - 1 : p = <<b, v, f>>

LEMMA CursorMoves ==
    ASSUME NodeFacts, NEW b \in 0 .. PCIE_MAX_BUS, NEW v \in 0 .. PCIE_MAX_DEV - 1,
           NEW f \in 0 .. PCIE_MAX_FUN - 1, NEW multi \in BOOLEAN,
           NEW next, next = NextDevice(b, v) \/ next = NextFunction(b, v, f, multi)
    PROVE  InRange3(next) /\ Before(<<b, v, f>>, next)
    <1>1. /\ PCIE_MAX_BUS \in Nat \ {0} /\ PCIE_MAX_DEV \in Nat \ {0} /\ PCIE_MAX_FUN \in Nat \ {0}
          /\ b \in Nat /\ v \in Nat /\ f \in Nat
        BY DEF NodeFacts
    <1>2. IncBus(b) = b + 1
        <2>1. b + 1 \in Nat /\ b + 1 < 2 * (PCIE_MAX_BUS + 1) /\ 2 * (PCIE_MAX_BUS + 1) \in Nat
            BY <1>1
        <2>2. \A x, y \in Nat : x < y => x % y = x
            OBVIOUS
        <2> QED
            BY <2>1, <2>2 DEF IncBus
    <1>3. \/ next = <<b, v, f + 1>> /\ f + 1 < PCIE_MAX_FUN
          \/ next = <<b, v + 1, 0>> /\ v + 1 < PCIE_MAX_DEV
          \/ next = <<b + 1, 0, 0>>
        BY <1>2 DEF NextDevice, NextFunction
    <1>4. CASE next = <<b, v, f + 1>> /\ f + 1 < PCIE_MAX_FUN
        <2>1. f + 1 \in 0 .. PCIE_MAX_FUN - 1 /\ b \in 0 .. PCIE_MAX_BUS + 1
            BY <1>1, <1>4
        <2> QED
            BY <1>1, <1>4, <2>1 DEF InRange3, Before
    <1>5. CASE next = <<b, v + 1, 0>> /\ v + 1 < PCIE_MAX_DEV
        <2>1. v + 1 \in 0 .. PCIE_MAX_DEV - 1 /\ b \in 0 .. PCIE_MAX_BUS + 1 /\ 0 \in 0 .. PCIE_MAX_FUN - 1
            BY <1>1, <1>5
        <2> QED
            BY <1>1, <1>5, <2>1 DEF InRange3, Before
    <1>6. CASE next = <<b + 1, 0, 0>>
        <2>1. 0 \in 0 .. PCIE_MAX_DEV - 1 /\ b + 1 \in 0 .. PCIE_MAX_BUS + 1 /\ 0 \in 0 .. PCIE_MAX_FUN - 1
            BY <1>1, <1>6
        <2> QED
            BY <1>1, <1>6, <2>1 DEF InRange3, Before
    <1> QED
        BY <1>3, <1>4, <1>5, <1>6

LEMMA BeforeTransitive ==
    ASSUME NEW p \in Positions, NEW q \in Positions, NEW r, InRange3(r), NodeFacts,
           Before(p, q), Before(q, r)
    PROVE  Before(p, r)
    BY DEF Positions, InRange3, Before, NodeFacts

LEMMA PcieProbeOK == ASSUME DevdrivAssumption, TreeIInv, PcieProbe PROVE TreeIInv'
    <1>0. NodeFacts
        BY Constants
    <1>1. TreeTypes /\ NothingOffered /\ OfferedOnce /\ TreeShape /\ CursorIsAhead
        BY DEF TreeIInv
    <1>2. /\ phase = "enumerate" /\ phase' = "enumerate" /\ cursor[1] <= PCIE_MAX_BUS
          /\ toRegister' = toRegister /\ table' = table /\ driver' = driver
          /\ stack' = stack /\ NrPaired' = NrPaired /\ probes' = probes
        BY DEF PcieProbe
    <1>3. PICK b \in 0 .. PCIE_MAX_BUS + 1, v \in 0 .. PCIE_MAX_DEV - 1, f \in 0 .. PCIE_MAX_FUN - 1 :
              cursor = <<b, v, f>>
        BY <1>1, <1>2 DEF CursorIsAhead
    <1>4. b \in 0 .. PCIE_MAX_BUS /\ cursor[1] = b /\ cursor[2] = v /\ cursor[3] = f
        BY <1>0, <1>2, <1>3 DEF NodeFacts
    <1>5. cursor \in Positions
        BY <1>3, <1>4 DEF Positions
    <1>6. /\ kids[ROOT] = <<PCIE_ROOT>> /\ \A n \in Nodes \ {ROOT, PCIE_ROOT} : kids[n] = <<>>
          /\ Chain \in Seq(Positions) /\ Len(Chain) <= MaxFunctions /\ g_DeviceCount = Len(Chain) + 2
          /\ \A j, k \in 1 .. Len(Chain) : j < k => Before(Chain[j], Chain[k])
          /\ IsFiniteSet(Kids(PCIE_ROOT)) /\ Cardinality(Kids(PCIE_ROOT)) = Len(Chain)
          /\ class[ROOT] = NULL /\ class[PCIE_ROOT] = NULL
          /\ driver[ROOT] = NULL /\ driver[PCIE_ROOT] = NULL
        BY <1>1, <1>2 DEF TreeShape
    <1>7. Len(Chain) \in Nat /\ DOMAIN Chain = 1 .. Len(Chain) /\ \A k \in 1 .. Len(Chain) : Chain[k] \in Positions
        BY <1>6
    <1>8. \A k \in 1 .. Len(Chain) : Before(Chain[k], cursor)
        BY <1>1, <1>2 DEF CursorIsAhead
    <1>9. InRange3(cursor') /\ Before(cursor, cursor')
        <2>1. \E multi \in BOOLEAN : cursor' = NextDevice(b, v) \/ cursor' = NextFunction(b, v, f, multi)
            BY <1>4 DEF PcieProbe
        <2> QED
            BY <1>0, <1>3, <1>4, <2>1, CursorMoves
    <1>10. \A k \in 1 .. Len(Chain) : Before(Chain[k], cursor')
        BY <1>0, <1>5, <1>7, <1>8, <1>9, BeforeTransitive
    <1>11. LoadedDrivers' = LoadedDrivers
        BY <1>2 DEF LoadedDrivers
    <1>12. NothingOffered' /\ OfferedOnce' /\ NothingFound'
        BY <1>1, <1>2 DEF NothingOffered, OfferedOnce, NothingFound
    <1>13. CASE kids' = kids /\ class' = class /\ g_DeviceCount' = g_DeviceCount
        <2>1. Chain' = Chain /\ Kids(PCIE_ROOT)' = Kids(PCIE_ROOT)
            BY <1>13 DEF Chain, Kids
        <2>2. TreeTypes'
            BY <1>1, <1>2, <1>11, <1>13 DEF TreeTypes
        <2>3. TreeShape'
            BY <1>2, <1>6, <1>13, <2>1 DEF TreeShape
        <2>4. CursorIsAhead'
            BY <1>9, <1>10, <2>1 DEF CursorIsAhead, InRange3
        <2> QED
            BY <1>2, <1>12, <2>2, <2>3, <2>4 DEF TreeIInv, WalkIsOn
    <1>14. ASSUME NEW c \in Classes, NrFound < MaxFunctions,
                  kids' = AddChildDevice(kids, PCIE_ROOT, cursor), class' = [class EXCEPT ![cursor] = c],
                  g_DeviceCount' = g_DeviceCount + 1
           PROVE  TreeIInv'
        <2>1. /\ kids \in [Nodes -> Seq(Nodes)] /\ class \in [Nodes -> Classes \cup {NULL}]
              /\ ROOT \in Nodes /\ PCIE_ROOT \in Nodes /\ ROOT # PCIE_ROOT
              /\ cursor \in Nodes /\ cursor \notin {ROOT, PCIE_ROOT}
            BY <1>0, <1>1, <1>5 DEF TreeTypes, NodeFacts
        <2>2. kids' = [kids EXCEPT ![PCIE_ROOT] = Append(Chain, cursor)]
            BY <1>14 DEF AddChildDevice, Chain
        <2>3. Chain \in Seq(Nodes)
            BY <2>1 DEF Chain
        <2>4. Append(Chain, cursor) \in Seq(Nodes)
            BY <2>1, <2>3
        <2>5. /\ kids' \in [Nodes -> Seq(Nodes)] /\ kids'[ROOT] = kids[ROOT]
              /\ \A n \in Nodes \ {ROOT, PCIE_ROOT} : kids'[n] = kids[n]
              /\ Chain' = Append(Chain, cursor)
            BY <2>1, <2>2, <2>4 DEF Chain
        <2>6. /\ Chain' \in Seq(Positions) /\ Len(Chain') = Len(Chain) + 1
              /\ \A k \in 1 .. Len(Chain) : Chain'[k] = Chain[k]
              /\ Chain'[Len(Chain) + 1] = cursor
              /\ Range(Chain') = Range(Chain) \cup {cursor}
            BY <1>5, <1>6, <2>5, ChainGrows
        <2>7. \A k \in 1 .. Len(Chain') : k \in 1 .. Len(Chain) \/ k = Len(Chain) + 1
            BY <1>7, <2>6
        <2>8. \A j, k \in 1 .. Len(Chain') : j < k => Before(Chain'[j], Chain'[k])
            <3> SUFFICES ASSUME NEW j \in 1 .. Len(Chain'), NEW k \in 1 .. Len(Chain'), j < k
                         PROVE  Before(Chain'[j], Chain'[k])
                OBVIOUS
            <3>1. j \in 1 .. Len(Chain)
                BY <1>7, <2>6, <2>7
            <3>2. CASE k = Len(Chain) + 1
                BY <1>8, <2>6, <3>1, <3>2
            <3>3. CASE k \in 1 .. Len(Chain)
                BY <1>6, <2>6, <3>1, <3>3
            <3> QED
                BY <2>7, <3>2, <3>3
        <2>9. \A k \in 1 .. Len(Chain') : Before(Chain'[k], cursor')
            BY <1>9, <1>10, <2>6, <2>7
        <2>10. cursor \notin Kids(PCIE_ROOT) /\ Kids(PCIE_ROOT)' = Kids(PCIE_ROOT) \cup {cursor}
            <3>1. Kids(PCIE_ROOT) = Range(Chain) /\ Kids(PCIE_ROOT)' = Range(Chain')
                BY DEF Kids, Chain
            <3>2. \A x \in Range(Chain) : \E k \in 1 .. Len(Chain) : x = Chain[k]
                BY <1>7 DEF Range
            <3>3. cursor \notin Range(Chain)
                BY <1>7, <1>8, <3>2, BeforeIsOrder
            <3> QED
                BY <2>6, <3>1, <3>3
        <2>11. IsFiniteSet(Kids(PCIE_ROOT)') /\ Cardinality(Kids(PCIE_ROOT)') = Len(Chain')
            <3> PICK K : K = Kids(PCIE_ROOT)
                OBVIOUS
            <3>1. IsFiniteSet(K) /\ cursor \notin K
                BY <1>6, <2>10
            <3>2. IsFiniteSet(K \cup {cursor}) /\ Cardinality(K \cup {cursor}) = Cardinality(K) + 1
                BY <3>1, FS_AddElement
            <3> QED
                BY <1>6, <2>6, <2>10, <3>2
        <2>12. /\ class' \in [Nodes -> Classes \cup {NULL}] /\ class'[ROOT] = NULL /\ class'[PCIE_ROOT] = NULL
            BY <1>6, <1>14, <2>1
        <2>13. TreeTypes'
            BY <1>1, <1>2, <1>11, <2>5, <2>12 DEF TreeTypes
        <2>14. Len(Chain') <= MaxFunctions /\ g_DeviceCount' = Len(Chain') + 2
            <3>1. Len(Chain) < MaxFunctions /\ MaxFunctions \in Nat
                BY <1>0, <1>14 DEF NrFound, Chain, NodeFacts
            <3> QED
                BY <1>6, <1>7, <1>14, <2>6, <3>1
        <2>15. TreeShape'
            <3>1. driver'[ROOT] = NULL /\ driver'[PCIE_ROOT] = NULL
                BY <1>2, <1>6
            <3>2. kids'[ROOT] = <<PCIE_ROOT>> /\ \A n \in Nodes \ {ROOT, PCIE_ROOT} : kids'[n] = <<>>
                BY <1>6, <2>5
            <3> QED
                BY <2>6, <2>8, <2>11, <2>12, <2>14, <3>1, <3>2, Zenon DEF TreeShape
        <2>16. CursorIsAhead'
            BY <1>9, <2>9, Zenon DEF CursorIsAhead, InRange3
        <2> QED
            BY <1>2, <1>12, <2>13, <2>15, <2>16 DEF TreeIInv, WalkIsOn
    <1>15. \/ UNCHANGED <<kids, class, g_DeviceCount>>
           \/ NrFound < MaxFunctions /\ \E c \in Classes : DevTreeInitPCIeDeviceFound(cursor, c)
        BY DEF PcieProbe
    <1>16. CASE NrFound < MaxFunctions /\ \E c \in Classes : DevTreeInitPCIeDeviceFound(cursor, c)
        <2>1. PICK c \in Classes : DevTreeInitPCIeDeviceFound(cursor, c)
            BY <1>16
        <2>2. PICK got \in BOOLEAN :
                 /\ kids' = IF got THEN AddChildDevice(kids, PCIE_ROOT, cursor) ELSE kids
                 /\ class' = IF got THEN [class EXCEPT ![cursor] = c] ELSE class
                 /\ g_DeviceCount' = Counted(got)
            BY <2>1 DEF DevTreeInitPCIeDeviceFound
        <2>3. CASE got
            BY <1>14, <1>16, <2>2, <2>3 DEF Counted
        <2>4. CASE ~got
            BY <1>13, <2>2, <2>4 DEF Counted
        <2> QED
            BY <2>3, <2>4
    <1> QED
        BY <1>13, <1>15, <1>16

LEMMA GlobalPairOK == ASSUME DevdrivAssumption, TreeIInv, GlobalDevdrivPairAttempt PROVE TreeIInv'
    <1>0. NodeFacts
        BY Constants
    <1>1. TreeTypes /\ NothingOffered /\ OfferedOnce /\ TreeShape
        BY DEF TreeIInv
    <1>2. /\ phase = "enumerate" /\ phase' = "pair" /\ stack' = <<Frame(ROOT)>>
          /\ toRegister' = toRegister /\ table' = table /\ driver' = driver
          /\ kids' = kids /\ class' = class /\ g_DeviceCount' = g_DeviceCount
          /\ NrPaired' = NrPaired /\ probes' = probes
        BY DEF GlobalDevdrivPairAttempt
    <1>3. LoadedDrivers' = LoadedDrivers /\ Chain' = Chain /\ Kids(PCIE_ROOT)' = Kids(PCIE_ROOT) /\ Tree' = Tree
        BY <1>2 DEF LoadedDrivers, Chain, Kids, Tree
    <1>4. Linked
        BY <1>1, <1>2, Links
    <1>5. TreeTypes' /\ OfferedOnce'
        BY <1>1, <1>2, <1>3 DEF TreeTypes, OfferedOnce
    <1>6. TreeShape'
        BY <1>1, <1>2, <1>3 DEF TreeShape
    <1>7. /\ \A n \in {ROOT, PCIE_ROOT} \cup Positions : driver[n] = NULL
          /\ probes = [q \in Nodes \X Drivers |-> 0] /\ NrPaired = 0
        BY <1>1, <1>2 DEF NothingOffered
    <1>8. Paired' = {}
        <2>1. \A n \in Tree : driver[n] = NULL
            BY <1>4, <1>7 DEF Linked
        <2> QED
            BY <1>2, <1>3, <2>1 DEF Paired
    <1>9. IsFiniteSet(Paired') /\ Cardinality(Paired') = 0
        BY <1>8, FS_EmptySet
    <1>10. Offered(0)'
        <2>1. \A k \in 1 .. Len(Chain) : driver[Chain[k]] = NULL /\ \A d \in Drivers : probes[<<Chain[k], d>>] = 0
            BY <1>0, <1>4, <1>7 DEF Linked, NodeFacts
        <2>2. 0 + 1 = 1 /\ \A k \in 1 .. 0 : FALSE
            OBVIOUS
        <2> QED
            BY <1>2, <1>3, <2>1, <2>2 DEF Offered
    <1>11. AtRoot'
        BY <1>2 DEF AtRoot, Frame, F
    <1>12. WalkIsOn'
        <2>1. 0 \in 0 .. Len(Chain')
            BY <1>3, <1>4 DEF Linked
        <2>2. Walk(0, Cardinality(Paired))'
            BY <1>9, <1>11 DEF Walk
        <2> QED
            BY <1>2, <1>7, <1>9, <1>10, <2>1, <2>2 DEF WalkIsOn
    <1> QED
        BY <1>2, <1>5, <1>6, <1>12 DEF TreeIInv, NothingFound, NothingOffered, CursorIsAhead
-----------------------------------------------------------------------------
(* Pairing *)

(* What the steps of the walk do to the innermost frame. *)
EnterKids(e, x, w) == [e EXCEPT !.at = "kids", !.base = x, !.kid = x, !.paired = @ + w]
ToKid(e, x, w)     == [e EXCEPT !.kid = x, !.paired = @ + w]
ToBase(e, x)       == [e EXCEPT !.kid = x, !.base = x]
ToNode(e, x)       == [e EXCEPT !.at = "root", !.node = x]
AddPaired(e, w)    == [e EXCEPT !.paired = @ + w]

LEMMA FrameFields ==
    ASSUME NEW n, NEW b, NEW k, NEW a, NEW p
    PROVE  /\ F(n, b, k, a, p).node = n /\ F(n, b, k, a, p).base = b /\ F(n, b, k, a, p).kid = k
           /\ F(n, b, k, a, p).at = a /\ F(n, b, k, a, p).paired = p
    BY DEF F

LEMMA FrameUpdates ==
    ASSUME NEW n, NEW b, NEW k, NEW a, NEW p, NEW x, NEW w
    PROVE  /\ EnterKids(F(n, b, k, a, p), x, w) = F(n, x, x, "kids", p + w)
           /\ ToKid(F(n, b, k, a, p), x, w) = F(n, b, x, a, p + w)
    <1> DEFINE e == F(n, b, k, a, p)
    <1>2. ToKid(e, x, w) = F(n, b, x, a, p + w)
        <2> DEFINE h == [e EXCEPT !.kid = x]
        <2>1. h = F(n, b, x, a, p)
            BY DEF F
        <2>2. ToKid(e, x, w) = [h EXCEPT !.paired = @ + w]
            BY DEF ToKid
        <2> HIDE DEF h
        <2> QED
            BY <2>1, <2>2 DEF F
    <1>5. EnterKids(e, x, w) = F(n, x, x, "kids", p + w)
        <2> DEFINE h1 == [e EXCEPT !.at = "kids"]
                   h2 == [h1 EXCEPT !.base = x]
                   h3 == [h2 EXCEPT !.kid = x]
        <2>1. EnterKids(e, x, w) = [h3 EXCEPT !.paired = @ + w]
            BY DEF EnterKids
        <2>2. h1 = F(n, b, k, "kids", p)
            BY DEF F
        <2> HIDE DEF h1
        <2>3. h2 = F(n, x, k, "kids", p)
            BY <2>2 DEF F
        <2> HIDE DEF h2
        <2>4. h3 = F(n, x, x, "kids", p)
            BY <2>3 DEF F
        <2> HIDE DEF h3
        <2> QED
            BY <2>1, <2>4 DEF F
    <1> QED
        BY <1>2, <1>5

LEMMA FrameMoves ==
    ASSUME NEW n, NEW b, NEW k, NEW a, NEW p, NEW x
    PROVE  /\ ToBase(F(n, b, k, a, p), x) = F(n, x, x, a, p)
           /\ ToNode(F(n, b, k, a, p), x) = F(x, b, k, "root", p)
           /\ AddPaired(F(n, b, k, a, p), x) = F(n, b, k, a, p + x)
    <1> DEFINE e == F(n, b, k, a, p)
    <1>1. AddPaired(e, x) = F(n, b, k, a, p + x)
        BY DEF AddPaired, F
    <1>3. ToBase(e, x) = F(n, x, x, a, p)
        <2> DEFINE h == [e EXCEPT !.kid = x]
        <2>1. h = F(n, b, x, a, p)
            BY DEF F
        <2>2. ToBase(e, x) = [h EXCEPT !.base = x]
            BY DEF ToBase
        <2> HIDE DEF h
        <2> QED
            BY <2>1, <2>2 DEF F
    <1>4. ToNode(e, x) = F(x, b, k, "root", p)
        <2> DEFINE h == [e EXCEPT !.at = "root"]
        <2>1. h = F(n, b, k, "root", p)
            BY DEF F
        <2>2. ToNode(e, x) = [h EXCEPT !.node = x]
            BY DEF ToNode
        <2> HIDE DEF h
        <2> QED
            BY <2>1, <2>2 DEF F
    <1> QED
        BY <1>1, <1>3, <1>4

LEMMA StackUpdates ==
    ASSUME NEW e, NEW g, NEW h
    PROVE  /\ [<<e>> EXCEPT ![1] = g] = <<g>> /\ [<<e, h>> EXCEPT ![1] = g] = <<g, h>>
           /\ <<g>> \o <<e>> = <<g, e>> /\ Tail(<<e, h>>) = <<h>>
           /\ Len(<<e>>) = 1 /\ Len(<<e, h>>) = 2
    <1>1. [<<e>> EXCEPT ![1] = g] = <<g>>
        OBVIOUS
    <1>2. [<<e, h>> EXCEPT ![1] = g] = <<g, h>>
        OBVIOUS
    <1>3. <<g>> \o <<e>> = <<g, e>>
        <2>1. <<g>> \in Seq({g, e}) /\ <<e>> \in Seq({g, e}) /\ <<g, e>> \in Seq({g, e})
            OBVIOUS
        <2> PICK u, v, s : u = <<g>> /\ v = <<e>> /\ s = <<g>> \o <<e>>
            OBVIOUS
        <2>2. /\ u \in Seq({g, e}) /\ v \in Seq({g, e}) /\ s = u \o v
              /\ Len(u) = 1 /\ Len(v) = 1 /\ u[1] = g /\ v[1] = e
            BY <2>1
        <2>3. s \in Seq({g, e}) /\ Len(s) = 2 /\ s[1] = g /\ s[2] = e
            BY <2>2
        <2>4. <<g, e>> \in Seq({g, e}) /\ Len(<<g, e>>) = 2 /\ <<g, e>>[1] = g /\ <<g, e>>[2] = e
            OBVIOUS
        <2>5. \A i \in 1 .. 2 : i = 1 \/ i = 2
            OBVIOUS
        <2>6. s = <<g, e>>
            BY <2>3, <2>4, <2>5, SeqEqual
        <2> QED
            BY <2>6
    <1>4. Tail(<<e, h>>) = <<h>>
        OBVIOUS
    <1>5. Len(<<e>>) = 1 /\ Len(<<e, h>>) = 2
        OBVIOUS
    <1> QED
        BY <1>1, <1>2, <1>3, <1>4, <1>5

(* What every step of the walk leaves alone. *)
Still == PairUnchanged /\ phase = "pair" /\ TreeTypes /\ TreeShape

LEMMA StillFacts ==
    ASSUME Still
    PROVE  /\ LoadedDrivers' = LoadedDrivers /\ Chain' = Chain /\ Kids(PCIE_ROOT)' = Kids(PCIE_ROOT)
           /\ Tree' = Tree /\ class' = class /\ kids' = kids
    BY DEF Still, PairUnchanged, LoadedDrivers, Chain, Kids, Tree

(* ROOT and PCIE_ROOT have no class, and so no driver is offered them. *)
LEMMA BareNode ==
    ASSUME DevdrivAssumption, Still, NEW n \in {ROOT, PCIE_ROOT}, NEW taken \in Candidates(n) \cup {0}, TryPair(n, taken)
    PROVE  taken = 0 /\ driver' = driver /\ probes' = probes
    <1>1. class[n] = NULL
        BY DEF Still, TreeShape
    <1>2. Candidates(n) = {}
        BY <1>1 DEF Candidates, IsDriverCompatibleWithDevice
    <1>3. taken = 0
        BY <1>2
    <1>4. driver' = driver
        BY <1>3 DEF TryPair, SetDriver
    <1>5. probes' = [q \in DOMAIN probes |-> probes[q]]
        <2>1. \A q : q \notin {LoadedDrivers[i] : i \in {i \in Candidates(n) : taken = 0 \/ i <= taken}}
            BY <1>2
        <2> QED
            BY <2>1 DEF TryPair
    <1>6. probes' = probes
        BY <1>5 DEF Still, TreeTypes
    <1> QED
        BY <1>3, <1>4, <1>6

(* The next function of the chain is offered to the drivers. *)
OfferedNext(m, taken) ==
    /\ driver' \in [Nodes -> Drivers \cup {NULL}] /\ probes' \in [Nodes \X Drivers -> Nat]
    /\ driver'[ROOT] = NULL /\ driver'[PCIE_ROOT] = NULL
    /\ OfferedOnce' /\ Offered(m)' /\ IsFiniteSet(Paired')
    /\ Cardinality(Paired') = Cardinality(Paired) + One(taken)
    /\ Cardinality(Paired) \in Nat /\ One(taken) \in Nat

LEMMA NextFunctionOffered ==
    ASSUME DevdrivAssumption, Still, OfferedOnce, IsFiniteSet(Paired), NEW m \in 1 .. Len(Chain), Offered(m - 1),
           NEW taken \in Candidates(Chain[m]) \cup {0}, TryPair(Chain[m], taken)
    PROVE  OfferedNext(m, taken)
    <1>0. NodeFacts
        BY Constants
    <1>1. Linked
        BY Links DEF Still
    <1>2. /\ LoadedDrivers' = LoadedDrivers /\ Chain' = Chain /\ Tree' = Tree /\ class' = class
        BY StillFacts
    <1> PICK n : n = Chain[m]
        OBVIOUS
    <1>3. /\ n \in Positions /\ n \in Nodes /\ n # ROOT /\ n # PCIE_ROOT /\ n \in Tree
        BY <1>0, <1>1 DEF Linked, NodeFacts
    <1>4. driver[n] = NULL /\ \A d \in Drivers : probes[<<n, d>>] = 0
        <2>1. m \in m - 1 + 1 .. Len(Chain)
            BY <1>1 DEF Linked
        <2> QED
            BY <2>1 DEF Offered
    <1>5. /\ driver \in [Nodes -> Drivers \cup {NULL}] /\ probes \in [Nodes \X Drivers -> Nat]
          /\ LoadedDrivers \in Seq(Drivers)
        BY DEF Still, TreeTypes
    <1> DEFINE offers == {LoadedDrivers[i] : i \in {i \in Candidates(n) : taken = 0 \/ i <= taken}}
    <1>6. /\ driver' = SetDriver(n, taken)
          /\ probes' = [q \in DOMAIN probes |->
                          IF q[1] = n /\ q[2] \in offers /\ probes[q] < 2 THEN probes[q] + 1 ELSE probes[q]]
        BY DEF TryPair
    <1>7. taken # 0 => taken \in DOMAIN LoadedDrivers /\ LoadedDrivers[taken] \in Drivers
        <2>1. taken # 0 => taken \in DOMAIN LoadedDrivers
            BY DEF Candidates
        <2>2. \A k \in DOMAIN LoadedDrivers : LoadedDrivers[k] \in Drivers
            BY <1>5
        <2> QED
            BY <2>1, <2>2
    <1>8. /\ driver' \in [Nodes -> Drivers \cup {NULL}]
          /\ \A x \in Nodes : x # n => driver'[x] = driver[x]
          /\ taken = 0 => driver' = driver
          /\ taken # 0 => driver'[n] # NULL
        <2>1. CASE taken = 0
            BY <1>5, <1>6, <2>1 DEF SetDriver
        <2>2. CASE taken # 0
            <3>1. driver' = [driver EXCEPT ![n] = LoadedDrivers[taken]]
                BY <1>6, <2>2 DEF SetDriver
            <3>2. LoadedDrivers[taken] # NULL
                BY <1>0, <1>7, <2>2 DEF NodeFacts
            <3> QED
                BY <1>3, <1>5, <1>7, <2>2, <3>1, <3>2
        <2> QED
            BY <2>1, <2>2
    <1>9. driver'[ROOT] = NULL /\ driver'[PCIE_ROOT] = NULL
        BY <1>0, <1>3, <1>8 DEF Still, TreeShape, NodeFacts
    <1> HIDE DEF offers
    <1>10. /\ probes' \in [Nodes \X Drivers -> Nat]
           /\ \A x \in Nodes, d \in Drivers : x # n => probes'[<<x, d>>] = probes[<<x, d>>]
           /\ \A d \in Drivers : probes'[<<n, d>>] = IF d \in offers THEN 1 ELSE 0
        <2>1. DOMAIN probes = Nodes \X Drivers
            BY <1>5
        <2>2. ASSUME NEW x \in Nodes, NEW d \in Drivers
              PROVE  probes'[<<x, d>>] = IF x = n /\ d \in offers /\ probes[<<x, d>>] < 2
                                         THEN probes[<<x, d>>] + 1 ELSE probes[<<x, d>>]
            <3>1. <<x, d>> \in DOMAIN probes /\ <<x, d>>[1] = x /\ <<x, d>>[2] = d
                BY <2>1
            <3> QED
                BY <1>6, <3>1
        <2>3. ASSUME NEW x \in Nodes, NEW d \in Drivers, x # n PROVE probes'[<<x, d>>] = probes[<<x, d>>]
            BY <2>2, <2>3
        <2>4. ASSUME NEW d \in Drivers PROVE probes'[<<n, d>>] = IF d \in offers THEN 1 ELSE 0
            <3>1. probes'[<<n, d>>] = IF d \in offers /\ 0 < 2 THEN 0 + 1 ELSE 0
                BY <1>3, <1>4, <2>2
            <3> QED
                BY <3>1
        <2>5. probes' \in [Nodes \X Drivers -> Nat]
            <3>1. \A q \in Nodes \X Drivers : probes[q] \in Nat /\ probes[q] + 1 \in Nat
                BY <1>5
            <3> QED
                BY <1>6, <2>1, <3>1
        <2> QED
            BY <2>3, <2>4, <2>5
    <1>11. OfferedOnce'
        <2>1. \A x \in Nodes, d \in Drivers : probes[<<x, d>>] < 2
            BY <1>5 DEF OfferedOnce
        <2>2. ASSUME NEW x \in Nodes, NEW d \in Drivers PROVE probes'[<<x, d>>] < 2
            <3>1. CASE x = n
                <4>1. probes'[<<x, d>>] \in {0, 1}
                    BY <1>10, <3>1
                <4> QED
                    BY <4>1
            <3>2. CASE x # n
                BY <1>10, <2>1, <3>2
            <3> QED
                BY <3>1, <3>2
        <2>3. DOMAIN probes' = Nodes \X Drivers
            BY <1>10
        <2> QED
            BY <2>2, <2>3 DEF OfferedOnce
    <1>12. Offered(m)'
        <2>1. ASSUME NEW k \in 1 .. m, driver'[Chain[k]] = NULL, NEW d \in Range(LoadedDrivers),
                     IsDriverCompatibleWithDevice(d, Chain[k])
              PROVE  probes'[<<Chain[k], d>>] > 0
            <3>1. d \in Drivers
                BY Types DEF Still
            <3>2. CASE k = m
                <4>1. taken = 0
                    BY <1>8, <2>1, <3>2
                <4>2. PICK i \in DOMAIN LoadedDrivers : d = LoadedDrivers[i]
                    BY <2>1 DEF Range
                <4>3. i \in Candidates(n)
                    BY <1>4, <2>1, <3>2, <4>2 DEF Candidates
                <4>4. d \in offers
                    BY <4>1, <4>2, <4>3 DEF offers
                <4> QED
                    BY <1>10, <3>1, <3>2, <4>4
            <3>3. CASE k # m
                <4>1. k \in 1 .. m - 1 /\ k \in 1 .. Len(Chain)
                    BY <1>1, <3>3 DEF Linked
                <4>2. Chain[k] # n /\ Chain[k] \in Nodes
                    BY <1>0, <1>1, <3>3, <4>1 DEF Linked, NodeFacts
                <4>3. driver[Chain[k]] = NULL
                    BY <1>8, <2>1, <4>2
                <4>4. probes[<<Chain[k], d>>] > 0
                    BY <2>1, <4>1, <4>3 DEF Offered
                <4> QED
                    BY <1>10, <3>1, <4>2, <4>4
            <3> QED
                BY <3>2, <3>3
        <2>2. ASSUME NEW k \in m + 1 .. Len(Chain)
              PROVE  driver'[Chain[k]] = NULL /\ \A d \in Drivers : probes'[<<Chain[k], d>>] = 0
            <3>1. k \in 1 .. Len(Chain) /\ k # m /\ k \in m - 1 + 1 .. Len(Chain)
                BY <1>1 DEF Linked
            <3>2. Chain[k] # n /\ Chain[k] \in Nodes
                BY <1>0, <1>1, <3>1 DEF Linked, NodeFacts
            <3>3. driver[Chain[k]] = NULL /\ \A d \in Drivers : probes[<<Chain[k], d>>] = 0
                BY <3>1 DEF Offered
            <3> QED
                BY <1>8, <1>10, <3>2, <3>3
        <2>3. \A d, x : IsDriverCompatibleWithDevice(d, x)' <=> IsDriverCompatibleWithDevice(d, x)
            BY <1>2 DEF IsDriverCompatibleWithDevice
        <2> QED
            BY <1>2, <2>1, <2>2, <2>3, Zenon DEF Offered
    <1>13. /\ IsFiniteSet(Paired') /\ Cardinality(Paired') = Cardinality(Paired) + One(taken)
           /\ Cardinality(Paired) \in Nat /\ One(taken) \in Nat
        <2>1. Cardinality(Paired) \in Nat
            BY FS_CardinalityType
        <2>2. Tree \subseteq Nodes
            BY <1>0, <1>1 DEF Linked, NodeFacts
        <2>3. CASE taken = 0
            <3>1. Paired' = Paired /\ One(taken) = 0
                BY <1>2, <1>8, <2>3 DEF Paired, One
            <3> QED
                BY <2>1, <3>1
        <2>4. CASE taken # 0
            <3>1. Paired' = Paired \cup {n} /\ n \notin Paired /\ One(taken) = 1
                BY <1>2, <1>3, <1>4, <1>8, <2>2, <2>4 DEF Paired, One
            <3>2. IsFiniteSet(Paired \cup {n}) /\ Cardinality(Paired \cup {n}) = Cardinality(Paired) + 1
                BY <3>1, FS_AddElement
            <3> QED
                BY <2>1, <3>1, <3>2
        <2> QED
            BY <2>3, <2>4
    <1> QED
        BY <1>8, <1>9, <1>10, <1>11, <1>12, <1>13 DEF OfferedNext
-----------------------------------------------------------------------------
(* A step of the walk: what it must establish for the invariant to hold. *)

Moved(m) ==
    /\ driver' \in [Nodes -> Drivers \cup {NULL}] /\ probes' \in [Nodes \X Drivers -> Nat]
    /\ driver'[ROOT] = NULL /\ driver'[PCIE_ROOT] = NULL
    /\ OfferedOnce' /\ IsFiniteSet(Paired') /\ Offered(m)'

LEMMA Assemble ==
    ASSUME DevdrivAssumption, Still, phase' = "pair", NrPaired' = 0, NEW m \in 0 .. Len(Chain),
           Moved(m), Walk(m, Cardinality(Paired))'
    PROVE  TreeIInv'
    <1>1. /\ LoadedDrivers' = LoadedDrivers /\ Chain' = Chain /\ Kids(PCIE_ROOT)' = Kids(PCIE_ROOT)
          /\ Tree' = Tree /\ class' = class /\ kids' = kids
        BY StillFacts
    <1>2. toRegister' = toRegister /\ g_DeviceCount' = g_DeviceCount
        BY DEF Still, PairUnchanged
    <1>3. TreeTypes'
        BY <1>1, <1>2 DEF Still, TreeTypes, Moved
    <1>4. TreeShape'
        BY <1>1, <1>2 DEF Still, TreeShape, Moved
    <1>5. WalkIsOn'
        BY <1>1 DEF WalkIsOn, Moved
    <1> QED
        BY <1>3, <1>4, <1>5 DEF TreeIInv, NothingFound, NothingOffered, CursorIsAhead, Moved

(* A step that offers no device to a driver. *)
LEMMA NothingMoved ==
    ASSUME DevdrivAssumption, Still, OfferedOnce, IsFiniteSet(Paired), NEW m, Offered(m), driver' = driver, probes' = probes
    PROVE  Moved(m) /\ Paired' = Paired
    <1>1. /\ LoadedDrivers' = LoadedDrivers /\ Chain' = Chain
          /\ Tree' = Tree /\ class' = class
        BY StillFacts
    <1>2. Paired' = Paired
        BY <1>1 DEF Paired
    <1>3. \A d, x : IsDriverCompatibleWithDevice(d, x)' <=> IsDriverCompatibleWithDevice(d, x)
        BY <1>1 DEF IsDriverCompatibleWithDevice
    <1>4. Offered(m)'
        BY <1>1, <1>3, Zenon DEF Offered
    <1>5. OfferedOnce'
        BY DEF OfferedOnce
    <1> QED
        BY <1>2, <1>4, <1>5 DEF Still, TreeTypes, TreeShape, Moved

(* The walk before a step of it, with the innermost frame. *)
Walking(m) ==
    /\ Still /\ OfferedOnce /\ IsFiniteSet(Paired) /\ NrPaired = 0 /\ Linked /\ NodeFacts
    /\ m \in 0 .. Len(Chain) /\ Offered(m) /\ Walk(m, Cardinality(Paired)) /\ Cardinality(Paired) \in Nat
    /\ Chain' = Chain

LEMMA InWalk ==
    ASSUME DevdrivAssumption, TreeIInv, Deeper, PairUnchanged
    PROVE  \E m \in 0 .. Len(Chain) : Walking(m)
    <1>1. phase = "pair" /\ TreeTypes /\ TreeShape /\ OfferedOnce /\ WalkIsOn
        BY DEF TreeIInv, Deeper
    <1>2. PICK m \in 0 .. Len(Chain) : Offered(m) /\ Walk(m, Cardinality(Paired)) /\ NrPaired = 0
        BY <1>1 DEF WalkIsOn
    <1>3. Linked /\ NodeFacts
        BY <1>1, Links, Constants
    <1>4. Still
        BY <1>1 DEF Still
    <1>5. IsFiniteSet(Paired) /\ Cardinality(Paired) \in Nat
        BY <1>1, FS_CardinalityType DEF WalkIsOn
    <1>6. Chain' = Chain
        BY <1>4, StillFacts
    <1>7. Walking(m)
        BY <1>1, <1>2, <1>3, <1>4, <1>5, <1>6 DEF Walking
    <1> QED
        BY <1>7

(* The innermost frame at each stage. *)
Stage(n, b, k, a, p) ==
    /\ Top = F(n, b, k, a, p) /\ Top.node = n /\ Top.base = b /\ Top.kid = k /\ Top.at = a /\ Top.paired = p

LEMMA TopIs ==
    ASSUME NEW n, NEW b, NEW k, NEW a, NEW p, NEW h,
           stack = <<F(n, b, k, a, p)>> \/ stack = <<F(n, b, k, a, p), h>>
    PROVE  Stage(n, b, k, a, p)
    <1>1. \A e : <<e>>[1] = e /\ <<e, h>>[1] = e
        OBVIOUS
    <1>2. Top = F(n, b, k, a, p)
        BY <1>1 DEF Top
    <1> QED
        BY <1>2, FrameFields DEF Stage

(* The stages of the walk, by what the step that is next looks at. *)
Total == Cardinality(Paired)
Starting(m)   == m = 0 /\ Total = 0 /\ AtRoot
Entering(m)   == m = 0 /\ Total = 0 /\ AtPcieRoot
FirstNext(m)  == m = 0 /\ Total = 0 /\ AtFirst
KidsDone(m)   == m = Len(Chain) /\ AfterKids(PCIE_ROOT, Total)
RootDone(m)   == m = Len(Chain) /\ AfterKids(NULL, Total)
SiblingNext(m) == \E p, r \in Nat : Total = p + r /\ m + 1 \in 2 .. Len(Chain) /\ AtSibling(m + 1, "root", p, r)
SiblingDone(m) == \E p, r \in Nat : Total = p + r /\ m \in 2 .. Len(Chain) /\ AtSibling(m, "kids", p, r)

LEMMA Stages ==
    ASSUME NEW m, Walking(m)
    PROVE  /\ Top.at = "root" => Starting(m) \/ SiblingNext(m)
           /\ Top.at = "kids" /\ Top.kid # NULL => Entering(m) \/ FirstNext(m)
           /\ Top.at = "kids" /\ Top.kid = NULL /\ Top.base # NULL => KidsDone(m)
           /\ Top.at = "kids" /\ Top.kid = NULL /\ Top.base = NULL => RootDone(m) \/ SiblingDone(m)
    <1>1. \/ Starting(m) \/ Entering(m) \/ FirstNext(m) \/ KidsDone(m) \/ RootDone(m)
          \/ SiblingNext(m) \/ SiblingDone(m)
        BY DEF Walking, Walk, Total, Starting, Entering, FirstNext, KidsDone, RootDone, SiblingNext, SiblingDone
    <1>2. /\ PCIE_ROOT # NULL /\ "root" # "kids"
          /\ \A k \in 1 .. Len(Chain) : Chain[k] # NULL
        BY DEF Walking, Linked, NodeFacts
    <1>3. CASE Starting(m)
        <2>1. Stage(ROOT, NULL, NULL, "root", 0)
            BY <1>3, TopIs DEF Starting, AtRoot
        <2> QED
            BY <1>2, <1>3, <2>1 DEF Stage
    <1>4. CASE Entering(m)
        <2>1. Stage(ROOT, PCIE_ROOT, PCIE_ROOT, "kids", 0)
            BY <1>4, TopIs DEF Entering, AtPcieRoot
        <2> QED
            BY <1>2, <1>4, <2>1 DEF Stage
    <1>5. CASE FirstNext(m)
        <2>1. Stage(ROOT, PCIE_ROOT, Chain[1], "kids", 0)
            BY <1>5, TopIs DEF FirstNext, AtFirst
        <2>2. Chain[1] # NULL
            BY <1>2, <1>5 DEF FirstNext, AtFirst, Walking, Linked
        <2> QED
            BY <1>2, <1>5, <2>1, <2>2 DEF Stage
    <1>6. CASE KidsDone(m)
        <2>1. Stage(ROOT, PCIE_ROOT, NULL, "kids", Total)
            BY <1>6, TopIs DEF KidsDone, AfterKids
        <2> QED
            BY <1>2, <1>6, <2>1 DEF Stage
    <1>7. CASE RootDone(m)
        <2>1. Stage(ROOT, NULL, NULL, "kids", Total)
            BY <1>7, TopIs DEF RootDone, AfterKids
        <2> QED
            BY <1>2, <1>7, <2>1 DEF Stage
    <1>8. CASE SiblingNext(m)
        <2>1. PICK p, r \in Nat : AtSibling(m + 1, "root", p, r)
            BY <1>8 DEF SiblingNext
        <2>2. Stage(Chain[m + 1], NULL, NULL, "root", p)
            BY <2>1, TopIs DEF AtSibling
        <2> QED
            BY <1>2, <1>8, <2>2 DEF Stage
    <1>9. CASE SiblingDone(m)
        <2>1. PICK p, r \in Nat : AtSibling(m, "kids", p, r)
            BY <1>9 DEF SiblingDone
        <2>2. Stage(Chain[m], NULL, NULL, "kids", p)
            BY <2>1, TopIs DEF AtSibling
        <2> QED
            BY <1>2, <1>9, <2>2 DEF Stage
    <1> QED
        BY <1>1, <1>3, <1>4, <1>5, <1>6, <1>7, <1>8, <1>9

LEMMA VisitNodeOK == ASSUME DevdrivAssumption, TreeIInv, VisitNode PROVE TreeIInv'
    <1>1. PairUnchanged /\ Deeper /\ Top.at = "root" /\ phase' = "pair" /\ NrPaired' = NrPaired
        BY DEF VisitNode, Deeper
    <1>2. PICK m \in 0 .. Len(Chain) : Walking(m)
        BY <1>1, InWalk
    <1>3. PICK taken \in Candidates(Top.node) \cup {0} :
            /\ TryPair(Top.node, taken)
            /\ stack' = [stack EXCEPT ![1] = EnterKids(stack[1], FirstKid(Top.node), One(taken))]
        <2>1. PICK taken \in Candidates(Top.node) \cup {0} :
                /\ TryPair(Top.node, taken)
                /\ stack' = [stack EXCEPT ![1] = [@ EXCEPT !.at = "kids", !.base = FirstKid(Top.node),
                                 !.kid = FirstKid(Top.node), !.paired = Top.paired + One(taken)]]
            BY Zenon DEF VisitNode
        <2>2. stack' = [stack EXCEPT ![1] = EnterKids(stack[1], FirstKid(Top.node), One(taken))]
            BY <2>1 DEF EnterKids, Top
        <2> QED
            BY <2>1, <2>2
    <1>4. Starting(m) \/ SiblingNext(m)
        BY <1>1, <1>2, Stages
    <1>5. Still /\ OfferedOnce /\ IsFiniteSet(Paired) /\ Offered(m) /\ Linked /\ NrPaired = 0 /\ Chain' = Chain
        BY <1>2 DEF Walking
    <1>6. CASE Starting(m)
        <2>1. stack = <<F(ROOT, NULL, NULL, "root", 0)>> /\ m = 0 /\ Total = 0
            BY <1>6 DEF Starting, AtRoot
        <2>2. Stage(ROOT, NULL, NULL, "root", 0)
            BY <2>1, TopIs
        <2>3. Top.node = ROOT /\ stack[1] = F(ROOT, NULL, NULL, "root", 0)
            BY <2>2 DEF Stage, Top
        <2>4. taken = 0 /\ driver' = driver /\ probes' = probes
            BY <1>3, <1>5, <2>3, BareNode
        <2>5. FirstKid(ROOT) = PCIE_ROOT /\ One(taken) = 0
            BY <1>5, <2>4 DEF Linked, One
        <2>6. EnterKids(F(ROOT, NULL, NULL, "root", 0), PCIE_ROOT, 0) = F(ROOT, PCIE_ROOT, PCIE_ROOT, "kids", 0)
            <3>1. EnterKids(F(ROOT, NULL, NULL, "root", 0), PCIE_ROOT, 0) = F(ROOT, PCIE_ROOT, PCIE_ROOT, "kids", 0 + 0)
                BY FrameUpdates
            <3> QED
                BY <3>1
        <2>7. stack' = [<<F(ROOT, NULL, NULL, "root", 0)>> EXCEPT ![1] = F(ROOT, PCIE_ROOT, PCIE_ROOT, "kids", 0)]
            BY <1>3, <2>1, <2>3, <2>5, <2>6
        <2>8. AtPcieRoot'
            BY <2>7, StackUpdates DEF AtPcieRoot
        <2>9. Moved(m) /\ Paired' = Paired
            BY <1>5, <2>4, NothingMoved
        <2>10. Walk(m, Cardinality(Paired))'
            BY <2>1, <2>8, <2>9 DEF Walk, Total
        <2> QED
            BY <1>1, <1>5, <2>9, <2>10, Assemble
    <1>7. CASE SiblingNext(m)
        <2>1. PICK p \in Nat, r \in Nat : Total = p + r /\ m + 1 \in 2 .. Len(Chain) /\ AtSibling(m + 1, "root", p, r)
            BY <1>7 DEF SiblingNext
        <2> PICK M : M = m + 1
            OBVIOUS
        <2>2. M \in 2 .. Len(Chain) /\ M \in 1 .. Len(Chain) /\ M \in 0 .. Len(Chain) /\ M - 1 = m
            BY <2>1, <1>5 DEF Linked
        <2> PICK h : h = F(ROOT, PCIE_ROOT, NULL, "kids", r)
            OBVIOUS
        <2>3. stack = <<F(Chain[M], NULL, NULL, "root", p), h>>
            BY <2>1 DEF AtSibling
        <2>4. Stage(Chain[M], NULL, NULL, "root", p)
            BY <2>3, TopIs
        <2>5. Top.node = Chain[M] /\ stack[1] = F(Chain[M], NULL, NULL, "root", p)
            BY <2>4 DEF Stage, Top
        <2>6. OfferedNext(M, taken)
            BY <1>3, <1>5, <2>2, <2>5, NextFunctionOffered
        <2>7. FirstKid(Chain[M]) = NULL
            BY <1>5, <2>2 DEF Linked
        <2>8. EnterKids(F(Chain[M], NULL, NULL, "root", p), NULL, One(taken))
                = F(Chain[M], NULL, NULL, "kids", p + One(taken))
            BY FrameUpdates
        <2>9. stack' = [<<F(Chain[M], NULL, NULL, "root", p), h>> EXCEPT ![1] = F(Chain[M], NULL, NULL, "kids", p + One(taken))]
            BY <1>3, <2>3, <2>5, <2>7, <2>8
        <2>10. stack' = <<F(Chain[M], NULL, NULL, "kids", p + One(taken)), h>>
            BY <2>9, StackUpdates
        <2>11. AtSibling(M, "kids", p + One(taken), r)'
            BY <1>5, <2>10 DEF AtSibling
        <2>12. Cardinality(Paired') = (p + One(taken)) + r /\ p + One(taken) \in Nat
            BY <2>1, <2>6 DEF OfferedNext, Total
        <2>13. Walk(M, Cardinality(Paired))'
            BY <1>5, <2>2, <2>11, <2>12 DEF Walk
        <2>14. Moved(M)
            BY <2>6 DEF OfferedNext, Moved
        <2> QED
            BY <1>1, <1>5, <2>2, <2>13, <2>14, Assemble
    <1> QED
        BY <1>4, <1>6, <1>7

LEMMA VisitKidOK == ASSUME DevdrivAssumption, TreeIInv, VisitKid PROVE TreeIInv'
    <1>1. PairUnchanged /\ Deeper /\ Top.at = "kids" /\ Top.kid # NULL /\ phase' = "pair" /\ NrPaired' = NrPaired
        BY DEF VisitKid, Deeper
    <1>2. PICK m \in 0 .. Len(Chain) : Walking(m)
        BY <1>1, InWalk
    <1>3. PICK taken \in Candidates(Top.kid) \cup {0} :
            /\ TryPair(Top.kid, taken)
            /\ stack' = CallFor([stack EXCEPT ![1] = ToKid(stack[1], FirstKid(Top.kid), One(taken))], NextSib(Top.kid))
        <2>1. PICK taken \in Candidates(Top.kid) \cup {0} :
                /\ TryPair(Top.kid, taken)
                /\ stack' = CallFor([stack EXCEPT ![1] = [@ EXCEPT !.kid = FirstKid(Top.kid),
                                        !.paired = Top.paired + One(taken)]], NextSib(Top.kid))
            BY Zenon DEF VisitKid
        <2>2. stack' = CallFor([stack EXCEPT ![1] = ToKid(stack[1], FirstKid(Top.kid), One(taken))], NextSib(Top.kid))
            BY <2>1 DEF ToKid, Top
        <2> QED
            BY <2>1, <2>2
    <1>4. Entering(m) \/ FirstNext(m)
        BY <1>1, <1>2, Stages
    <1>5. Still /\ OfferedOnce /\ IsFiniteSet(Paired) /\ Offered(m) /\ Linked /\ NodeFacts /\ NrPaired = 0 /\ Chain' = Chain
        BY <1>2 DEF Walking
    <1>6. CASE Entering(m)
        <2>1. stack = <<F(ROOT, PCIE_ROOT, PCIE_ROOT, "kids", 0)>> /\ m = 0 /\ Total = 0
            BY <1>6 DEF Entering, AtPcieRoot
        <2>2. Stage(ROOT, PCIE_ROOT, PCIE_ROOT, "kids", 0)
            BY <2>1, TopIs
        <2>3. Top.kid = PCIE_ROOT /\ stack[1] = F(ROOT, PCIE_ROOT, PCIE_ROOT, "kids", 0)
            BY <2>2 DEF Stage, Top
        <2>4. taken = 0 /\ driver' = driver /\ probes' = probes
            BY <1>3, <1>5, <2>3, BareNode
        <2>5. NextSib(PCIE_ROOT) = NULL /\ One(taken) = 0
            BY <1>5, <2>4 DEF Linked, One
        <2> PICK x : x = FirstKid(PCIE_ROOT)
            OBVIOUS
        <2>6. ToKid(F(ROOT, PCIE_ROOT, PCIE_ROOT, "kids", 0), x, 0) = F(ROOT, PCIE_ROOT, x, "kids", 0)
            <3>1. ToKid(F(ROOT, PCIE_ROOT, PCIE_ROOT, "kids", 0), x, 0) = F(ROOT, PCIE_ROOT, x, "kids", 0 + 0)
                BY FrameUpdates
            <3> QED
                BY <3>1
        <2>7. stack' = [<<F(ROOT, PCIE_ROOT, PCIE_ROOT, "kids", 0)>> EXCEPT ![1] = F(ROOT, PCIE_ROOT, x, "kids", 0)]
            BY <1>3, <2>1, <2>3, <2>5, <2>6 DEF CallFor
        <2>8. stack' = <<F(ROOT, PCIE_ROOT, x, "kids", 0)>>
            BY <2>7, StackUpdates
        <2>9. Moved(m) /\ Paired' = Paired
            BY <1>5, <2>4, NothingMoved
        <2>10. Walk(m, Cardinality(Paired))'
            <3>1. CASE Len(Chain) > 0
                <4>1. x = Chain[1]
                    BY <1>5, <3>1 DEF Linked
                <4>2. AtFirst'
                    BY <1>5, <2>8, <3>1, <4>1 DEF AtFirst
                <4> QED
                    BY <2>1, <2>9, <4>2 DEF Walk, Total
            <3>2. CASE ~(Len(Chain) > 0)
                <4>1. x = NULL /\ Len(Chain) = 0
                    BY <1>5, <3>2 DEF Linked
                <4>2. AfterKids(PCIE_ROOT, 0)'
                    BY <2>8, <4>1 DEF AfterKids
                <4>3. Cardinality(Paired)' = 0
                    BY <2>1, <2>9 DEF Total
                <4>4. AfterKids(PCIE_ROOT, Cardinality(Paired))'
                    BY <4>2, <4>3 DEF AfterKids
                <4>5. m = Len(Chain')
                    BY <1>5, <2>1, <4>1
                <4> QED
                    BY <4>4, <4>5 DEF Walk
            <3> QED
                BY <3>1, <3>2
        <2> QED
            BY <1>1, <1>5, <2>9, <2>10, Assemble
    <1>7. CASE FirstNext(m)
        <2>1. m = 0 /\ Total = 0 /\ Len(Chain) > 0 /\ stack = <<F(ROOT, PCIE_ROOT, Chain[1], "kids", 0)>>
            BY <1>7 DEF FirstNext, AtFirst
        <2>2. 1 \in 1 .. Len(Chain) /\ 1 \in 0 .. Len(Chain) /\ 1 - 1 = m
            BY <2>1, <1>5 DEF Linked
        <2>3. Stage(ROOT, PCIE_ROOT, Chain[1], "kids", 0)
            BY <2>1, TopIs
        <2>4. Top.kid = Chain[1] /\ stack[1] = F(ROOT, PCIE_ROOT, Chain[1], "kids", 0)
            BY <2>3 DEF Stage, Top
        <2>5. OfferedNext(1, taken)
            BY <1>3, <1>5, <2>2, <2>4, NextFunctionOffered
        <2>6. FirstKid(Chain[1]) = NULL /\ NextSib(Chain[1]) = IF 1 < Len(Chain) THEN Chain[2] ELSE NULL
            <3>1. FirstKid(Chain[1]) = NULL /\ NextSib(Chain[1]) = IF 1 < Len(Chain) THEN Chain[1 + 1] ELSE NULL
                BY <1>5, <2>2 DEF Linked
            <3> QED
                BY <3>1
        <2> PICK w : w = One(taken)
            OBVIOUS
        <2>7. w \in Nat /\ Cardinality(Paired') = w
            BY <2>1, <2>5 DEF OfferedNext, Total
        <2> PICK g : g = F(ROOT, PCIE_ROOT, NULL, "kids", w)
            OBVIOUS
        <2>8. ToKid(F(ROOT, PCIE_ROOT, Chain[1], "kids", 0), NULL, w) = g
            <3>1. ToKid(F(ROOT, PCIE_ROOT, Chain[1], "kids", 0), NULL, w) = F(ROOT, PCIE_ROOT, NULL, "kids", 0 + w)
                BY FrameUpdates
            <3>2. 0 + w = w
                BY <2>7
            <3> QED
                BY <3>1, <3>2
        <2>9. stack' = CallFor([<<F(ROOT, PCIE_ROOT, Chain[1], "kids", 0)>> EXCEPT ![1] = g], NextSib(Chain[1]))
            BY <1>3, <2>1, <2>4, <2>6, <2>8
        <2>10. stack' = CallFor(<<g>>, NextSib(Chain[1]))
            BY <2>9, StackUpdates
        <2>11. Moved(1)
            BY <2>5 DEF OfferedNext, Moved
        <2>12. Walk(1, Cardinality(Paired))'
            <3>1. CASE 1 < Len(Chain)
                <4>1. 2 \in 2 .. Len(Chain) /\ 2 \in 1 .. Len(Chain) /\ 1 + 1 = 2
                    BY <1>5, <3>1 DEF Linked
                <4>2. NextSib(Chain[1]) = Chain[2] /\ Chain[2] # NULL
                    BY <1>5, <2>6, <3>1, <4>1 DEF Linked, NodeFacts
                <4>3. stack' = <<F(Chain[2], NULL, NULL, "root", 0)>> \o <<g>>
                    BY <2>10, <4>2 DEF CallFor, Frame, F
                <4>4. stack' = <<F(Chain[2], NULL, NULL, "root", 0), g>>
                    BY <4>3, StackUpdates
                <4>5. AtSibling(1 + 1, "root", 0, w)'
                    BY <1>5, <4>1, <4>4 DEF AtSibling
                <4>6. Cardinality(Paired)' = 0 + w /\ 0 \in Nat
                    BY <2>7
                <4> QED
                    BY <1>5, <2>7, <4>1, <4>5, <4>6 DEF Walk
            <3>2. CASE ~(1 < Len(Chain))
                <4>1. Len(Chain) = 1 /\ NextSib(Chain[1]) = NULL
                    BY <1>5, <2>1, <2>6, <3>2 DEF Linked
                <4>2. stack' = <<F(ROOT, PCIE_ROOT, NULL, "kids", w)>>
                    BY <2>10, <4>1 DEF CallFor
                <4>3. AfterKids(PCIE_ROOT, Cardinality(Paired))'
                    BY <2>7, <4>2 DEF AfterKids
                <4>4. 1 = Len(Chain')
                    BY <1>5, <4>1
                <4> QED
                    BY <4>3, <4>4 DEF Walk
            <3> QED
                BY <3>1, <3>2
        <2> QED
            BY <1>1, <1>5, <2>2, <2>11, <2>12, Assemble
    <1> QED
        BY <1>4, <1>6, <1>7

LEMMA NextKidBaseOK == ASSUME DevdrivAssumption, TreeIInv, NextKidBase PROVE TreeIInv'
    <1>1. /\ PairUnchanged /\ Deeper /\ Top.at = "kids" /\ Top.kid = NULL /\ Top.base # NULL
          /\ phase' = "pair" /\ NrPaired' = NrPaired /\ driver' = driver /\ probes' = probes
        BY DEF NextKidBase, Deeper
    <1>2. PICK m \in 0 .. Len(Chain) : Walking(m)
        BY <1>1, InWalk
    <1>3. stack' = [stack EXCEPT ![1] = ToBase(stack[1], NextSib(Top.base))]
        BY DEF NextKidBase, ToBase
    <1>4. Still /\ OfferedOnce /\ IsFiniteSet(Paired) /\ Offered(m) /\ Linked /\ NrPaired = 0 /\ Chain' = Chain
        BY <1>2 DEF Walking
    <1>5. KidsDone(m)
        BY <1>1, <1>2, Stages
    <1>6. stack = <<F(ROOT, PCIE_ROOT, NULL, "kids", Total)>> /\ m = Len(Chain)
        BY <1>5 DEF KidsDone, AfterKids
    <1>7. Stage(ROOT, PCIE_ROOT, NULL, "kids", Total)
        BY <1>6, TopIs
    <1>8. Top.base = PCIE_ROOT /\ stack[1] = F(ROOT, PCIE_ROOT, NULL, "kids", Total) /\ NextSib(PCIE_ROOT) = NULL
        BY <1>4, <1>7 DEF Stage, Top, Linked
    <1>9. ToBase(F(ROOT, PCIE_ROOT, NULL, "kids", Total), NULL) = F(ROOT, NULL, NULL, "kids", Total)
        BY FrameMoves
    <1>10. stack' = [<<F(ROOT, PCIE_ROOT, NULL, "kids", Total)>> EXCEPT ![1] = F(ROOT, NULL, NULL, "kids", Total)]
        BY <1>3, <1>6, <1>8, <1>9
    <1>11. stack' = <<F(ROOT, NULL, NULL, "kids", Total)>>
        BY <1>10, StackUpdates
    <1>12. Moved(m) /\ Paired' = Paired
        BY <1>1, <1>4, NothingMoved
    <1>13. AfterKids(NULL, Cardinality(Paired))'
        BY <1>11, <1>12 DEF AfterKids, Total
    <1>14. Walk(m, Cardinality(Paired))'
        BY <1>4, <1>6, <1>13 DEF Walk
    <1> QED
        BY <1>1, <1>4, <1>12, <1>14, Assemble

LEMMA NextNodeOK == ASSUME DevdrivAssumption, TreeIInv, NextNode PROVE TreeIInv'
    <1>1. /\ PairUnchanged /\ Deeper /\ Top.at = "kids" /\ Top.kid = NULL /\ Top.base = NULL
          /\ NextSib(Top.node) # NULL
          /\ phase' = "pair" /\ NrPaired' = NrPaired /\ driver' = driver /\ probes' = probes
        BY DEF NextNode, Deeper
    <1>2. PICK m \in 0 .. Len(Chain) : Walking(m)
        BY <1>1, InWalk
    <1>3. stack' = [stack EXCEPT ![1] = ToNode(stack[1], NextSib(Top.node))]
        BY DEF NextNode, ToNode
    <1>4. Still /\ OfferedOnce /\ IsFiniteSet(Paired) /\ Offered(m) /\ Linked /\ NrPaired = 0 /\ Chain' = Chain
        BY <1>2 DEF Walking
    <1>5. ~RootDone(m)
        <2> SUFFICES ASSUME RootDone(m) PROVE FALSE
            OBVIOUS
        <2>1. Stage(ROOT, NULL, NULL, "kids", Total)
            BY TopIs DEF RootDone, AfterKids
        <2> QED
            BY <1>1, <1>4, <2>1 DEF Stage, Linked
    <1>6. SiblingDone(m)
        BY <1>1, <1>2, <1>5, Stages
    <1>7. PICK p \in Nat, r \in Nat : Total = p + r /\ m \in 2 .. Len(Chain) /\ AtSibling(m, "kids", p, r)
        BY <1>6 DEF SiblingDone
    <1> PICK h : h = F(ROOT, PCIE_ROOT, NULL, "kids", r)
        OBVIOUS
    <1>8. stack = <<F(Chain[m], NULL, NULL, "kids", p), h>>
        BY <1>7 DEF AtSibling
    <1>9. Stage(Chain[m], NULL, NULL, "kids", p)
        BY <1>8, TopIs
    <1>10. Top.node = Chain[m] /\ stack[1] = F(Chain[m], NULL, NULL, "kids", p)
        BY <1>9 DEF Stage, Top
    <1>11. m \in 1 .. Len(Chain) /\ Len(Chain) \in Nat
        BY <1>4, <1>7 DEF Linked
    <1>12. m < Len(Chain) /\ NextSib(Chain[m]) = Chain[m + 1]
        BY <1>1, <1>4, <1>10, <1>11 DEF Linked
    <1>13. m + 1 \in 2 .. Len(Chain)
        BY <1>11, <1>12
    <1>14. ToNode(F(Chain[m], NULL, NULL, "kids", p), Chain[m + 1]) = F(Chain[m + 1], NULL, NULL, "root", p)
        BY FrameMoves
    <1>15. stack' = [<<F(Chain[m], NULL, NULL, "kids", p), h>> EXCEPT ![1] = F(Chain[m + 1], NULL, NULL, "root", p)]
        BY <1>3, <1>8, <1>10, <1>12, <1>14
    <1>16. stack' = <<F(Chain[m + 1], NULL, NULL, "root", p), h>>
        BY <1>15, StackUpdates
    <1>17. AtSibling(m + 1, "root", p, r)'
        BY <1>4, <1>16 DEF AtSibling
    <1>18. Moved(m) /\ Paired' = Paired
        BY <1>1, <1>4, NothingMoved
    <1>19. Cardinality(Paired)' = p + r
        BY <1>7, <1>18 DEF Total
    <1>20. Walk(m, Cardinality(Paired))'
        BY <1>4, <1>13, <1>17, <1>19 DEF Walk
    <1> QED
        BY <1>1, <1>4, <1>18, <1>20, Assemble

LEMMA ReturnOK == ASSUME DevdrivAssumption, TreeIInv, Return PROVE TreeIInv'
    <1>1. /\ PairUnchanged /\ Deeper /\ Top.at = "kids" /\ Top.kid = NULL /\ Top.base = NULL
          /\ NextSib(Top.node) = NULL /\ driver' = driver /\ probes' = probes
        BY DEF Return
    <1>2. PICK m \in 0 .. Len(Chain) : Walking(m)
        BY <1>1, InWalk
    <1>3. /\ Still /\ OfferedOnce /\ IsFiniteSet(Paired) /\ Offered(m) /\ Linked /\ NrPaired = 0 /\ Chain' = Chain
        BY <1>2 DEF Walking
    <1>4. RootDone(m) \/ SiblingDone(m)
        BY <1>1, <1>2, Stages
    <1>5. Moved(m) /\ Paired' = Paired
        BY <1>1, <1>3, NothingMoved
    <1>6. CASE RootDone(m)
        <2>1. m = Len(Chain) /\ stack = <<F(ROOT, NULL, NULL, "kids", Total)>>
            BY <1>6 DEF RootDone, AfterKids
        <2>2. Stage(ROOT, NULL, NULL, "kids", Total)
            BY <2>1, TopIs
        <2>3. Len(stack) = 1
            BY <2>1, StackUpdates
        <2>4. NrPaired' = Total /\ stack' = <<>> /\ phase' = "done"
            BY <2>2, <2>3 DEF Return, Stage
        <2>5. /\ LoadedDrivers' = LoadedDrivers /\ Kids(PCIE_ROOT)' = Kids(PCIE_ROOT)
              /\ Tree' = Tree /\ class' = class /\ kids' = kids
            BY <1>3, StillFacts
        <2>6. toRegister' = toRegister /\ g_DeviceCount' = g_DeviceCount
            BY <1>3 DEF Still, PairUnchanged
        <2>7. TreeTypes'
            BY <1>3, <1>5, <2>4, <2>5, <2>6 DEF Still, TreeTypes, Moved
        <2>8. TreeShape'
            BY <1>3, <1>5, <2>5, <2>6 DEF Still, TreeShape, Moved
        <2>9. WalkIsOn'
            BY <1>3, <1>5, <2>1, <2>4 DEF WalkIsOn, Moved, Total
        <2> QED
            BY <1>5, <2>4, <2>7, <2>8, <2>9 DEF TreeIInv, NothingFound, NothingOffered, CursorIsAhead, Moved
    <1>7. CASE SiblingDone(m)
        <2>1. PICK p \in Nat, r \in Nat : Total = p + r /\ m \in 2 .. Len(Chain) /\ AtSibling(m, "kids", p, r)
            BY <1>7 DEF SiblingDone
        <2> PICK h : h = F(ROOT, PCIE_ROOT, NULL, "kids", r)
            OBVIOUS
        <2>2. stack = <<F(Chain[m], NULL, NULL, "kids", p), h>>
            BY <2>1 DEF AtSibling
        <2>3. Stage(Chain[m], NULL, NULL, "kids", p)
            BY <2>2, TopIs
        <2>4. Top.node = Chain[m] /\ Top.paired = p
            BY <2>3 DEF Stage
        <2>5. m \in 1 .. Len(Chain) /\ Len(Chain) \in Nat
            BY <1>3, <2>1 DEF Linked
        <2>6. m = Len(Chain)
            <3> SUFFICES ASSUME m < Len(Chain) PROVE FALSE
                BY <2>5
            <3>1. m + 1 \in 1 .. Len(Chain)
                BY <2>5
            <3>2. NextSib(Chain[m]) = Chain[m + 1] /\ Chain[m + 1] # NULL
                BY <1>2, <1>3, <2>5, <3>1 DEF Linked, NodeFacts, Walking
            <3> QED
                BY <1>1, <2>4, <3>2
        <2>7. Len(stack) = 2 /\ Tail(stack) = <<h>>
            BY <2>2, StackUpdates
        <2>8. stack[2] = h /\ <<h>>[1] = h
            BY <2>2
        <2>9. /\ stack' = [Tail(stack) EXCEPT ![1] = [@ EXCEPT !.paired = stack[2].paired + AddCount(Top.paired)]]
              /\ NrPaired' = NrPaired /\ phase' = phase
            BY <2>7 DEF Return
        <2>10. stack' = [<<h>> EXCEPT ![1] = AddPaired(h, p)]
            BY <2>4, <2>7, <2>8, <2>9 DEF AddPaired, AddCount
        <2>11. AddPaired(h, p) = F(ROOT, PCIE_ROOT, NULL, "kids", r + p)
            BY FrameMoves
        <2>12. stack' = <<F(ROOT, PCIE_ROOT, NULL, "kids", r + p)>>
            BY <2>10, <2>11, StackUpdates
        <2>13. Cardinality(Paired)' = r + p
            BY <1>5, <2>1 DEF Total
        <2>14. AfterKids(PCIE_ROOT, Cardinality(Paired))'
            BY <2>12, <2>13 DEF AfterKids
        <2>15. Walk(m, Cardinality(Paired))'
            BY <1>3, <2>6, <2>14 DEF Walk
        <2>16. phase' = "pair" /\ NrPaired' = 0
            BY <1>3, <2>9 DEF Still
        <2> QED
            BY <1>3, <1>5, <2>15, <2>16, Assemble
    <1> QED
        BY <1>4, <1>6, <1>7
-----------------------------------------------------------------------------
(* A fault leaves the tree as it was found. *)
LEMMA PcieFaultOK == ASSUME DevdrivAssumption, TreeIInv, PcieFault PROVE TreeIInv'
    <1>1. /\ phase = "enumerate" /\ phase' = "meltdown"
          /\ toRegister' = toRegister /\ table' = table /\ kids' = kids /\ class' = class
          /\ driver' = driver /\ g_DeviceCount' = g_DeviceCount /\ stack' = stack
          /\ NrPaired' = NrPaired /\ probes' = probes
        BY DEF PcieFault
    <1>2. LoadedDrivers' = LoadedDrivers /\ Chain' = Chain /\ Kids(PCIE_ROOT)' = Kids(PCIE_ROOT)
        BY <1>1 DEF LoadedDrivers, Chain, Kids
    <1>3. TreeTypes' /\ NothingFound' /\ NothingOffered' /\ OfferedOnce'
        BY <1>1, <1>2 DEF TreeIInv, TreeTypes, NothingFound, NothingOffered, OfferedOnce
    <1>4. TreeShape' /\ CursorIsAhead' /\ WalkIsOn'
        BY <1>1, <1>2 DEF TreeIInv, TreeShape, CursorIsAhead, WalkIsOn
    <1> QED
        BY <1>3, <1>4 DEF TreeIInv

LEMMA TreeStep == ASSUME DevdrivAssumption, TreeIInv, [TreeNext]_treeVars PROVE TreeIInv'
    <1>1. CASE UNCHANGED treeVars
        <2>1. /\ phase' = phase /\ toRegister' = toRegister /\ table' = table /\ kids' = kids /\ class' = class
              /\ driver' = driver /\ g_DeviceCount' = g_DeviceCount /\ cursor' = cursor /\ stack' = stack
              /\ NrPaired' = NrPaired /\ probes' = probes
            BY <1>1 DEF treeVars
        <2>2. LoadedDrivers' = LoadedDrivers /\ Chain' = Chain /\ Tree' = Tree /\ Kids(PCIE_ROOT)' = Kids(PCIE_ROOT)
            BY <2>1 DEF LoadedDrivers, Chain, Tree, Kids
        <2>3. TreeTypes' /\ NothingFound' /\ NothingOffered' /\ OfferedOnce'
            BY <2>1, <2>2 DEF TreeIInv, TreeTypes, NothingFound, NothingOffered, OfferedOnce
        <2>4. TreeShape' /\ CursorIsAhead'
            BY <2>1, <2>2 DEF TreeIInv, TreeShape, CursorIsAhead
        <2>5. Paired' = Paired
            BY <2>1, <2>2 DEF Paired
        <2>6. \A d, x : IsDriverCompatibleWithDevice(d, x)' <=> IsDriverCompatibleWithDevice(d, x)
            BY <2>1 DEF IsDriverCompatibleWithDevice
        <2>7. \A m : Offered(m) => Offered(m)'
            BY <2>1, <2>2, <2>6, Zenon DEF Offered
        <2>8. \A m, t : Walk(m, t) => Walk(m, t)'
            BY <2>1, <2>2, Zenon DEF Walk, AtRoot, AtPcieRoot, AtFirst, AfterKids, AtSibling
        <2>9. WalkIsOn'
            BY <2>1, <2>2, <2>5, <2>7, <2>8, Zenon DEF TreeIInv, WalkIsOn
        <2> QED
            BY <2>3, <2>4, <2>9 DEF TreeIInv
    <1> QED
        BY <1>1, RegisterDriverOK, InitDeviceTreeOK, PcieProbeOK, PcieFaultOK, GlobalPairOK, VisitNodeOK,
           VisitKidOK, NextKidBaseOK, NextNodeOK, ReturnOK DEF TreeNext

(* The nodes of the frames are nodes of the tree. *)
LEMMA FramesAreTyped ==
    ASSUME DevdrivAssumption, TreeIInv
    PROVE  \A i \in DOMAIN stack : {stack[i].node, stack[i].base, stack[i].kid} \subseteq Nodes \cup {NULL}
    <1>0. NodeFacts
        BY Constants
    <1> DEFINE Good(e) == {e.node, e.base, e.kid} \subseteq Nodes \cup {NULL}
    <1>1. ASSUME NEW n \in Nodes \cup {NULL}, NEW b \in Nodes \cup {NULL}, NEW k \in Nodes \cup {NULL}, NEW a, NEW p
          PROVE  Good(F(n, b, k, a, p))
        BY FrameFields
    <1> HIDE DEF Good
    <1>2. \A e : DOMAIN <<e>> = {1} /\ <<e>>[1] = e
        OBVIOUS
    <1>3. \A e, h : DOMAIN <<e, h>> = {1, 2} /\ <<e, h>>[1] = e /\ <<e, h>>[2] = h
        OBVIOUS
    <1>4. ROOT \in Nodes \cup {NULL} /\ PCIE_ROOT \in Nodes \cup {NULL} /\ NULL \in Nodes \cup {NULL}
        BY <1>0 DEF NodeFacts
    <1>5. phase # "register" => \A k \in 1 .. Len(Chain) : Chain[k] \in Nodes \cup {NULL}
        <2>1. phase # "register" => Linked
            BY Links DEF TreeIInv
        <2> QED
            BY <1>0, <2>1 DEF Linked, NodeFacts
    <1>6. \A i \in DOMAIN stack : Good(stack[i])
        <2>1. CASE phase \in {"register", "enumerate", "meltdown"}
            <3>1. stack = <<>>
                BY <2>1 DEF TreeIInv, NothingOffered
            <3> QED
                BY <3>1
        <2>2. CASE phase = "done"
            <3>1. stack = <<>>
                BY <2>2 DEF TreeIInv, WalkIsOn
            <3> QED
                BY <3>1
        <2>3. CASE phase = "pair"
            <3>1. PICK m \in 0 .. Len(Chain) : Walk(m, Cardinality(Paired))
                BY <2>3 DEF TreeIInv, WalkIsOn
            <3>2. \A k \in 1 .. Len(Chain) : Chain[k] \in Nodes \cup {NULL}
                BY <1>5, <2>3
            <3>3. ASSUME NEW b \in Nodes \cup {NULL}, NEW k \in Nodes \cup {NULL}, NEW a, NEW p,
                         stack = <<F(ROOT, b, k, a, p)>>
                  PROVE  \A i \in DOMAIN stack : Good(stack[i])
                BY <1>1, <1>2, <1>4, <3>3
            <3>4. ASSUME NEW k \in 1 .. Len(Chain), NEW a, NEW p, NEW r, AtSibling(k, a, p, r)
                  PROVE  \A i \in DOMAIN stack : Good(stack[i])
                <4> PICK e, h : e = F(Chain[k], NULL, NULL, a, p) /\ h = F(ROOT, PCIE_ROOT, NULL, "kids", r)
                    OBVIOUS
                <4>1. Good(e) /\ Good(h)
                    BY <1>1, <1>4, <3>2
                <4>2. stack = <<e, h>>
                    BY <3>4 DEF AtSibling
                <4> QED
                    BY <1>3, <4>1, <4>2
            <3>5. CASE AtRoot \/ AtPcieRoot \/ AtFirst \/ \E b \in {PCIE_ROOT, NULL} : \E p : AfterKids(b, p)
                <4>1. Len(Chain) > 0 => Chain[1] \in Nodes \cup {NULL}
                    <5>1. Linked
                        BY <2>3, Links DEF TreeIInv
                    <5> QED
                        BY <3>2, <5>1 DEF Linked
                <4>2. AtRoot => \A i \in DOMAIN stack : Good(stack[i])
                    BY <1>4, <3>3, Zenon DEF AtRoot
                <4>3. AtPcieRoot => \A i \in DOMAIN stack : Good(stack[i])
                    BY <1>4, <3>3, Zenon DEF AtPcieRoot
                <4>4. AtFirst => \A i \in DOMAIN stack : Good(stack[i])
                    BY <1>4, <3>3, <4>1, Zenon DEF AtFirst
                <4>5. \A b \in {PCIE_ROOT, NULL} : \A p : AfterKids(b, p) => \A i \in DOMAIN stack : Good(stack[i])
                    BY <1>4, <3>3, Zenon DEF AfterKids
                <4> QED
                    BY <3>5, <4>2, <4>3, <4>4, <4>5, Zenon
            <3>6. CASE \E p, r : m + 1 \in 2 .. Len(Chain) /\ AtSibling(m + 1, "root", p, r)
                <4>1. \A k \in 2 .. Len(Chain) : k \in 1 .. Len(Chain)
                    OBVIOUS
                <4> QED
                    BY <3>4, <3>6, <4>1, Zenon
            <3>7. CASE \E p, r : m \in 2 .. Len(Chain) /\ AtSibling(m, "kids", p, r)
                <4>1. \A k \in 2 .. Len(Chain) : k \in 1 .. Len(Chain)
                    OBVIOUS
                <4> QED
                    BY <3>4, <3>7, <4>1, Zenon
            <3> QED
                BY <3>1, <3>5, <3>6, <3>7, Zenon DEF Walk
        <2> QED
            BY <2>1, <2>2, <2>3 DEF TreeIInv, TreeTypes
    <1> QED
        BY <1>6 DEF Good

LEMMA TreeImplies == ASSUME DevdrivAssumption, TreeIInv PROVE TreeIsSound
    <1>0. NodeFacts
        BY Constants
    <1>1. TreeTypes /\ TreeShape /\ NothingFound /\ NothingOffered /\ WalkIsOn /\ OfferedOnce
        BY DEF TreeIInv
    <1>2. phase # "register" => Linked
        BY <1>1, Links
    <1>3. TreeTypeOK
        <2>1. g_DeviceCount \in 0 .. MaxFunctions + 2
            <3>1. CASE phase = "register"
                BY <1>0, <1>1, <3>1 DEF NothingFound, NodeFacts
            <3>2. CASE phase # "register"
                BY <1>0, <1>1, <1>2, <3>2 DEF TreeShape, Linked, NodeFacts
            <3> QED
                BY <3>1, <3>2
        <2>2. NrPaired \in Nat
            <3>1. CASE phase \in {"register", "enumerate", "meltdown"}
                BY <1>1, <3>1 DEF NothingOffered
            <3>2. CASE phase \in {"pair", "done"}
                <4>1. Cardinality(Paired) \in Nat
                    BY <1>1, <3>2, FS_CardinalityType DEF WalkIsOn
                <4> QED
                    BY <1>1, <3>2, <4>1 DEF WalkIsOn
            <3> QED
                BY <1>1, <3>1, <3>2 DEF TreeTypes
        <2> QED
            BY <1>1, <2>1, <2>2, Types, FramesAreTyped DEF TreeTypeOK, TreeTypes
    <1>4. CountMatchesTree
        <2> SUFFICES ASSUME phase = "done" PROVE g_DeviceCount = Cardinality(Tree)
            BY DEF CountMatchesTree
        <2>1. Linked
            BY <1>2
        <2> PICK K : K = Kids(PCIE_ROOT)
            OBVIOUS
        <2>2. IsFiniteSet(K) /\ Cardinality(K) = Len(Chain) /\ g_DeviceCount = Len(Chain) + 2 /\ Len(Chain) \in Nat
            BY <1>1, <2>1 DEF TreeShape, Linked
        <2>3. PCIE_ROOT \notin K /\ ROOT \notin K \cup {PCIE_ROOT} /\ Tree = (K \cup {PCIE_ROOT}) \cup {ROOT}
            BY <1>0, <2>1 DEF Linked, NodeFacts
        <2>4. IsFiniteSet(K \cup {PCIE_ROOT}) /\ Cardinality(K \cup {PCIE_ROOT}) = Len(Chain) + 1
            BY <2>2, <2>3, FS_AddElement
        <2>5. Cardinality((K \cup {PCIE_ROOT}) \cup {ROOT}) = Len(Chain) + 1 + 1
            BY <2>3, <2>4, FS_AddElement
        <2> QED
            BY <2>2, <2>3, <2>5
    <1>5. PairCountIsExact
        BY <1>1 DEF PairCountIsExact, WalkIsOn, Paired
    <1>6. EveryDeviceIsOffered
        <2> SUFFICES ASSUME phase = "done", NEW n \in Tree, driver[n] = NULL, NEW d \in Range(LoadedDrivers),
                            IsDriverCompatibleWithDevice(d, n)
                     PROVE  probes[n, d] > 0
            BY DEF EveryDeviceIsOffered
        <2>1. Linked /\ Offered(Len(Chain))
            BY <1>1, <1>2 DEF WalkIsOn
        <2>2. n # ROOT /\ n # PCIE_ROOT
            BY <1>1 DEF TreeShape, IsDriverCompatibleWithDevice
        <2>3. PICK k \in 1 .. Len(Chain) : n = Chain[k]
            BY <2>1, <2>2 DEF Linked
        <2>4. probes[<<n, d>>] > 0
            BY <2>1, <2>3 DEF Offered
        <2> QED
            BY <2>4
    <1> QED
        BY <1>1, <1>3, <1>4, <1>5, <1>6 DEF TreeIsSound

(* Whatever the hardware answers and whichever allocations and drivers fail: *)
(* the number of devices is the number of nodes of the tree, the number of   *)
(* pairs that LocalDevdrivPairAttempt returns is the number of devices with  *)
(* a driver, and when the walk ends every device without one was offered to  *)
(* every compatible driver, none of them twice (Device.c, PCIe.c, Pair.c).   *)
THEOREM TreeSound == ASSUME DevdrivAssumption PROVE TreeSpec => []TreeIsSound
    <1>1. TreeInit => TreeIInv
        BY TreeInitOK
    <1>2. TreeIInv /\ [TreeNext]_treeVars => TreeIInv'
        BY TreeStep
    <1>3. TreeIInv => TreeIsSound
        BY TreeImplies
    <1> QED
        BY <1>1, <1>2, <1>3, PTL DEF TreeSpec
=============================================================================
