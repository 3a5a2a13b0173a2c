---------------------------- MODULE PerCpuTimer ----------------------------
(***************************************************************************)
(* The timer queue of one CPU: SetTimer and Sleep                           *)
(* (Kernel/Source/CPU/PerCpu.c), IntmgmtTimerInterrupt                      *)
(* (Kernel/Source/Intmgmt/Timer.c) and the local APIC's one-shot counter.   *)
(* The interrupt handler runs with interrupts off and the counter stopped,  *)
(* so it is one step; SetTimer is not.  bInTimerInt and the deferred queue  *)
(* live only inside the handler's step.                                     *)
(***************************************************************************)
EXTENDS Naturals, FiniteSets, SequencesExt

CONSTANTS
  Delays,       \* uSeconds arguments
  Calibration,  \* ticks per microsecond
  DWORD_MAX,    \* the largest count the APIC register holds
  MaxEvents,    \* bound: timer events ever set
  IrqOff,       \* subset of BOOLEAN: may SetTimer be called with interrupts off?
  HeapFails     \* subset of BOOLEAN: may HeapAcquire fail?

TimerAssumption ==
  /\ Delays \subseteq Nat /\ Calibration \in Nat \ {0} /\ DWORD_MAX \in Nat \ {0}
  /\ MaxEvents \in Nat
  /\ IrqOff \subseteq BOOLEAN /\ HeapFails \subseteq BOOLEAN

Ids == 1 .. MaxEvents
Callbacks == {"none", "again", "sleepDone"}

VARIABLES
  mode,       \* the surroundings: [irqOff, heapFails], never changed
  queue,      \* TimerRoot: the events [id, left, cb], left = LastTickCount
  INITCR,     \* the APIC's initial count register
  CURRCR,     \* the APIC's current count
  pending,    \* the timer interrupt is latched
  IF_,        \* interrupts are enabled
  pc,         \* where the interrupted flow is
  new,        \* the event being set
  SleepBit,   \* the ballot bit of the CPU's Sleep call
  asked,      \* history: ticks asked for, per event
  age,        \* history: ticks counted since it was inserted, up to asked
  fired       \* history: events whose callback was called

apic == <<INITCR, CURRCR>>
vars == <<mode, queue, apic, pending, IF_, pc, new, SleepBit, asked, age, fired>>

NoEvent == [id |-> 0, left |-> 0, cb |-> "none"]

Queued == {queue[i].id : i \in DOMAIN queue}
NrSet  == Cardinality({id \in Ids : asked[id] # 0 \/ id \in fired \/ id \in Queued})

Init ==
  /\ mode \in [irqOff : IrqOff, heapFails : HeapFails]
  /\ queue = <<>> /\ INITCR = 0 /\ CURRCR = 0 /\ pending = FALSE /\ IF_ = TRUE
  /\ pc = "run" /\ new = NoEvent /\ SleepBit = FALSE
  /\ asked = [id \in Ids |-> 0] /\ age = [id \in Ids |-> 0] /\ fired = {}

(* An interrupt that is latched and enabled comes before the next step. *)
Running == ~(pending /\ IF_)

ApicSetTimerCount(n) == INITCR' = n /\ CURRCR' = n

(* Wrong variant: the larger one. *)
MACROMAX(m, n) == IF m > n THEN m ELSE n

MACROMIN(m, n) == IF m < n THEN m ELSE n
----------------------------------------------------------------------------
(* The sorted queue *)

(* Wrong variant: a new event goes to the front. *)
InsertFirst(q, e) == <<e>> \o q

(* FindTimerEventInsertPoint and the linking: before the first event that  *)
(* is not due earlier.                                                     *)
InsertEvent(q, e) ==
  LET before == {i \in DOMAIN q : \A j \in 1 .. i : q[j].left < e.left}
  IN  InsertAt(q, Cardinality(before) + 1, e)

InsertAll(q, es) == FoldLeft(InsertEvent, q, es)
----------------------------------------------------------------------------
(* SetTimer and Sleep, in the flow that interrupts may interrupt *)

(* The context SetTimer is called from: an interrupt handler, or a         *)
(* critical section, runs with interrupts disabled.                        *)
DisableInterrupts ==
  /\ mode.irqOff /\ pc = "run" /\ IF_ /\ Running
  /\ IF_' = FALSE
  /\ UNCHANGED <<mode, queue, apic, pending, pc, new, SleepBit, asked, age, fired>>

EnableInterrupts ==
  /\ pc = "run" /\ ~IF_
  /\ IF_' = TRUE
  /\ UNCHANGED <<mode, queue, apic, pending, pc, new, SleepBit, asked, age, fired>>

(* The counter is stopped first. *)
SetTimerStop(cb) ==
  /\ pc = "run" /\ Running
  /\ NrSet < MaxEvents
  /\ \E d \in Delays :
        new' = [id |-> NrSet + 1, left |-> d * Calibration, cb |-> cb]
  /\ ApicSetTimerCount(0)
  /\ pc' = "stopped"
  /\ UNCHANGED <<mode, queue, pending, IF_, asked, age, fired>>

SetTimer == \E cb \in {"none", "again"} : SetTimerStop(cb) /\ UNCHANGED SleepBit

Sleep == IF_ /\ SetTimerStop("sleepDone") /\ SleepBit' = TRUE

(* The event is allocated and linked into the queue. *)
SetTimerInsert ==
  /\ pc = "stopped" /\ Running
  /\ queue' = InsertEvent(queue, new)
  /\ asked' = [asked EXCEPT ![new.id] = new.left]
  /\ pc' = "linked"
  /\ UNCHANGED <<mode, apic, pending, IF_, new, SleepBit, age, fired>>

(* No memory: the counter is set to its own initial count, which is 0 by   *)
(* now.  Sleep does not look at the result.                                *)
SetTimerNoMemory ==
  /\ pc = "stopped" /\ Running /\ mode.heapFails
  /\ ApicSetTimerCount(INITCR)
  /\ pc' = IF new.cb = "sleepDone" THEN "toHalt" ELSE "run"
  /\ new' = NoEvent
  /\ UNCHANGED <<mode, queue, pending, IF_, SleepBit, asked, age, fired>>

(* Wrong variant: the counter is armed only for a new root. *)
SetTimerForget ==
  /\ pc = "linked" /\ Running
  /\ IF Head(queue) = new THEN ApicSetTimerCount(MACROMIN(DWORD_MAX, new.left)) ELSE UNCHANGED apic
  /\ pc' = IF new.cb = "sleepDone" THEN "toHalt" ELSE "run"
  /\ new' = NoEvent
  /\ UNCHANGED <<mode, queue, pending, IF_, SleepBit, asked, age, fired>>

(* The root has the smallest tick count. *)
SetTimerArm ==
  /\ pc = "linked" /\ Running
  /\ ApicSetTimerCount(MACROMIN(DWORD_MAX, Head(queue).left))
  /\ pc' = IF new.cb = "sleepDone" THEN "toHalt" ELSE "run"
  /\ new' = NoEvent
  /\ UNCHANGED <<mode, queue, pending, IF_, SleepBit, asked, age, fired>>

(* HLT, and the test once an interrupt has ended it. *)
SleepHalt ==
  /\ pc = "toHalt" /\ Running
  /\ pc' = "halted"
  /\ UNCHANGED <<mode, queue, apic, pending, IF_, new, SleepBit, asked, age, fired>>

SleepTest ==
  /\ pc = "woken" /\ Running
  /\ pc' = IF SleepBit THEN "toHalt" ELSE "run"
  /\ UNCHANGED <<mode, queue, apic, pending, IF_, new, SleepBit, asked, age, fired>>
----------------------------------------------------------------------------
(* The APIC counts down once and raises the interrupt when it reaches 0. *)
Tick ==
  /\ CURRCR > 0
  /\ CURRCR' = CURRCR - 1
  /\ pending' = (pending \/ CURRCR = 1)
  /\ age' = [id \in Ids |-> age[id] + (IF id \in Queued /\ age[id] < asked[id] THEN 1 ELSE 0)]
  /\ UNCHANGED <<mode, queue, INITCR, IF_, pc, new, SleepBit, asked, fired>>

(* Wrong variant: the root is due whenever the interrupt comes. *)
ExpiredRoot == Cardinality({i \in DOMAIN queue : queue[i].left = queue[1].left})

(* The number of events at the root that have expired. *)
Expired == Cardinality({i \in DOMAIN queue : \A j \in 1 .. i : queue[j].left <= INITCR})

(* Wrong variant: the events that stay keep their tick count. *)
KeepTicks(e) == e

Elapse(e) == [e EXCEPT !.left = @ - INITCR]

(* The expired events are called back and dropped; an "again" callback     *)
(* sets one timer, which is deferred; the others have the ticks taken off; *)
(* then the deferred events are set and the counter is armed for the root. *)
(* Without memory a deferred event is lost.                                *)
TimerInterrupt ==
  LET done   == SubSeq(queue, 1, Expired)
      rest   == SubSeq(queue, Expired + 1, Len(queue))
      stayed == [i \in DOMAIN rest |-> Elapse(rest[i])]
      wants  == Cardinality({i \in DOMAIN done : done[i].cb = "again"})
      fits   == MACROMIN(wants, MaxEvents - NrSet)
  IN
  /\ pending /\ IF_
  /\ pending' = FALSE
  /\ fired' = fired \cup {done[i].id : i \in DOMAIN done}
  /\ \E d \in Delays, again \in (IF mode.heapFails THEN 0 ELSE fits) .. fits :
        LET n   == d * Calibration
            set == [i \in 1 .. again |-> [id |-> NrSet + i, left |-> n, cb |-> "none"]]
        IN  /\ queue' = InsertAll(stayed, InsertAll(<<>>, set))
            /\ asked' = [id \in Ids |-> IF id \in NrSet + 1 .. NrSet + again THEN n ELSE asked[id]]
  /\ \/ queue' # <<>> /\ ApicSetTimerCount(MACROMIN(DWORD_MAX, Head(queue').left))
     \/ queue' = <<>> /\ wants > 0 /\ ApicSetTimerCount(0)
     \/ queue' = <<>> /\ wants = 0 /\ UNCHANGED apic
  /\ SleepBit' = (SleepBit /\ \A i \in DOMAIN done : done[i].cb # "sleepDone")
  /\ pc' = IF pc = "halted" THEN "woken" ELSE pc
  /\ UNCHANGED <<mode, IF_, new, age>>
----------------------------------------------------------------------------
(* What goes on by itself once it was started. *)
Progress == \/ SetTimerInsert \/ SetTimerNoMemory \/ SetTimerArm
            \/ SleepHalt \/ SleepTest \/ EnableInterrupts

Next == SetTimer \/ Sleep \/ DisableInterrupts \/ Progress \/ Tick \/ TimerInterrupt

Spec == Init /\ [][Next]_vars

(* The CPU executes, the APIC counts and an enabled interrupt is taken. *)
FairSpec == Spec /\ WF_vars(Progress) /\ WF_vars(Tick) /\ WF_vars(TimerInterrupt)
----------------------------------------------------------------------------
(* Properties *)

Events == [id : Ids, left : Nat, cb : Callbacks]

(* The ranges of the timer state; the APIC register never gets more than   *)
(* it holds.                                                               *)
TypeOK ==
  /\ mode \in [irqOff : BOOLEAN, heapFails : BOOLEAN] /\ queue \in Seq(Events)
  /\ INITCR \in 0 .. DWORD_MAX /\ CURRCR \in 0 .. INITCR
  /\ pending \in BOOLEAN /\ IF_ \in BOOLEAN /\ SleepBit \in BOOLEAN
  /\ pc \in {"run", "stopped", "linked", "toHalt", "halted", "woken"}
  /\ new \in Events \cup {NoEvent}
  /\ asked \in [Ids -> Nat] /\ age \in [Ids -> Nat] /\ fired \subseteq Ids

(* TimerEvent.Next: the queue is sorted after any mix of insertions,       *)
(* partial expiries and deferred events.                                   *)
QueueSorted == \A i \in 1 .. Len(queue) - 1 : queue[i].left <= queue[i + 1].left

(* A timer fires only after the ticks that were asked for were counted,    *)
(* however often the counter was stopped, capped and armed again, when     *)
(* SetTimer is called with interrupts enabled.                             *)
NeverEarly == [][~mode.irqOff => \A id \in fired' \ fired : age[id] >= asked[id]]_vars

(* No event waits in the queue of a counter that stands still: whenever    *)
(* SetTimer and the handler are done, the counter runs for the root; an    *)
(* allocation that fails leaves it stopped.                                *)
CounterRuns ==
  ~mode.heapFails /\ queue # <<>> /\ pc \notin {"stopped", "linked"}
     => CURRCR > 0 \/ pending

(* The queue is sorted, and the counter runs for its root within what the  *)
(* register holds.                                                         *)
QueueIsSound == TypeOK /\ QueueSorted /\ CounterRuns

(* Every event that was set fires, if no allocation fails. *)
EveryTimerFires ==
  \A id \in Ids : ~mode.heapFails /\ id \in Queued ~> id \in fired

(* The timer fired between SetTimer, or the test of Sleep, and the HLT. *)
MissedWakeup == pc = "halted" /\ ~SleepBit

(* Sleep returns once its event has fired, whatever other events wake the  *)
(* CPU in between, unless it missed the wakeup or an allocation failed.    *)
SleepReturnsUnlessMissed == ~mode.heapFails /\ SleepBit ~> pc = "run" \/ MissedWakeup

(* Sleep returns after its time has passed: does not hold, see             *)
(* MissedWakeup.                                                           *)
SleepReturns == SleepBit ~> pc = "run"
============================================================================
