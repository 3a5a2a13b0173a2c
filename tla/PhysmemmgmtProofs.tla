------------------------- MODULE PhysmemmgmtProofs -------------------------
(***************************************************************************)
(* Proofs about the physical memory manager, for any number of CPUs and     *)
(* pages, any bitmap byte width and any mix of requests.                    *)
(***************************************************************************)
EXTENDS Physmemmgmt, FiniteSetTheorems, TLAPS
----------------------------------------------------------------------------
(* The inductive invariant: the four safety properties and what the steps  *)
(* of one call rely on between them.                                       *)

(* Only a search in progress has collected pages, and they are all free;   *)
(* a call that returns has at least one.                                   *)
CollectedPages ==
  \A c \in Cpus :
     /\ pc[c] \notin {"hunt", "return"} => out[c] = <<>>
     /\ pc[c] = "hunt" => Range(out[c]) \cap primary = {}
     /\ pc[c] = "return" => out[c] # <<>> /\ Range(out[c]) \subseteq FreeAtBoot

(* The pages of a DENSE search are contiguous and end before the page that *)
(* is looked at next.                                                      *)
DenseStreak ==
  \A c \in Cpus : pc[c] \in {"hunt", "return"} /\ "DENSE" \in req[c].flags =>
     /\ \A i \in DOMAIN out[c] : out[c][i] = out[c][1] + (i - 1)
     /\ pc[c] = "hunt" /\ out[c] # <<>> => out[c][Len(out[c])] = PageID[c] - 1

(* The argument page of a call is held by the caller. *)
ArgumentHeld ==
  /\ \A c \in Cpus : held[c] \subseteq FreeAtBoot
  /\ \A c \in Cpus : pc[c] \in {"relLock", "relClear", "rsvStore"} => PageID[c] \in held[c]

IInv ==
  /\ TypeOK
  /\ LockOwnership
  /\ ExclusiveOwnership
  /\ BitmapMatchesOwnership
  /\ CollectedPages
  /\ DenseStreak
  /\ ArgumentHeld
----------------------------------------------------------------------------
(* Facts about the operators *)

(* The bitmap has a bit for every page: BitmapSize is rounded up. *)
LEMMA BitmapCoversPages == NrPages <= BitmapEnd /\ BitmapEnd \in Nat
  <1> DEFINE x == NrPages + ByteBits - 1
  <1>1. NrPages \in Nat /\ ByteBits \in Nat /\ ByteBits > 0 /\ x \in Nat
    BY PmmAssumption
  <1>2. /\ x = ByteBits * (x \div ByteBits) + (x % ByteBits)
        /\ x % ByteBits \in 0 .. ByteBits - 1
        /\ x \div ByteBits \in Nat
    <2> HIDE DEF x
    <2> QED BY <1>1, Z3
  <1>3. BitmapEnd = (x \div ByteBits) * ByteBits
    BY DEF BitmapEnd, BitmapSize
  <1> QED BY <1>1, <1>2, <1>3

(* Appending a page to pOutIDs adds exactly that page. *)
LEMMA RangeAppend ==
  ASSUME NEW S, NEW s \in Seq(S), NEW x \in S
  PROVE  /\ Append(s, x) \in Seq(S)
         /\ Range(Append(s, x)) = Range(s) \cup {x}
  <1> DEFINE t == Append(s, x)
  <1>1. t \in Seq(S) /\ DOMAIN t = 1 .. Len(s) + 1 /\ DOMAIN s = 1 .. Len(s) /\ Len(s) \in Nat
    OBVIOUS
  <1>2. t[Len(s) + 1] = x /\ \A i \in 1 .. Len(s) : t[i] = s[i]
    OBVIOUS
  <1> HIDE DEF t
  <1>3. ASSUME NEW y \in Range(t) PROVE y \in Range(s) \cup {x}
    <2>1. PICK i \in 1 .. Len(s) + 1 : y = t[i]
      BY <1>1 DEF Range
    <2>2. i = Len(s) + 1 \/ i \in 1 .. Len(s)
      BY <1>1
    <2> QED BY <1>1, <1>2, <2>1, <2>2 DEF Range
  <1>4. ASSUME NEW y \in Range(s) \cup {x} PROVE y \in Range(t)
    <2>1. CASE y = x
      <3>1. Len(s) + 1 \in DOMAIN t
        BY <1>1
      <3> QED BY <1>2, <2>1, <3>1 DEF Range
    <2>2. CASE y \in Range(s)
      <3>1. PICK i \in 1 .. Len(s) : y = s[i]
        BY <1>1, <2>2 DEF Range
      <3>2. i \in DOMAIN t
        BY <1>1
      <3> QED BY <1>2, <3>1, <3>2 DEF Range
    <2> QED BY <2>1, <2>2
  <1>5. Range(t) = Range(s) \cup {x}
    BY <1>3, <1>4
  <1> QED BY <1>1, <1>5 DEF t

LEMMA RangeEmpty == Range(<<>>) = {}
  BY DEF Range

LEMMA RangeType ==
  ASSUME NEW S, NEW s \in Seq(S)
  PROVE  Range(s) \subseteq S
  BY DEF Range

(* The claim of PmAcquirePages marks exactly the pages it returns. *)
LEMMA ClaimMarksOut ==
  ASSUME NEW flags, NEW s \in Seq(Pages), s # <<>>,
         "DENSE" \in flags => \A i \in DOMAIN s : s[i] = s[1] + (i - 1)
  PROVE  ClaimedRange(flags, s) = Range(s)
  <1> USE PmmAssumption
  <1>0. Len(s) \in Nat \ {0} /\ DOMAIN s = 1 .. Len(s)
    OBVIOUS
  <1>1. CASE "DENSE" \in flags
    <2>1. \A i \in 1 .. Len(s) : s[i] = s[1] + (i - 1) /\ s[i] \in 0 .. NrPages - 1
      BY <1>0, <1>1 DEF Pages
    <2>2. s[1] \in Nat /\ s[1] + Len(s) <= NrPages
      BY <1>0, <2>1
    <2>3. ClaimedRange(flags, s) = s[1] .. s[1] + Len(s) - 1
      BY <1>0, <1>1, <2>2 DEF ClaimedRange, KrSetPhysicalPageStatus
    <2>4. ASSUME NEW p \in s[1] .. s[1] + Len(s) - 1
          PROVE  p \in Range(s)
      <3>1. (p - s[1]) + 1 \in 1 .. Len(s)
        BY <2>2, <1>0
      <3>2. s[(p - s[1]) + 1] = p
        BY <3>1, <2>1, <2>2
      <3> QED BY <3>1, <3>2, <1>0 DEF Range
    <2>5. ASSUME NEW i \in 1 .. Len(s)
          PROVE  s[i] \in s[1] .. s[1] + Len(s) - 1
      BY <1>0, <2>1, <2>2
    <2> QED BY <1>0, <2>3, <2>4, <2>5 DEF Range
  <1>2. CASE "DENSE" \notin flags
    <2>1. \A i \in DOMAIN s : KrSetPhysicalPageStatus(s[i], 1) = {s[i]}
      BY <1>0 DEF KrSetPhysicalPageStatus, Pages
    <2> QED BY <1>2, <2>1 DEF ClaimedRange, Range
  <1> QED BY <1>1, <1>2
----------------------------------------------------------------------------
(* Every page has a bit, and the values the calls reset to are in range. *)
LEMMA TypeFacts ==
  /\ NrPages \in Nat \ {0} /\ BitmapEnd \in Nat /\ Pages \subseteq Bits
  /\ Pages \subseteq 0 .. BitmapEnd /\ Pages \subseteq 0 .. NrPages
  /\ 0 \in 0 .. BitmapEnd /\ 0 \in 0 .. NrPages
  /\ <<>> \in Seq(Pages) /\ {} \in SUBSET Bits
  BY PmmAssumption, BitmapCoversPages DEF Pages, Bits

LEMMA AcquireCallStep ==
  ASSUME IInv, NEW c \in Cpus, AcquireCall(c)
  PROVE  IInv'
  <1> USE PmmAssumption DEF AcquireCall, Goto, shared, search
  <1>1. TypeOK'
    BY DEF IInv, TypeOK, PcValues
  <1>2. LockOwnership'
    BY DEF IInv, TypeOK, LockOwnership, HoldsLock
  <1>3. ExclusiveOwnership'
    BY DEF IInv, TypeOK, LockOwnership, HoldsLock, ExclusiveOwnership
  <1>4. BitmapMatchesOwnership'
    BY DEF IInv, TypeOK, LockOwnership, HoldsLock, BitmapMatchesOwnership
  <1>5. CollectedPages'
    BY DEF IInv, TypeOK, LockOwnership, HoldsLock, CollectedPages
  <1>6. DenseStreak'
    BY DEF IInv, TypeOK, DenseStreak, LockOwnership, HoldsLock
  <1>7. ArgumentHeld'
    BY DEF IInv, TypeOK, ArgumentHeld, ExclusiveOwnership
  <1> QED BY <1>1, <1>2, <1>3, <1>4, <1>5, <1>6, <1>7 DEF IInv

LEMMA AcquireLockStep ==
  ASSUME IInv, NEW c \in Cpus, AcquireLock(c)
  PROVE  IInv'
  <1> USE PmmAssumption DEF AcquireLock, Goto, shared, search, SearchStart, AcquireOrWaitSpinlock, KrIsValidPageID
  <1>1. TypeOK'
    <2>1. SearchStart(c) \in 0 .. NrPages /\ SearchStart(c) \in 0 .. BitmapEnd
      BY TypeFacts, BitmapCoversPages DEF IInv, TypeOK, NoRequest, Pages
    <2> QED BY <2>1 DEF IInv, TypeOK, PcValues
  <1>2. LockOwnership'
    BY DEF IInv, TypeOK, LockOwnership, HoldsLock
  <1>3. ExclusiveOwnership'
    BY DEF IInv, TypeOK, LockOwnership, HoldsLock, ExclusiveOwnership
  <1>4. BitmapMatchesOwnership'
    BY DEF IInv, TypeOK, LockOwnership, HoldsLock, BitmapMatchesOwnership
  <1>5. CollectedPages'
    BY RangeEmpty DEF IInv, TypeOK, CollectedPages, LockOwnership, HoldsLock
  <1>6. DenseStreak'
    BY DEF IInv, TypeOK, DenseStreak, CollectedPages, LockOwnership, HoldsLock
  <1>7. ArgumentHeld'
    BY DEF IInv, TypeOK, ArgumentHeld, ExclusiveOwnership
  <1> QED BY <1>1, <1>2, <1>3, <1>4, <1>5, <1>6, <1>7 DEF IInv

LEMMA HuntPageStep ==
  ASSUME IInv, NEW c \in Cpus, HuntPage(c)
  PROVE  IInv'
  <1> USE PmmAssumption DEF HuntPage, Goto, shared, search, HuntOver, Unavailable
  <1> DEFINE p == PageID[c]
  <1>a. p \in Bits
    BY TypeFacts, BitmapCoversPages DEF IInv, TypeOK, Bits, HuntOver
  <1>b. ~Unavailable(p) => p \in Pages /\ p \notin primary
    BY <1>a DEF IInv, BitmapMatchesOwnership, Unavailable
  <1>c. out[c] \in Seq(Pages)
    BY DEF IInv, TypeOK
  <1>d. /\ out'[c] \in Seq(Pages)
        /\ Range(out'[c]) \subseteq Range(out[c]) \cup (IF Unavailable(p) THEN {} ELSE {p})
    BY <1>b, <1>c, RangeAppend, RangeEmpty DEF IInv, TypeOK
  <1>1. TypeOK'
    BY <1>a, <1>d, BitmapCoversPages DEF IInv, TypeOK, Bits
  <1>2. LockOwnership'
    BY DEF IInv, TypeOK, LockOwnership, HoldsLock
  <1>3. ExclusiveOwnership'
    BY DEF IInv, TypeOK, LockOwnership, HoldsLock, ExclusiveOwnership
  <1>4. BitmapMatchesOwnership'
    BY DEF IInv, TypeOK, LockOwnership, HoldsLock, BitmapMatchesOwnership
  <1>5. CollectedPages'
    BY <1>b, <1>d DEF IInv, TypeOK, CollectedPages
  <1>6. DenseStreak'
    <2>1. ASSUME "DENSE" \in req[c].flags
          PROVE  /\ \A i \in DOMAIN out'[c] : out'[c][i] = out'[c][1] + (i - 1)
                 /\ out'[c] # <<>> => out'[c][Len(out'[c])] = PageID'[c] - 1
      <3>1. CASE Unavailable(p)
        <4>1. out'[c] = <<>>
          BY <2>1, <3>1 DEF IInv, TypeOK
        <4> QED BY <4>1
      <3>2. CASE ~Unavailable(p)
        <4>1. out'[c] = Append(out[c], p) /\ PageID'[c] = p + 1 /\ p \in Nat
          BY <3>2, <1>b DEF IInv, TypeOK, Pages
        <4>2. /\ \A i \in DOMAIN out[c] : out[c][i] = out[c][1] + (i - 1)
              /\ out[c] # <<>> => out[c][Len(out[c])] = p - 1
          BY <2>1 DEF IInv, DenseStreak
        <4>3. DOMAIN out[c] = 1 .. Len(out[c]) /\ Len(out[c]) \in Nat
          BY <1>c
        <4>4. \A i \in 1 .. Len(out[c]) : out[c][i] \in Nat
          BY <1>c, PmmAssumption DEF Pages
        <4>5. /\ Len(Append(out[c], p)) = Len(out[c]) + 1
              /\ \A i \in 1 .. Len(out[c]) : Append(out[c], p)[i] = out[c][i]
              /\ Append(out[c], p)[Len(out[c]) + 1] = p
              /\ DOMAIN Append(out[c], p) = 1 .. Len(out[c]) + 1
          BY <1>c, <3>2, <1>b
        <4>6. CASE out[c] = <<>>
          BY <4>1, <4>5, <4>6
        <4>7. CASE out[c] # <<>>
          <5>1. Len(out[c]) > 0
            BY <1>c, <4>7
          <5>2. p = out[c][1] + Len(out[c])
            <6>1. Len(out[c]) \in 1 .. Len(out[c]) /\ 1 \in 1 .. Len(out[c])
              BY <4>3, <5>1
            <6>2. out[c][Len(out[c])] = out[c][1] + (Len(out[c]) - 1) /\ out[c][1] \in Nat
              BY <4>2, <4>3, <4>4, <6>1
            <6> QED BY <4>1, <4>2, <4>3, <4>7, <6>2
          <5>3. ASSUME NEW i \in 1 .. Len(out[c]) + 1
                PROVE  Append(out[c], p)[i] = Append(out[c], p)[1] + (i - 1)
            <6>1. Append(out[c], p)[1] = out[c][1]
              BY <4>3, <4>5, <5>1
            <6>2. i \in 1 .. Len(out[c]) \/ i = Len(out[c]) + 1
              BY <4>3
            <6>3. CASE i \in 1 .. Len(out[c])
              BY <4>2, <4>3, <4>5, <6>1, <6>3
            <6>4. CASE i = Len(out[c]) + 1
              <7>1. i - 1 = Len(out[c])
                BY <4>3, <6>4
              <7> QED BY <4>5, <5>2, <6>1, <6>4, <7>1
            <6> QED BY <6>2, <6>3, <6>4
          <5> QED BY <4>1, <4>5, <5>3, <4>3
        <4> QED BY <4>6, <4>7
      <3> QED BY <3>1, <3>2
    <2> QED BY <2>1 DEF IInv, TypeOK, DenseStreak
  <1>7. ArgumentHeld'
    BY DEF IInv, TypeOK, ArgumentHeld, ExclusiveOwnership
  <1> QED BY <1>1, <1>2, <1>3, <1>4, <1>5, <1>6, <1>7 DEF IInv

LEMMA HuntRerollStep ==
  ASSUME IInv, NEW c \in Cpus, HuntReroll(c)
  PROVE  IInv'
  <1> USE PmmAssumption DEF HuntReroll, Goto, shared, search
  <1>1. TypeOK'
    BY TypeFacts, BitmapCoversPages DEF IInv, TypeOK, PcValues
  <1>2. LockOwnership'
    BY DEF IInv, TypeOK, LockOwnership, HoldsLock
  <1>3. ExclusiveOwnership'
    BY DEF IInv, TypeOK, LockOwnership, HoldsLock, ExclusiveOwnership
  <1>4. BitmapMatchesOwnership'
    BY DEF IInv, TypeOK, LockOwnership, HoldsLock, BitmapMatchesOwnership
  <1>5. CollectedPages'
    BY RangeEmpty DEF IInv, TypeOK, CollectedPages
  <1>6. DenseStreak'
    BY DEF IInv, TypeOK, DenseStreak, LockOwnership, HoldsLock
  <1>7. ArgumentHeld'
    BY DEF IInv, TypeOK, ArgumentHeld, ExclusiveOwnership
  <1> QED BY <1>1, <1>2, <1>3, <1>4, <1>5, <1>6, <1>7 DEF IInv

LEMMA HuntFailedStep ==
  ASSUME IInv, NEW c \in Cpus, HuntFailed(c)
  PROVE  IInv'
  <1> USE PmmAssumption DEF HuntFailed, Goto, shared, search
  <1>1. TypeOK'
    BY DEF IInv, TypeOK, PcValues
  <1>2. LockOwnership'
    BY DEF IInv, TypeOK, LockOwnership, HoldsLock
  <1>3. ExclusiveOwnership'
    BY DEF IInv, TypeOK, LockOwnership, HoldsLock, ExclusiveOwnership
  <1>4. BitmapMatchesOwnership'
    BY DEF IInv, TypeOK, LockOwnership, HoldsLock, BitmapMatchesOwnership
  <1>5. CollectedPages'
    BY DEF IInv, TypeOK, LockOwnership, HoldsLock, CollectedPages
  <1>6. DenseStreak'
    BY DEF IInv, TypeOK, DenseStreak, LockOwnership, HoldsLock
  <1>7. ArgumentHeld'
    BY DEF IInv, TypeOK, ArgumentHeld, ExclusiveOwnership
  <1> QED BY <1>1, <1>2, <1>3, <1>4, <1>5, <1>6, <1>7 DEF IInv

LEMMA ClaimStep ==
  ASSUME IInv, NEW c \in Cpus, Claim(c)
  PROVE  IInv'
  <1> USE PmmAssumption DEF Claim, Goto, shared, search
  <1>a. out[c] \in Seq(Pages) /\ out[c] # <<>> /\ pc[c] = "hunt"
    BY DEF IInv, TypeOK
  <1>b. primary' = primary \cup Range(out[c])
    BY <1>a, ClaimMarksOut DEF IInv, DenseStreak
  <1>c. Range(out[c]) \subseteq Pages
    BY <1>a, RangeType
  <1>d. Range(out[c]) \cap primary = {} /\ Range(out[c]) \subseteq FreeAtBoot
    BY <1>a, <1>c, TypeFacts DEF IInv, CollectedPages, BitmapMatchesOwnership
  <1>1. TypeOK'
    <2>1. Len(out[c]) \in DOMAIN out[c] /\ Len(out[c]) \in Nat /\ out[c][Len(out[c])] \in Pages
      BY <1>a
    <2>2. primary' \subseteq Bits
      BY <1>b, <1>c, TypeFacts DEF IInv, TypeOK
    <2>3. AcquireHint' \in 0 .. NrPages /\ AcquiredPages' \in Int
      BY <2>1, TypeFacts DEF IInv, TypeOK, Pages
    <2> QED BY <2>2, <2>3 DEF IInv, TypeOK, PcValues
  <1>2. LockOwnership'
    BY DEF IInv, TypeOK, LockOwnership, HoldsLock
  <1>3. ExclusiveOwnership'
    BY <1>a, <1>c, <1>d, TypeFacts DEF IInv, TypeOK, ExclusiveOwnership, BitmapMatchesOwnership
  <1>4. BitmapMatchesOwnership'
    BY <1>a, <1>b DEF IInv, TypeOK, BitmapMatchesOwnership
  <1>5. CollectedPages'
    BY <1>a, <1>d DEF IInv, TypeOK, CollectedPages, LockOwnership, HoldsLock
  <1>6. DenseStreak'
    BY DEF IInv, TypeOK, DenseStreak, LockOwnership, HoldsLock
  <1>7. ArgumentHeld'
    BY DEF IInv, TypeOK, ArgumentHeld, ExclusiveOwnership
  <1> QED BY <1>1, <1>2, <1>3, <1>4, <1>5, <1>6, <1>7 DEF IInv

LEMMA AcquireReturnStep ==
  ASSUME IInv, NEW c \in Cpus, AcquireReturn(c)
  PROVE  IInv'
  <1> USE PmmAssumption DEF AcquireReturn, Goto, shared, search, ForgetSearch, RelinquishSpinlock
  <1>1. TypeOK'
    <2>1. Range(out[c]) \subseteq Pages
      BY RangeType DEF IInv, TypeOK
    <2> QED BY <2>1, TypeFacts, BitmapCoversPages DEF IInv, TypeOK, PcValues
  <1>2. LockOwnership'
    BY DEF IInv, TypeOK, LockOwnership, HoldsLock
  <1>3. ExclusiveOwnership'
    BY DEF IInv, TypeOK, LockOwnership, HoldsLock, ExclusiveOwnership
  <1>4. BitmapMatchesOwnership'
    BY DEF IInv, TypeOK, LockOwnership, HoldsLock, BitmapMatchesOwnership
  <1>5. CollectedPages'
    BY DEF IInv, TypeOK, LockOwnership, HoldsLock, CollectedPages
  <1>6. DenseStreak'
    BY DEF IInv, TypeOK, DenseStreak, LockOwnership, HoldsLock
  <1>7. ArgumentHeld'
    BY DEF IInv, TypeOK, ArgumentHeld, CollectedPages
  <1> QED BY <1>1, <1>2, <1>3, <1>4, <1>5, <1>6, <1>7 DEF IInv

LEMMA ErrorOutStep ==
  ASSUME IInv, NEW c \in Cpus, ErrorOut(c)
  PROVE  IInv'
  <1> USE PmmAssumption DEF ErrorOut, Goto, shared, search, ForgetSearch, RelinquishSpinlock
  <1>1. TypeOK'
    BY TypeFacts, BitmapCoversPages DEF IInv, TypeOK, PcValues
  <1>2. LockOwnership'
    BY DEF IInv, TypeOK, LockOwnership, HoldsLock
  <1>3. ExclusiveOwnership'
    BY DEF IInv, TypeOK, LockOwnership, HoldsLock, ExclusiveOwnership
  <1>4. BitmapMatchesOwnership'
    BY DEF IInv, TypeOK, LockOwnership, HoldsLock, BitmapMatchesOwnership
  <1>5. CollectedPages'
    BY DEF IInv, TypeOK, LockOwnership, HoldsLock, CollectedPages
  <1>6. DenseStreak'
    BY DEF IInv, TypeOK, DenseStreak, LockOwnership, HoldsLock
  <1>7. ArgumentHeld'
    BY DEF IInv, TypeOK, ArgumentHeld, ExclusiveOwnership
  <1> QED BY <1>1, <1>2, <1>3, <1>4, <1>5, <1>6, <1>7 DEF IInv

LEMMA RelinquishCallStep ==
  ASSUME IInv, NEW c \in Cpus, RelinquishCall(c)
  PROVE  IInv'
  <1> USE PmmAssumption DEF RelinquishCall, Goto, shared, search, KrIsPhysicalPageReserved, KrIsValidPageID
  <1>1. TypeOK'
    BY TypeFacts, BitmapCoversPages DEF IInv, TypeOK, PcValues
  <1>2. LockOwnership'
    BY DEF IInv, TypeOK, LockOwnership, HoldsLock
  <1>3. ExclusiveOwnership'
    BY DEF IInv, TypeOK, LockOwnership, HoldsLock, ExclusiveOwnership
  <1>4. BitmapMatchesOwnership'
    BY DEF IInv, TypeOK, LockOwnership, HoldsLock, BitmapMatchesOwnership
  <1>5. CollectedPages'
    BY DEF IInv, TypeOK, LockOwnership, HoldsLock, CollectedPages
  <1>6. DenseStreak'
    BY DEF IInv, TypeOK, DenseStreak, LockOwnership, HoldsLock
  <1>7. ArgumentHeld'
    BY DEF IInv, TypeOK, ArgumentHeld, ExclusiveOwnership
  <1> QED BY <1>1, <1>2, <1>3, <1>4, <1>5, <1>6, <1>7 DEF IInv

LEMMA RelinquishLockStep ==
  ASSUME IInv, NEW c \in Cpus, RelinquishLock(c)
  PROVE  IInv'
  <1> USE PmmAssumption DEF RelinquishLock, Goto, shared, search, AcquireOrWaitSpinlock
  <1>1. TypeOK'
    BY DEF IInv, TypeOK, PcValues
  <1>2. LockOwnership'
    BY DEF IInv, TypeOK, LockOwnership, HoldsLock
  <1>3. ExclusiveOwnership'
    BY DEF IInv, TypeOK, LockOwnership, HoldsLock, ExclusiveOwnership
  <1>4. BitmapMatchesOwnership'
    BY DEF IInv, TypeOK, LockOwnership, HoldsLock, BitmapMatchesOwnership
  <1>5. CollectedPages'
    BY DEF IInv, TypeOK, LockOwnership, HoldsLock, CollectedPages
  <1>6. DenseStreak'
    BY DEF IInv, TypeOK, DenseStreak, LockOwnership, HoldsLock
  <1>7. ArgumentHeld'
    BY DEF IInv, TypeOK, ArgumentHeld, ExclusiveOwnership
  <1> QED BY <1>1, <1>2, <1>3, <1>4, <1>5, <1>6, <1>7 DEF IInv

LEMMA RelinquishClearStep ==
  ASSUME IInv, NEW c \in Cpus, RelinquishClear(c)
  PROVE  IInv'
  <1> USE PmmAssumption DEF RelinquishClear, Goto, shared, search
  <1>a. PageID[c] \in held[c] /\ PageID[c] \in FreeAtBoot /\ pc[c] = "relClear"
    BY DEF IInv, ArgumentHeld
  <1>b. \A d \in Cpus : d # c => PageID[c] \notin held[d] /\ held'[d] = held[d]
    BY <1>a DEF IInv, ExclusiveOwnership, TypeOK
  <1>c. \A d \in Cpus : pc[d] \notin {"hunt", "return"}
    BY <1>a DEF IInv, LockOwnership, HoldsLock
  <1>d. held'[c] \subseteq held[c]
    BY DEF IInv, TypeOK
  <1>1. TypeOK'
    <2>1. primary' \subseteq Bits /\ AcquiredPages' \in Int /\ held' \in [Cpus -> SUBSET Pages]
      <3>1. CASE PageID[c] \in primary
        <4>1. held[c] \ {PageID[c]} \in SUBSET Pages
          BY DEF IInv, TypeOK
        <4>2. held' \in [Cpus -> SUBSET Pages]
          BY <3>1, <4>1 DEF IInv, TypeOK
        <4>3. AcquiredPages' \in Int
          BY <3>1 DEF IInv, TypeOK
        <4> QED BY <3>1, <4>2, <4>3 DEF IInv, TypeOK
      <3>2. CASE PageID[c] \notin primary
        BY <3>2 DEF IInv, TypeOK
      <3> QED BY <3>1, <3>2
    <2> QED BY <2>1 DEF IInv, TypeOK, PcValues
  <1>2. LockOwnership'
    BY DEF IInv, TypeOK, LockOwnership, HoldsLock
  <1>3. ExclusiveOwnership'
    BY <1>b, <1>c, <1>d DEF IInv, TypeOK, ExclusiveOwnership
  <1>4. BitmapMatchesOwnership'
    <2>1. CASE PageID[c] \notin primary
      BY <2>1, <1>c DEF IInv, TypeOK, BitmapMatchesOwnership
    <2>2. CASE PageID[c] \in primary
      <3>1. primary' = primary \ {PageID[c]} /\ held'[c] = held[c] \ {PageID[c]}
        BY <2>2 DEF IInv, TypeOK
      <3>2. \A d \in Cpus : pc'[d] # "return"
        BY <1>c DEF IInv, TypeOK
      <3> QED BY <1>a, <1>b, <1>c, <3>1, <3>2 DEF IInv, BitmapMatchesOwnership
    <2> QED BY <2>1, <2>2
  <1>5. CollectedPages'
    BY DEF IInv, TypeOK, LockOwnership, HoldsLock, CollectedPages
  <1>6. DenseStreak'
    BY DEF IInv, TypeOK, DenseStreak, LockOwnership, HoldsLock
  <1>7. ArgumentHeld'
    BY <1>a, <1>b, <1>d DEF IInv, TypeOK, ArgumentHeld
  <1> QED BY <1>1, <1>2, <1>3, <1>4, <1>5, <1>6, <1>7 DEF IInv

LEMMA RelinquishReturnStep ==
  ASSUME IInv, NEW c \in Cpus, RelinquishReturn(c)
  PROVE  IInv'
  <1> USE PmmAssumption DEF RelinquishReturn, Goto, shared, search, RelinquishSpinlock
  <1>1. TypeOK'
    BY TypeFacts, BitmapCoversPages DEF IInv, TypeOK, PcValues
  <1>2. LockOwnership'
    BY DEF IInv, TypeOK, LockOwnership, HoldsLock
  <1>3. ExclusiveOwnership'
    BY DEF IInv, TypeOK, LockOwnership, HoldsLock, ExclusiveOwnership
  <1>4. BitmapMatchesOwnership'
    BY DEF IInv, TypeOK, LockOwnership, HoldsLock, BitmapMatchesOwnership
  <1>5. CollectedPages'
    BY DEF IInv, TypeOK, LockOwnership, HoldsLock, CollectedPages
  <1>6. DenseStreak'
    BY DEF IInv, TypeOK, DenseStreak, LockOwnership, HoldsLock
  <1>7. ArgumentHeld'
    BY DEF IInv, TypeOK, ArgumentHeld, ExclusiveOwnership
  <1> QED BY <1>1, <1>2, <1>3, <1>4, <1>5, <1>6, <1>7 DEF IInv

LEMMA ReserveCallStep ==
  ASSUME IInv, NEW c \in Cpus, ReserveCall(c)
  PROVE  IInv'
  <1> USE PmmAssumption DEF ReserveCall, Goto, shared, search, KrIsValidPageID
  <1>1. TypeOK'
    BY TypeFacts, BitmapCoversPages DEF IInv, TypeOK, PcValues, ByteOf
  <1>2. LockOwnership'
    BY DEF IInv, TypeOK, LockOwnership, HoldsLock
  <1>3. ExclusiveOwnership'
    BY DEF IInv, TypeOK, LockOwnership, HoldsLock, ExclusiveOwnership
  <1>4. BitmapMatchesOwnership'
    BY DEF IInv, TypeOK, LockOwnership, HoldsLock, BitmapMatchesOwnership
  <1>5. CollectedPages'
    BY DEF IInv, TypeOK, LockOwnership, HoldsLock, CollectedPages
  <1>6. DenseStreak'
    BY DEF IInv, TypeOK, DenseStreak, LockOwnership, HoldsLock
  <1>7. ArgumentHeld'
    BY DEF IInv, TypeOK, ArgumentHeld, ExclusiveOwnership
  <1> QED BY <1>1, <1>2, <1>3, <1>4, <1>5, <1>6, <1>7 DEF IInv

LEMMA ReserveStoreStep ==
  ASSUME IInv, NEW c \in Cpus, ReserveStore(c)
  PROVE  IInv'
  <1> USE PmmAssumption DEF ReserveStore, Goto, shared, search
  <1>a. PageID[c] \in held[c] /\ PageID[c] \in Pages /\ pc[c] = "rsvStore"
    BY DEF IInv, ArgumentHeld, TypeOK
  <1>b. \A p \in advisory' : p \in advisory \/ p \in byte[c] \/ p = PageID[c]
    OBVIOUS
  <1>1. TypeOK'
    BY <1>a, TypeFacts DEF IInv, TypeOK, PcValues
  <1>2. LockOwnership'
    BY DEF IInv, TypeOK, LockOwnership, HoldsLock
  <1>3. ExclusiveOwnership'
    BY DEF IInv, TypeOK, LockOwnership, HoldsLock, ExclusiveOwnership
  <1>4. BitmapMatchesOwnership'
    BY DEF IInv, TypeOK, LockOwnership, HoldsLock, BitmapMatchesOwnership
  <1>5. CollectedPages'
    BY DEF IInv, TypeOK, LockOwnership, HoldsLock, CollectedPages
  <1>6. DenseStreak'
    BY DEF IInv, TypeOK, DenseStreak, LockOwnership, HoldsLock
  <1>7. ArgumentHeld'
    BY DEF IInv, TypeOK, ArgumentHeld, ExclusiveOwnership
  <1> QED BY <1>1, <1>2, <1>3, <1>4, <1>5, <1>6, <1>7 DEF IInv

LEMMA ReserveCountStep ==
  ASSUME IInv, NEW c \in Cpus, ReserveCount(c)
  PROVE  IInv'
  <1> USE PmmAssumption DEF ReserveCount, Goto, shared, search
  <1>1. TypeOK'
    BY TypeFacts, BitmapCoversPages DEF IInv, TypeOK, PcValues
  <1>2. LockOwnership'
    BY DEF IInv, TypeOK, LockOwnership, HoldsLock
  <1>3. ExclusiveOwnership'
    BY DEF IInv, TypeOK, LockOwnership, HoldsLock, ExclusiveOwnership
  <1>4. BitmapMatchesOwnership'
    BY DEF IInv, TypeOK, LockOwnership, HoldsLock, BitmapMatchesOwnership
  <1>5. CollectedPages'
    BY DEF IInv, TypeOK, LockOwnership, HoldsLock, CollectedPages
  <1>6. DenseStreak'
    BY DEF IInv, TypeOK, DenseStreak, LockOwnership, HoldsLock
  <1>7. ArgumentHeld'
    BY DEF IInv, TypeOK, ArgumentHeld, ExclusiveOwnership
  <1> QED BY <1>1, <1>2, <1>3, <1>4, <1>5, <1>6, <1>7 DEF IInv

LEMMA SetHintStep ==
  ASSUME IInv, NEW c \in Cpus, SetHint(c)
  PROVE  IInv'
  <1> USE PmmAssumption DEF SetHint, Goto, shared, search, KrIsValidPageID
  <1>1. TypeOK'
    BY TypeFacts, BitmapCoversPages DEF IInv, TypeOK, PcValues
  <1>2. LockOwnership'
    BY DEF IInv, TypeOK, LockOwnership, HoldsLock
  <1>3. ExclusiveOwnership'
    BY DEF IInv, TypeOK, LockOwnership, HoldsLock, ExclusiveOwnership
  <1>4. BitmapMatchesOwnership'
    BY DEF IInv, TypeOK, LockOwnership, HoldsLock, BitmapMatchesOwnership
  <1>5. CollectedPages'
    BY DEF IInv, TypeOK, LockOwnership, HoldsLock, CollectedPages
  <1>6. DenseStreak'
    BY DEF IInv, TypeOK, DenseStreak, LockOwnership, HoldsLock
  <1>7. ArgumentHeld'
    BY DEF IInv, TypeOK, ArgumentHeld, ExclusiveOwnership
  <1> QED BY <1>1, <1>2, <1>3, <1>4, <1>5, <1>6, <1>7 DEF IInv

LEMMA InitIInv == Init => IInv
  <1> SUFFICES ASSUME Init PROVE IInv
    OBVIOUS
  <1> USE PmmAssumption DEF Init
  <1>1. TypeOK
    BY TypeFacts DEF TypeOK, PcValues
  <1>2. LockOwnership /\ ExclusiveOwnership
    BY DEF LockOwnership, HoldsLock, ExclusiveOwnership
  <1>3. BitmapMatchesOwnership
    BY DEF BitmapMatchesOwnership
  <1>4. CollectedPages /\ DenseStreak /\ ArgumentHeld
    BY DEF CollectedPages, DenseStreak, ArgumentHeld
  <1> QED BY <1>1, <1>2, <1>3, <1>4 DEF IInv

LEMMA StutterIInv == IInv /\ UNCHANGED vars => IInv'
  <1> SUFFICES ASSUME IInv, UNCHANGED vars PROVE IInv'
    OBVIOUS
  <1> USE DEF IInv, vars, shared, search
  <1>1. TypeOK'
    BY DEF TypeOK
  <1>2. LockOwnership' /\ ExclusiveOwnership' /\ BitmapMatchesOwnership'
    BY DEF LockOwnership, HoldsLock, ExclusiveOwnership, BitmapMatchesOwnership
  <1>3. CollectedPages' /\ DenseStreak' /\ ArgumentHeld'
    BY DEF CollectedPages, DenseStreak, ArgumentHeld
  <1> QED BY <1>1, <1>2, <1>3

LEMMA NextIInv == IInv /\ [Next]_vars => IInv'
  <1> SUFFICES ASSUME IInv, [Next]_vars PROVE IInv'
    OBVIOUS
  <1>1. CASE Next
    <2>1. PICK c \in Cpus : Calls(c) \/ Running(c)
      BY <1>1 DEF Next
    <2>2. CASE Calls(c)
      BY <2>2, AcquireCallStep, RelinquishCallStep, ReserveCallStep, SetHintStep DEF Calls
    <2>3. CASE Running(c)
      BY <2>3, AcquireLockStep, HuntPageStep, HuntRerollStep, HuntFailedStep, ClaimStep,
         AcquireReturnStep, ErrorOutStep, RelinquishLockStep, RelinquishClearStep,
         RelinquishReturnStep, ReserveStoreStep, ReserveCountStep DEF Running
    <2> QED BY <2>1, <2>2, <2>3
  <1>2. CASE UNCHANGED vars
    BY <1>2, StutterIInv
  <1> QED BY <1>1, <1>2

(* The inductive invariant holds in every reachable state. *)
LEMMA AlwaysIInv == Spec => []IInv
  BY InitIInv, NextIInv, PTL DEF Spec

(* Every page ID that PmAcquirePages returns, uses as a search position or *)
(* leaves as a hint is inside the bitmap, for any memory size, also one    *)
(* that is no multiple of the bitmap's byte.                               *)
THEOREM TypeCorrect == Spec => []TypeOK
  <1>1. IInv => TypeOK
    BY DEF IInv
  <1> QED BY <1>1, AlwaysIInv, PTL

(* sg_PmSpinlock is owned exactly by the CPU inside the critical section   *)
(* of PmAcquirePages or PmRelinquishPage.                                  *)
THEOREM MutualExclusion == Spec => []LockOwnership
  <1>1. IInv => LockOwnership
    BY DEF IInv
  <1> QED BY <1>1, AlwaysIInv, PTL

(* PmAcquirePages never hands a page to two CPUs.                          *)
THEOREM PagesAreExclusive == Spec => []ExclusiveOwnership
  <1>1. IInv => ExclusiveOwnership
    BY DEF IInv
  <1> QED BY <1>1, AlwaysIInv, PTL

(* The primary bitmap marks exactly the pages that are in use.             *)
THEOREM BitmapIsExact == Spec => []BitmapMatchesOwnership
  <1>1. IInv => BitmapMatchesOwnership
    BY DEF IInv
  <1> QED BY <1>1, AlwaysIInv, PTL

(* A DENSE acquisition returns contiguous pages, wraparound or not.        *)
THEOREM DenseAcquisition == Spec => []DenseIsContiguous
  <1>1. IInv => DenseIsContiguous
    BY DEF IInv, DenseStreak, DenseIsContiguous
  <1> QED BY <1>1, AlwaysIInv, PTL
----------------------------------------------------------------------------
(* Reservations.  The read-modify-write of the advisory byte is safe as    *)
(* long as one CPU reserves pages (the bootstrap CPU, in today's callers). *)

SingleReserver == \A c, d \in Reservers : c = d

(* The byte that was loaded is still the byte in memory, and a page being  *)
(* relinquished has not been reserved since the unlocked test.             *)
ReserveInv ==
  /\ \A c \in Cpus : pc[c] = "rsvStore" =>
        c \in Reservers /\ byte[c] = advisory \cap ByteOf(PageID[c])
  /\ \A c \in Cpus : pc[c] \in {"relLock", "relClear"} => PageID[c] \notin advisory

(* With one reserver the store sets one bit and clears none. *)
LEMMA ReserveStoreAdds ==
  ASSUME IInv, ReserveInv, NEW c \in Cpus, ReserveStore(c)
  PROVE  /\ advisory' = advisory \cup {PageID[c]}
         /\ PageID[c] \in held[c] /\ UNCHANGED held
  BY DEF IInv, ArgumentHeld, ReserveInv, ReserveStore, Goto

LEMMA NextReserveInv ==
  ASSUME SingleReserver, IInv, ReserveInv, [Next]_vars
  PROVE  ReserveInv'
  <1> USE PmmAssumption DEF Goto, shared, search
  <1> DEFINE
        Quiet == /\ advisory' = advisory
                 /\ \A d \in Cpus : pc'[d] = "rsvStore" =>
                      pc[d] = "rsvStore" /\ byte'[d] = byte[d] /\ PageID'[d] = PageID[d]
                 /\ \A d \in Cpus : pc'[d] \in {"relLock", "relClear"} =>
                      pc[d] \in {"relLock", "relClear"} /\ PageID'[d] = PageID[d]
  <1>1. CASE UNCHANGED vars
    BY <1>1 DEF ReserveInv, vars, ByteOf
  <1>2. ASSUME NEW c \in Cpus, ReserveStore(c) PROVE ReserveInv'
    <2>1. advisory' = advisory \cup {PageID[c]} /\ PageID[c] \in held[c] /\ c \in Reservers
      BY <1>2, ReserveStoreAdds DEF ReserveInv, ReserveStore
    <2>2. \A d \in Cpus : pc'[d] = "rsvStore" => FALSE
      BY <1>2, <2>1 DEF ReserveStore, ReserveInv, SingleReserver, IInv, TypeOK
    <2>3. \A d \in Cpus : pc'[d] \in {"relLock", "relClear"} => d # c /\ PageID[d] \in held[d] /\ PageID[d] \notin advisory
      BY <1>2 DEF ReserveStore, ReserveInv, IInv, TypeOK, ArgumentHeld
    <2> QED BY <1>2, <2>1, <2>2, <2>3 DEF ReserveStore, ReserveInv, IInv, ExclusiveOwnership
  <1>3. ASSUME NEW c \in Cpus, ReserveCall(c) PROVE ReserveInv'
    BY <1>3 DEF ReserveCall, ReserveInv, IInv, TypeOK, ByteOf
  <1>4. ASSUME NEW c \in Cpus, RelinquishCall(c) PROVE ReserveInv'
    <2>1. PageID'[c] \notin advisory
      BY <1>4, BitmapCoversPages DEF RelinquishCall, KrIsPhysicalPageReserved, KrIsValidPageID, IInv, TypeOK, Pages
    <2> QED BY <1>4, <2>1 DEF RelinquishCall, ReserveInv, IInv, TypeOK, ByteOf
  <1>a. ASSUME Quiet PROVE ReserveInv'
    BY <1>a DEF ReserveInv, ByteOf
  <1>5. ASSUME NEW c \in Cpus, RelinquishLock(c) \/ RelinquishClear(c) \/ RelinquishReturn(c)
        PROVE  ReserveInv'
    <2>1. CASE RelinquishLock(c)
      <3>1. Quiet
        BY <2>1 DEF RelinquishLock, IInv, TypeOK
      <3> QED BY <3>1, <1>a
    <2>2. CASE RelinquishClear(c)
      <3>1. Quiet
        BY <2>2 DEF RelinquishClear, IInv, TypeOK
      <3> QED BY <3>1, <1>a
    <2>3. CASE RelinquishReturn(c)
      <3>1. Quiet
        BY <2>3 DEF RelinquishReturn, IInv, TypeOK
      <3> QED BY <3>1, <1>a
    <2> QED BY <1>5, <2>1, <2>2, <2>3
  <1>6. ASSUME NEW c \in Cpus, ReserveCount(c) \/ SetHint(c) \/ AcquireCall(c)
        PROVE  ReserveInv'
    <2>1. CASE ReserveCount(c)
      <3>1. Quiet
        BY <2>1 DEF ReserveCount, IInv, TypeOK
      <3> QED BY <3>1, <1>a
    <2>2. CASE SetHint(c)
      <3>1. Quiet
        BY <2>2 DEF SetHint, IInv, TypeOK
      <3> QED BY <3>1, <1>a
    <2>3. CASE AcquireCall(c)
      <3>1. Quiet
        BY <2>3 DEF AcquireCall, IInv, TypeOK
      <3> QED BY <3>1, <1>a
    <2> QED BY <1>6, <2>1, <2>2, <2>3
  <1>7. ASSUME NEW c \in Cpus, AcquireLock(c) \/ HuntPage(c) \/ HuntReroll(c) \/ HuntFailed(c)
        PROVE  ReserveInv'
    <2>1. CASE AcquireLock(c)
      <3>1. Quiet
        BY <2>1 DEF AcquireLock, IInv, TypeOK
      <3> QED BY <3>1, <1>a
    <2>2. CASE HuntPage(c)
      <3>1. Quiet
        BY <2>2 DEF HuntPage, IInv, TypeOK
      <3> QED BY <3>1, <1>a
    <2>3. CASE HuntReroll(c)
      <3>1. Quiet
        BY <2>3 DEF HuntReroll, IInv, TypeOK
      <3> QED BY <3>1, <1>a
    <2>4. CASE HuntFailed(c)
      <3>1. Quiet
        BY <2>4 DEF HuntFailed, IInv, TypeOK
      <3> QED BY <3>1, <1>a
    <2> QED BY <1>7, <2>1, <2>2, <2>3, <2>4
  <1>8. ASSUME NEW c \in Cpus, Claim(c) \/ AcquireReturn(c) \/ ErrorOut(c)
        PROVE  ReserveInv'
    <2>1. CASE Claim(c)
      <3>1. Quiet
        BY <2>1 DEF Claim, IInv, TypeOK
      <3> QED BY <3>1, <1>a
    <2>2. CASE AcquireReturn(c)
      <3>1. Quiet
        BY <2>2 DEF AcquireReturn, ForgetSearch, IInv, TypeOK
      <3> QED BY <3>1, <1>a
    <2>3. CASE ErrorOut(c)
      <3>1. Quiet
        BY <2>3 DEF ErrorOut, ForgetSearch, IInv, TypeOK
      <3> QED BY <3>1, <1>a
    <2> QED BY <1>8, <2>1, <2>2, <2>3
  <1> QED BY <1>1, <1>2, <1>3, <1>4, <1>5, <1>6, <1>7, <1>8 DEF Next, Calls, Running

LEMMA AlwaysReserveInv ==
  ASSUME SingleReserver
  PROVE  Spec => [](IInv /\ ReserveInv)
  <1>1. Init => IInv /\ ReserveInv
    BY InitIInv DEF Init, ReserveInv
  <1>2. IInv /\ ReserveInv /\ [Next]_vars => (IInv /\ ReserveInv)'
    BY NextIInv, NextReserveInv
  <1> QED BY <1>1, <1>2, PTL DEF Spec

(* The three steps that are visible to the callers. *)
HandOut(c) == /\ pc[c] = "return" /\ UNCHANGED advisory
              /\ held' = [held EXCEPT ![c] = @ \cup Range(out[c])]

TakeBack(c) == /\ PageID[c] \in held[c] \ advisory /\ UNCHANGED advisory
               /\ held' = [held EXCEPT ![c] = @ \ {PageID[c]}]

Pin(c) == /\ PageID[c] \in held[c] /\ UNCHANGED held
          /\ advisory' = advisory \cup {PageID[c]}

VisibleStep == \E c \in Cpus : HandOut(c) \/ TakeBack(c) \/ Pin(c)

(* Every other step leaves the ownership and the reservations alone. *)
LEMMA StepKinds ==
  ASSUME IInv, ReserveInv, [Next]_vars
  PROVE  UNCHANGED <<held, advisory>> \/ VisibleStep
  <1>1. CASE UNCHANGED vars
    BY <1>1 DEF vars, shared
  <1>2. ASSUME NEW c \in Cpus, Calls(c) PROVE UNCHANGED <<held, advisory>>
    BY <1>2 DEF Calls, AcquireCall, RelinquishCall, ReserveCall, SetHint, shared
  <1>3. ASSUME NEW c \in Cpus, AcquireReturn(c) PROVE VisibleStep
    BY <1>3 DEF AcquireReturn, Goto, shared, VisibleStep, HandOut
  <1>4. ASSUME NEW c \in Cpus, RelinquishClear(c) PROVE UNCHANGED <<held, advisory>> \/ VisibleStep
    BY <1>4 DEF RelinquishClear, Goto, ReserveInv, IInv, ArgumentHeld, VisibleStep, TakeBack
  <1>5. ASSUME NEW c \in Cpus, ReserveStore(c) PROVE VisibleStep
    BY <1>5, ReserveStoreAdds DEF VisibleStep, Pin
  <1>6. ASSUME NEW c \in Cpus, AcquireLock(c) \/ HuntPage(c) \/ HuntReroll(c) \/ HuntFailed(c) \/ Claim(c)
        PROVE  UNCHANGED <<held, advisory>>
    BY <1>6 DEF AcquireLock, HuntPage, HuntReroll, HuntFailed, Claim, shared
  <1>7. ASSUME NEW c \in Cpus, ErrorOut(c) \/ RelinquishLock(c) \/ RelinquishReturn(c) \/ ReserveCount(c)
        PROVE  UNCHANGED <<held, advisory>>
    BY <1>7 DEF ErrorOut, RelinquishLock, RelinquishReturn, ReserveCount, shared
  <1> QED BY <1>1, <1>2, <1>3, <1>4, <1>5, <1>6, <1>7 DEF Next, Running

(* KrReservePhysicalPage is one-way when a single CPU reserves pages: no   *)
(* step clears an advisory bit or takes a reserved page from its holder.   *)
THEOREM ReservationsLast ==
  ASSUME SingleReserver
  PROVE  Spec => ReservationIsPermanent
  <1>1. IInv /\ ReserveInv /\ [Next]_vars =>
          [/\ advisory \subseteq advisory'
           /\ \A c \in Cpus : held[c] \cap advisory \subseteq held'[c]]_vars
    BY StepKinds DEF IInv, TypeOK, VisibleStep, HandOut, TakeBack, Pin
  <1> QED BY <1>1, AlwaysReserveInv, PTL DEF Spec, ReservationIsPermanent

(* With a single reserver the allocator implements PageAllocator: the      *)
(* bitmaps, the scan and the lock are invisible to its callers.            *)
THEOREM ImplementsPageAllocator ==
  ASSUME SingleReserver
  PROVE  Spec => AllocSpec
  <1> USE DEF Alloc!AllocInit, Alloc!AllocNext, Alloc!allocVars, Alloc!FreePages,
              Alloc!Acquire, Alloc!Relinquish, Alloc!Reserve
  <1>1. Init => Alloc!AllocInit
    BY DEF Init
  <1>2. IInv /\ ReserveInv /\ [Next]_vars => [Alloc!AllocNext]_(Alloc!allocVars)
    <2> SUFFICES ASSUME IInv, ReserveInv, [Next]_vars
                 PROVE  [Alloc!AllocNext]_(Alloc!allocVars)
      OBVIOUS
    <2>1. ASSUME NEW c \in Cpus, HandOut(c) PROVE Alloc!Acquire(c)
      <3>1. out[c] # <<>> /\ out[c] \in Seq(Pages) /\ Range(out[c]) \subseteq FreeAtBoot
        BY <2>1 DEF IInv, TypeOK, CollectedPages, HandOut
      <3>2. Range(out[c]) # {}
        <4>1. 1 \in DOMAIN out[c]
          BY <3>1
        <4> QED BY <4>1 DEF Range
      <3>3. \A d \in Cpus : Range(out[c]) \cap held[d] = {}
        BY <2>1 DEF IInv, ExclusiveOwnership, HandOut
      <3> QED BY <2>1, <3>1, <3>2, <3>3 DEF HandOut
    <2>2. ASSUME NEW c \in Cpus, TakeBack(c) PROVE Alloc!Relinquish(c)
      BY <2>2 DEF TakeBack
    <2>3. ASSUME NEW c \in Cpus, Pin(c) PROVE Alloc!Reserve(c)
      <3>1. PageID[c] \in FreeAtBoot
        BY <2>3 DEF IInv, ArgumentHeld, Pin
      <3> QED BY <2>3, <3>1 DEF Pin
    <2>4. CASE UNCHANGED <<held, advisory>>
      BY <2>4
    <2> QED BY <2>1, <2>2, <2>3, <2>4, StepKinds DEF VisibleStep
  <1> QED BY <1>1, <1>2, AlwaysReserveInv, PTL DEF Spec, AllocSpec, Alloc!AllocSpec
----------------------------------------------------------------------------
(* The counters.  PmAcquirePages adds the number of entries in pOutIDs to  *)
(* AcquiredPages, which is the number of pages as long as no entry appears *)
(* twice.  A SPARSE block that wraps around can list a page twice, so the  *)
(* count rests on what all callers do: several pages are asked for DENSE.  *)

BlocksAreDense == \A r \in Requests : r.n > 1 => "DENSE" \in r.flags

(* A call that is under way was not rejected, and collects no more pages   *)
(* than it asked for.                                                      *)
RequestInv ==
  \A c \in Cpus :
    /\ pc[c] \in {"acqLock", "hunt"} => req[c] \in Requests /\ req[c].n \in Nat \ {0}
    /\ pc[c] = "hunt" => Len(out[c]) <= req[c].n

LEMMA NextRequestInv ==
  ASSUME IInv, RequestInv, [Next]_vars
  PROVE  RequestInv'
  <1> USE PmmAssumption DEF Goto, shared, search, RequestInv
  <1> DEFINE
        Same(d) == /\ pc'[d] \in {"acqLock", "hunt"} => pc[d] = pc'[d] /\ req'[d] = req[d]
                   /\ pc'[d] = "hunt" => out'[d] = out[d]
  <1>a. ASSUME \A d \in Cpus : Same(d) PROVE RequestInv'
    BY <1>a
  <1>b. ASSUME NEW c \in Cpus, \A d \in Cpus \ {c} : Same(d), pc'[c] \notin {"acqLock", "hunt"}
        PROVE  RequestInv'
    BY <1>b
  <1>1. CASE UNCHANGED vars
    BY <1>1, <1>a DEF vars
  <1>2. ASSUME NEW c \in Cpus, AcquireCall(c) PROVE RequestInv'
    <2>1. PICK r \in Requests : ~Rejected(r) /\ req' = [req EXCEPT ![c] = r]
      BY <1>2 DEF AcquireCall
    <2>2. r.n \in Nat \ {0}
      BY <2>1 DEF Rejected
    <2>3. pc' = [pc EXCEPT ![c] = "acqLock"] /\ out' = out
      BY <1>2 DEF AcquireCall
    <2> QED BY <2>1, <2>2, <2>3 DEF IInv, TypeOK
  <1>3. ASSUME NEW c \in Cpus, AcquireLock(c) PROVE RequestInv'
    <2>1. /\ pc[c] = "acqLock" /\ req' = req /\ out' = out
          /\ \A d \in Cpus \ {c} : pc'[d] = pc[d]
      BY <1>3 DEF AcquireLock, IInv, TypeOK
    <2>2. out[c] = <<>>
      BY <2>1 DEF IInv, CollectedPages
    <2> QED BY <2>1, <2>2
  <1>4. ASSUME NEW c \in Cpus, HuntPage(c) PROVE RequestInv'
    <2>1. /\ pc[c] = "hunt" /\ pc' = pc /\ req' = req /\ ~ (Len(out[c]) >= req[c].n)
          /\ \A d \in Cpus \ {c} : out'[d] = out[d]
          /\ \/ out'[c] = Append(out[c], PageID[c]) \/ out'[c] = <<>> \/ out'[c] = out[c]
      BY <1>4 DEF HuntPage, HuntOver, IInv, TypeOK
    <2>2. out[c] \in Seq(Pages) /\ Len(out[c]) \in Nat
      BY DEF IInv, TypeOK
    <2>3. Len(out'[c]) <= req[c].n
      BY <2>1, <2>2
    <2> QED BY <2>1, <2>3
  <1>5. ASSUME NEW c \in Cpus, HuntReroll(c) PROVE RequestInv'
    <2>1. /\ pc[c] = "hunt" /\ pc' = pc /\ req' = req /\ \A d \in Cpus \ {c} : out'[d] = out[d]
          /\ out'[c] = <<>> \/ out'[c] = out[c]
      BY <1>5 DEF HuntReroll, IInv, TypeOK
    <2> QED BY <2>1
  <1>6. ASSUME NEW c \in Cpus, HuntFailed(c) \/ Claim(c) PROVE RequestInv'
    <2>1. \A d \in Cpus \ {c} : Same(d)
      BY <1>6 DEF HuntFailed, Claim, IInv, TypeOK
    <2>2. pc'[c] \notin {"acqLock", "hunt"}
      BY <1>6 DEF HuntFailed, Claim, IInv, TypeOK
    <2> QED BY <2>1, <2>2, <1>b
  <1>7. ASSUME NEW c \in Cpus, AcquireReturn(c) \/ ErrorOut(c) PROVE RequestInv'
    <2>1. \A d \in Cpus \ {c} : Same(d)
      BY <1>7 DEF AcquireReturn, ErrorOut, ForgetSearch, IInv, TypeOK
    <2>2. pc'[c] \notin {"acqLock", "hunt"}
      BY <1>7 DEF AcquireReturn, ErrorOut, IInv, TypeOK
    <2> QED BY <2>1, <2>2, <1>b
  <1>8. ASSUME NEW c \in Cpus, RelinquishCall(c) \/ RelinquishLock(c) \/ RelinquishClear(c) \/ RelinquishReturn(c)
        PROVE  RequestInv'
    <2>1. \A d \in Cpus : Same(d)
      BY <1>8 DEF RelinquishCall, RelinquishLock, RelinquishClear, RelinquishReturn, IInv, TypeOK
    <2> QED BY <2>1, <1>a
  <1>9. ASSUME NEW c \in Cpus, ReserveCall(c) \/ ReserveStore(c) \/ ReserveCount(c) \/ SetHint(c)
        PROVE  RequestInv'
    <2>1. \A d \in Cpus : Same(d)
      BY <1>9 DEF ReserveCall, ReserveStore, ReserveCount, SetHint, IInv, TypeOK
    <2> QED BY <2>1, <1>a
  <1> QED BY <1>1, <1>2, <1>3, <1>4, <1>5, <1>6, <1>7, <1>8, <1>9 DEF Next, Calls, Running

(* The steps that acquire or relinquish pages. *)
LEMMA PrimaryKept ==
  ASSUME [Next]_vars
  PROVE  \/ UNCHANGED <<primary, AcquiredPages>>
         \/ \E c \in Cpus : Claim(c) \/ RelinquishClear(c)
  <1> USE DEF shared
  <1>1. CASE UNCHANGED vars
    BY <1>1 DEF vars
  <1>2. ASSUME NEW c \in Cpus, Calls(c) PROVE UNCHANGED <<primary, AcquiredPages>>
    BY <1>2 DEF Calls, AcquireCall, RelinquishCall, ReserveCall, SetHint
  <1>3. ASSUME NEW c \in Cpus, AcquireLock(c) \/ HuntPage(c) \/ HuntReroll(c) \/ HuntFailed(c) \/ AcquireReturn(c)
        PROVE  UNCHANGED <<primary, AcquiredPages>>
    BY <1>3 DEF AcquireLock, HuntPage, HuntReroll, HuntFailed, AcquireReturn
  <1>4. ASSUME NEW c \in Cpus, ErrorOut(c) \/ RelinquishLock(c) \/ RelinquishReturn(c) \/ ReserveStore(c) \/ ReserveCount(c)
        PROVE  UNCHANGED <<primary, AcquiredPages>>
    BY <1>4 DEF ErrorOut, RelinquishLock, RelinquishReturn, ReserveStore, ReserveCount
  <1> QED BY <1>1, <1>2, <1>3, <1>4 DEF Next, Running

LEMMA BootPagesFinite ==
  ASSUME NEW S
  PROVE  IsFiniteSet(S \cap FreeAtBoot) /\ Cardinality(S \cap FreeAtBoot) \in Nat
  <1>1. IsFiniteSet(Pages)
    BY PmmAssumption, FS_Interval DEF Pages
  <1>2. S \cap FreeAtBoot \in SUBSET Pages
    BY PmmAssumption
  <1>3. IsFiniteSet(S \cap FreeAtBoot)
    BY <1>1, <1>2, FS_Subset
  <1> QED BY <1>3, FS_CardinalityType

(* A contiguous run of pages is as long as it is large. *)
LEMMA RunCounted ==
  ASSUME NEW s \in Seq(Pages), s # <<>>, \A i \in DOMAIN s : s[i] = s[1] + (i - 1)
  PROVE  IsFiniteSet(Range(s)) /\ Cardinality(Range(s)) = Len(s)
  <1> DEFINE b == s[1] + Len(s) - 1
  <1>0. Len(s) \in Nat \ {0} /\ DOMAIN s = 1 .. Len(s)
    OBVIOUS
  <1>1. \A i \in 1 .. Len(s) : s[i] = s[1] + (i - 1) /\ s[i] \in 0 .. NrPages - 1
    <2>1. \A i \in 1 .. Len(s) : s[i] = s[1] + (i - 1)
      BY <1>0
    <2>2. \A i \in 1 .. Len(s) : s[i] \in Pages
      OBVIOUS
    <2> QED BY <2>1, <2>2 DEF Pages
  <1>2. s[1] \in Nat /\ s[1] + Len(s) <= NrPages
    BY <1>0, <1>1, PmmAssumption
  <1>3. Range(s) = s[1] .. b
    <2>1. ClaimedRange({"DENSE"}, s) = Range(s)
      BY ClaimMarksOut
    <2>2. ClaimedRange({"DENSE"}, s) = KrSetPhysicalPageStatus(s[1], Len(s))
      BY DEF ClaimedRange
    <2>3. KrSetPhysicalPageStatus(s[1], Len(s)) = s[1] .. b
      BY <1>0, <1>2, PmmAssumption DEF KrSetPhysicalPageStatus
    <2> QED BY <2>1, <2>2, <2>3
  <1>4. b \in Int /\ s[1] \in Int /\ s[1] <= b /\ b - s[1] + 1 = Len(s)
    BY <1>0, <1>2
  <1> HIDE DEF b
  <1>5. IsFiniteSet(s[1] .. b) /\ Cardinality(s[1] .. b) = IF s[1] > b THEN 0 ELSE b - s[1] + 1
    BY <1>4, FS_Interval
  <1> QED BY <1>0, <1>3, <1>4, <1>5

(* What a claim adds to AcquiredPages is the number of pages it marks. *)
LEMMA OutCounted ==
  ASSUME BlocksAreDense, IInv, RequestInv, NEW c \in Cpus, pc[c] = "hunt", out[c] # <<>>
  PROVE  /\ IsFiniteSet(Range(out[c])) /\ Cardinality(Range(out[c])) = Len(out[c])
         /\ ClaimedRange(req[c].flags, out[c]) = Range(out[c])
  <1> DEFINE s == out[c]
  <1>1. s \in Seq(Pages) /\ Len(s) \in Nat \ {0} /\ DOMAIN s = 1 .. Len(s)
    BY DEF IInv, TypeOK
  <1>2. "DENSE" \in req[c].flags => \A i \in DOMAIN s : s[i] = s[1] + (i - 1)
    BY DEF IInv, DenseStreak
  <1>3. s # <<>> /\ Len(s) <= req[c].n /\ req[c] \in Requests /\ req[c].n \in Nat
    BY DEF RequestInv
  <1>4. CASE "DENSE" \in req[c].flags
    BY <1>1, <1>2, <1>3, <1>4, RunCounted, ClaimMarksOut
  <1>5. CASE "DENSE" \notin req[c].flags
    <2>1. ~ (req[c].n > 1)
      BY <1>3, <1>5 DEF BlocksAreDense
    <2> HIDE DEF s
    <2>2. Len(s) = 1
      BY <1>1, <1>3, <2>1
    <2>3. \A i \in DOMAIN s : s[i] = s[1] + (i - 1)
      <3>1. s[1] \in Int /\ DOMAIN s = {1}
        BY <1>1, <2>2, PmmAssumption DEF Pages
      <3> QED BY <3>1
    <2>4. IsFiniteSet(Range(s)) /\ Cardinality(Range(s)) = Len(s)
      BY <1>1, <1>3, <2>3, RunCounted
    <2>5. ClaimedRange(req[c].flags, s) = Range(s)
      BY <1>1, <1>3, <2>3, ClaimMarksOut
    <2> QED BY <2>4, <2>5 DEF s
  <1> QED BY <1>4, <1>5

LEMMA NextAcquiredPages ==
  ASSUME BlocksAreDense, IInv, RequestInv, AcquiredPagesExact, [Next]_vars
  PROVE  AcquiredPagesExact'
  <1> DEFINE S == primary \cap FreeAtBoot
  <1>0. IsFiniteSet(S) /\ Cardinality(S) \in Nat /\ AcquiredPages = Cardinality(S)
    BY BootPagesFinite DEF AcquiredPagesExact
  <1>1. CASE UNCHANGED <<primary, AcquiredPages>>
    BY <1>1 DEF AcquiredPagesExact
  <1>2. ASSUME NEW c \in Cpus, Claim(c) PROVE AcquiredPagesExact'
    <2> DEFINE R == Range(out[c])
    <2>1. /\ pc[c] = "hunt" /\ out[c] # <<>> /\ AcquiredPages' = AcquiredPages + Len(out[c])
          /\ primary' = primary \cup ClaimedRange(req[c].flags, out[c])
      BY <1>2 DEF Claim, Goto
    <2>2. IsFiniteSet(R) /\ Cardinality(R) = Len(out[c]) /\ primary' = primary \cup R
      BY <2>1, OutCounted
    <2>3. R \cap primary = {} /\ R \subseteq Bits
      BY <2>1, RangeType, TypeFacts DEF IInv, CollectedPages, TypeOK
    <2>4. R \subseteq FreeAtBoot
      BY <2>3 DEF IInv, BitmapMatchesOwnership
    <2>5. primary' \cap FreeAtBoot = S \cup R /\ S \cap R = {}
      BY <2>2, <2>3, <2>4
    <2> HIDE DEF S, R
    <2>6. Cardinality(S \cup R) = Cardinality(S) + Cardinality(R) - Cardinality(S \cap R)
      BY <1>0, <2>2, FS_Union
    <2>7. Cardinality(S \cap R) = 0
      BY <2>5, FS_EmptySet
    <2>8. Len(out[c]) \in Nat
      BY DEF IInv, TypeOK
    <2>9. Cardinality(primary' \cap FreeAtBoot) = AcquiredPages + Len(out[c])
      <3>1. Cardinality(primary' \cap FreeAtBoot) = Cardinality(S \cup R)
        BY <2>5
      <3> QED BY <1>0, <2>2, <2>6, <2>7, <2>8, <3>1
    <2> QED BY <2>1, <2>9 DEF AcquiredPagesExact
  <1>3. ASSUME NEW c \in Cpus, RelinquishClear(c) PROVE AcquiredPagesExact'
    <2>1. CASE PageID[c] \notin primary
      BY <1>1, <1>3, <2>1 DEF RelinquishClear
    <2>2. CASE PageID[c] \in primary
      <3>1. primary' = primary \ {PageID[c]} /\ AcquiredPages' = AcquiredPages - 1
        BY <1>3, <2>2 DEF RelinquishClear
      <3>2. PageID[c] \in FreeAtBoot
        BY <1>3 DEF RelinquishClear, Goto, IInv, ArgumentHeld
      <3>3. primary' \cap FreeAtBoot = S \ {PageID[c]} /\ PageID[c] \in S
        BY <2>2, <3>1, <3>2
      <3> HIDE DEF S
      <3>4. Cardinality(S \ {PageID[c]}) = Cardinality(S) - 1
        BY <1>0, <3>3, FS_RemoveElement
      <3> QED BY <1>0, <3>1, <3>3, <3>4 DEF AcquiredPagesExact
    <2> QED BY <2>1, <2>2
  <1> QED BY <1>1, <1>2, <1>3, PrimaryKept

(* The reservations and their count, with one reserver: the page is not    *)
(* reserved before the store, the counter is still the one that was        *)
(* loaded, and a reserved page is an acquired one.                         *)
ReservationInv ==
  /\ \A c \in Cpus : pc[c] = "rsvStore" => PageID[c] \notin advisory
  /\ \A c \in Cpus : pc[c] = "rsvCount" => c \in Reservers /\ count[c] = UnusablePages
  /\ ReservedIsAcquired

Counting == {c \in Cpus : pc[c] = "rsvCount"}

LEMMA NextReservationInv ==
  ASSUME SingleReserver, IInv, ReserveInv, ReservationInv, [Next]_vars
  PROVE  ReservationInv'
  <1> USE PmmAssumption DEF Goto, shared, search
  <1> DEFINE S == advisory \cap FreeAtBoot
             Quiet == /\ advisory' = advisory /\ UnusablePages' = UnusablePages
                      /\ advisory \subseteq primary'
                      /\ \A d \in Cpus : /\ pc'[d] = "rsvStore" => pc[d] = "rsvStore" /\ PageID'[d] = PageID[d]
                                         /\ (pc'[d] = "rsvCount") = (pc[d] = "rsvCount")
                                         /\ pc'[d] = "rsvCount" => count'[d] = count[d]
  <1>0. IsFiniteSet(S) /\ Cardinality(S) \in Nat
    BY BootPagesFinite
  <1>x. /\ advisory \subseteq primary /\ UnusablePages \in Nat
        /\ UnusablePages + Cardinality(Counting) = Cardinality(S)
    BY DEF ReservationInv, ReservedIsAcquired, IInv, TypeOK, Counting
  <1>a. ASSUME Quiet PROVE ReservationInv'
    <2>1. Counting' = Counting
      BY <1>a DEF Counting
    <2>2. ReservedIsAcquired'
      <3>1. UnusablePages' + Cardinality(Counting') = Cardinality(advisory' \cap FreeAtBoot)
        BY <1>a, <1>x, <2>1
      <3> QED BY <1>a, <3>1 DEF ReservedIsAcquired, Counting
    <2>3. \A d \in Cpus : pc'[d] = "rsvStore" => PageID'[d] \notin advisory'
      BY <1>a DEF ReservationInv
    <2>4. \A d \in Cpus : pc'[d] = "rsvCount" => d \in Reservers /\ count'[d] = UnusablePages'
      BY <1>a DEF ReservationInv
    <2> QED BY <2>2, <2>3, <2>4 DEF ReservationInv
  <1>1. CASE UNCHANGED vars
    <2>1. Quiet
      BY <1>1, <1>x DEF vars
    <2> QED BY <2>1, <1>a
  <1>2. ASSUME NEW c \in Cpus, ReserveCall(c) PROVE ReservationInv'
    <2>1. /\ PageID'[c] \notin advisory /\ pc' = [pc EXCEPT ![c] = "rsvStore"] /\ pc[c] = "idle"
          /\ advisory' = advisory /\ UnusablePages' = UnusablePages /\ primary' = primary /\ count' = count
          /\ \A d \in Cpus \ {c} : PageID'[d] = PageID[d]
      BY <1>2 DEF ReserveCall, IInv, TypeOK
    <2>2. Counting' = Counting
      BY <2>1 DEF Counting, IInv, TypeOK
    <2>3. ReservedIsAcquired'
      <3>1. UnusablePages' + Cardinality(Counting') = Cardinality(advisory' \cap FreeAtBoot)
        BY <1>x, <2>1, <2>2
      <3> QED BY <1>x, <2>1, <3>1 DEF ReservedIsAcquired, Counting
    <2>4. \A d \in Cpus : pc'[d] = "rsvStore" => PageID'[d] \notin advisory'
      BY <2>1 DEF ReservationInv, IInv, TypeOK
    <2>5. \A d \in Cpus : pc'[d] = "rsvCount" => d \in Reservers /\ count'[d] = UnusablePages'
      BY <2>1 DEF ReservationInv, IInv, TypeOK
    <2> QED BY <2>3, <2>4, <2>5 DEF ReservationInv
  <1>3. ASSUME NEW c \in Cpus, ReserveStore(c) PROVE ReservationInv'
    <2>1. /\ advisory' = advisory \cup {PageID[c]} /\ PageID[c] \in held[c] /\ c \in Reservers
          /\ PageID[c] \notin advisory /\ pc[c] = "rsvStore"
      BY <1>3, ReserveStoreAdds DEF ReserveInv, ReservationInv, ReserveStore
    <2>2. /\ pc' = [pc EXCEPT ![c] = "rsvCount"] /\ count' = [count EXCEPT ![c] = UnusablePages]
          /\ UnusablePages' = UnusablePages /\ primary' = primary
      BY <1>3 DEF ReserveStore
    <2>3. PageID[c] \in FreeAtBoot /\ PageID[c] \in primary
      <3>1. PageID[c] \in FreeAtBoot /\ PageID[c] \in Bits
        BY <2>1, TypeFacts DEF IInv, ArgumentHeld, TypeOK
      <3> QED BY <2>1, <3>1 DEF IInv, BitmapMatchesOwnership
    <2>4. Counting = {}
      BY <2>1 DEF Counting, ReservationInv, SingleReserver
    <2>5. Counting' = {c}
      BY <2>2, <2>4 DEF Counting, IInv, TypeOK
    <2>6. advisory' \cap FreeAtBoot = S \cup {PageID[c]} /\ PageID[c] \notin S
      BY <2>1, <2>3
    <2>7. ReservedIsAcquired'
      <3> HIDE DEF S
      <3>1. Cardinality(S \cup {PageID[c]}) = Cardinality(S) + 1
        BY <1>0, <2>6, FS_AddElement
      <3>2. Cardinality(Counting) = 0 /\ Cardinality(Counting') = 1
        BY <2>4, <2>5, FS_EmptySet, FS_Singleton
      <3>3. Cardinality(advisory' \cap FreeAtBoot) = Cardinality(S \cup {PageID[c]})
        BY <2>6
      <3>4. UnusablePages' + Cardinality(Counting') = Cardinality(advisory' \cap FreeAtBoot)
        BY <1>0, <1>x, <2>2, <3>1, <3>2, <3>3
      <3> QED BY <1>x, <2>1, <2>2, <2>3, <3>4 DEF ReservedIsAcquired, Counting
    <2>8. \A d \in Cpus : pc'[d] = "rsvStore" => FALSE
      BY <2>1, <2>2 DEF ReserveInv, SingleReserver, IInv, TypeOK
    <2>9. \A d \in Cpus : pc'[d] = "rsvCount" => d \in Reservers /\ count'[d] = UnusablePages'
      BY <2>1, <2>2, <2>4 DEF Counting, IInv, TypeOK
    <2> QED BY <2>7, <2>8, <2>9 DEF ReservationInv
  <1>4. ASSUME NEW c \in Cpus, ReserveCount(c) PROVE ReservationInv'
    <2>1. /\ pc[c] = "rsvCount" /\ pc' = [pc EXCEPT ![c] = "idle"] /\ UnusablePages' = count[c] + 1
          /\ advisory' = advisory /\ primary' = primary /\ count' = [count EXCEPT ![c] = 0]
          /\ PageID' = [PageID EXCEPT ![c] = 0]
      BY <1>4 DEF ReserveCount
    <2>2. c \in Reservers /\ count[c] = UnusablePages /\ Counting = {c}
      BY <2>1 DEF ReservationInv, SingleReserver, Counting
    <2>3. Counting' = {}
      BY <2>1, <2>2 DEF Counting, IInv, TypeOK
    <2>4. ReservedIsAcquired'
      <3>1. Cardinality(Counting) = 1 /\ Cardinality(Counting') = 0
        BY <2>2, <2>3, FS_EmptySet, FS_Singleton
      <3>2. UnusablePages' + Cardinality(Counting') = Cardinality(advisory' \cap FreeAtBoot)
        BY <1>0, <1>x, <2>1, <2>2, <3>1
      <3> QED BY <1>x, <2>1, <3>2 DEF ReservedIsAcquired, Counting
    <2>5. \A d \in Cpus : pc'[d] = "rsvStore" => PageID'[d] \notin advisory'
      BY <2>1 DEF ReservationInv, IInv, TypeOK
    <2>6. \A d \in Cpus : pc'[d] = "rsvCount" => FALSE
      BY <2>3 DEF Counting
    <2> QED BY <2>4, <2>5, <2>6 DEF ReservationInv
  <1>5. ASSUME NEW c \in Cpus, RelinquishClear(c) PROVE ReservationInv'
    <2>1. PageID[c] \notin advisory
      BY <1>5 DEF RelinquishClear, ReserveInv
    <2>2. Quiet
      BY <1>5, <1>x, <2>1 DEF RelinquishClear, IInv, TypeOK
    <2> QED BY <2>2, <1>a
  <1>6. ASSUME NEW c \in Cpus, RelinquishCall(c) \/ RelinquishLock(c) \/ RelinquishReturn(c) \/ SetHint(c)
        PROVE  ReservationInv'
    <2>1. Quiet
      BY <1>6, <1>x DEF RelinquishCall, RelinquishLock, RelinquishReturn, SetHint, IInv, TypeOK
    <2> QED BY <2>1, <1>a
  <1>7. ASSUME NEW c \in Cpus, AcquireCall(c) \/ AcquireLock(c) \/ HuntPage(c) \/ HuntReroll(c)
        PROVE  ReservationInv'
    <2>1. Quiet
      BY <1>7, <1>x DEF AcquireCall, AcquireLock, HuntPage, HuntReroll, IInv, TypeOK
    <2> QED BY <2>1, <1>a
  <1>8. ASSUME NEW c \in Cpus, HuntFailed(c) \/ Claim(c) PROVE ReservationInv'
    <2>1. Quiet
      BY <1>8, <1>x DEF HuntFailed, Claim, IInv, TypeOK
    <2> QED BY <2>1, <1>a
  <1>9. ASSUME NEW c \in Cpus, AcquireReturn(c) \/ ErrorOut(c) PROVE ReservationInv'
    <2>1. Quiet
      BY <1>9, <1>x DEF AcquireReturn, ErrorOut, ForgetSearch, IInv, TypeOK
    <2> QED BY <2>1, <1>a
  <1> QED BY <1>1, <1>2, <1>3, <1>4, <1>5, <1>6, <1>7, <1>8, <1>9 DEF Next, Calls, Running

LEMMA InitCounters ==
  Init => RequestInv /\ AcquiredPagesExact /\ ReservationInv /\ ReserveInv
  <1> SUFFICES ASSUME Init PROVE RequestInv /\ AcquiredPagesExact /\ ReservationInv /\ ReserveInv
    OBVIOUS
  <1>1. primary \cap FreeAtBoot = {} /\ advisory \cap FreeAtBoot = {} /\ {c \in Cpus : pc[c] = "rsvCount"} = {}
    BY DEF Init
  <1>2. AcquiredPagesExact
    BY <1>1, FS_EmptySet DEF Init, AcquiredPagesExact
  <1>3. ReservedIsAcquired
    <2>1. /\ Cardinality(advisory \cap FreeAtBoot) = 0
          /\ Cardinality({c \in Cpus : pc[c] = "rsvCount"}) = 0
      BY <1>1, FS_EmptySet
    <2>2. UnusablePages = 0 /\ advisory = primary
      BY DEF Init
    <2> QED BY <2>1, <2>2 DEF ReservedIsAcquired
  <1> QED BY <1>2, <1>3 DEF Init, RequestInv, ReservationInv, ReserveInv

LEMMA AlwaysReservationInv ==
  ASSUME SingleReserver
  PROVE  Spec => [](IInv /\ ReserveInv /\ ReservationInv /\ RequestInv)
  <1>1. Init => IInv /\ ReserveInv /\ ReservationInv /\ RequestInv
    BY InitIInv, InitCounters
  <1>2. IInv /\ ReserveInv /\ ReservationInv /\ RequestInv /\ [Next]_vars
          => (IInv /\ ReserveInv /\ ReservationInv /\ RequestInv)'
    BY NextIInv, NextReserveInv, NextReservationInv, NextRequestInv
  <1> QED BY <1>1, <1>2, PTL DEF Spec

(* The lock, AcquiredPages, UnusablePages and the two bitmaps agree after  *)
(* any interleaving of the calls, when one CPU reserves pages and blocks   *)
(* are asked for DENSE, as all callers do.                                 *)
THEOREM BookkeepingExact ==
  ASSUME SingleReserver, BlocksAreDense
  PROVE  Spec => []BookkeepingIsExact
  <1>1. Init => AcquiredPagesExact
    BY InitCounters
  <1>2. IInv /\ RequestInv /\ AcquiredPagesExact /\ [Next]_vars => AcquiredPagesExact'
    BY NextAcquiredPages
  <1>3. IInv /\ ReservationInv /\ AcquiredPagesExact => BookkeepingIsExact
    BY DEF IInv, ReservationInv, BookkeepingIsExact
  <1> QED BY <1>1, <1>2, <1>3, AlwaysReservationInv, PTL DEF Spec
----------------------------------------------------------------------------
(* The search.  While the lock is held no page becomes free, so the pages  *)
(* that a SPARSE search has passed without finding any are still taken:    *)
(* from the start on before the wraparound, and after it also those before *)
(* the search position.                                                    *)

Seen(c) == {p \in Pages : IF bIsReroll[c] THEN p >= start[c] \/ p < PageID[c]
                                          ELSE p >= start[c] /\ p < PageID[c]}

SearchInv ==
  /\ \A c \in Cpus : pc[c] = "hunt" /\ "DENSE" \notin req[c].flags /\ out[c] = <<>>
                       => Seen(c) \subseteq primary
  /\ \A c \in Cpus : pc[c] = "error" /\ KrIsValidPageID(start[c]) /\ "DENSE" \notin req[c].flags
                       => Pages \subseteq primary
  /\ \A c \in Cpus : pc[c] \notin {"hunt", "error", "return"} => ~bIsReroll[c]

(* The primary bitmap loses no bit while another CPU searches. *)
LEMMA PrimaryGrows ==
  ASSUME IInv, [Next]_vars, NEW c \in Cpus, pc[c] \in {"hunt", "error"}
  PROVE  primary \subseteq primary'
  <1>1. ASSUME NEW d \in Cpus, RelinquishClear(d) PROVE FALSE
    BY <1>1, PmmAssumption DEF RelinquishClear, Goto, IInv, LockOwnership, HoldsLock
  <1>2. ASSUME NEW d \in Cpus, Claim(d) PROVE primary \subseteq primary'
    BY <1>2 DEF Claim
  <1> QED BY <1>1, <1>2, PrimaryKept

LEMMA NextSearchInv ==
  ASSUME IInv, ReservationInv, RequestInv, SearchInv, [Next]_vars
  PROVE  SearchInv'
  <1> USE PmmAssumption DEF Goto, shared, search
  <1> DEFINE
        Same(d) == /\ pc'[d] \in {"hunt", "error"} =>
                        /\ pc'[d] = pc[d] /\ req'[d] = req[d] /\ out'[d] = out[d]
                        /\ start'[d] = start[d] /\ PageID'[d] = PageID[d] /\ bIsReroll'[d] = bIsReroll[d]
                   /\ pc'[d] \notin {"hunt", "error", "return"} => ~bIsReroll'[d]
        Good(d) == /\ pc'[d] = "hunt" /\ "DENSE" \notin req'[d].flags /\ out'[d] = <<>>
                        => Seen(d)' \subseteq primary'
                   /\ pc'[d] = "error" /\ KrIsValidPageID(start'[d]) /\ "DENSE" \notin req'[d].flags
                        => Pages \subseteq primary'
                   /\ pc'[d] \notin {"hunt", "error", "return"} => ~bIsReroll'[d]
  <1>a. ASSUME NEW d \in Cpus, Same(d) PROVE Good(d)
    <2>1. CASE pc'[d] \in {"hunt", "error"}
      <3>1. primary \subseteq primary'
        BY <1>a, <2>1, PrimaryGrows
      <3>2. Seen(d)' = Seen(d)
        BY <1>a, <2>1 DEF Seen
      <3> QED BY <1>a, <2>1, <3>1, <3>2 DEF SearchInv
    <2> QED BY <1>a, <2>1
  <1>b. ASSUME \A d \in Cpus : Good(d) PROVE SearchInv'
    BY <1>b DEF SearchInv
  <1>c. ASSUME NEW c \in Cpus, \A d \in Cpus \ {c} : Same(d), Good(c) PROVE SearchInv'
    BY <1>a, <1>b, <1>c
  <1> HIDE DEF Same, Good
  <1>d. ASSUME \A d \in Cpus : Same(d) PROVE SearchInv'
    BY <1>a, <1>b, <1>d
  <1>1. CASE UNCHANGED vars
    <2>1. \A d \in Cpus : Same(d)
      BY <1>1 DEF vars, Same, SearchInv
    <2> QED BY <2>1, <1>d
  <1>2. ASSUME NEW c \in Cpus, AcquireCall(c) PROVE SearchInv'
    <2>1. \A d \in Cpus : Same(d)
      BY <1>2 DEF AcquireCall, Same, SearchInv, IInv, TypeOK
    <2> QED BY <2>1, <1>d
  <1>3. ASSUME NEW c \in Cpus, AcquireLock(c) PROVE SearchInv'
    <2>1. \A d \in Cpus \ {c} : Same(d)
      BY <1>3 DEF AcquireLock, Same, SearchInv, IInv, TypeOK
    <2>2. /\ pc[c] = "acqLock" /\ ~bIsReroll'[c] /\ start'[c] = SearchStart(c) /\ PageID'[c] = SearchStart(c)
          /\ pc'[c] = IF KrIsValidPageID(SearchStart(c)) THEN "hunt" ELSE "error"
      BY <1>3 DEF AcquireLock, SearchInv, IInv, TypeOK
    <2>3. SearchStart(c) \in Int
      <3>1. start'[c] \in 0 .. NrPages
        BY NextIInv DEF IInv, TypeOK
      <3> QED BY <2>2, <3>1
    <2>4. Seen(c)' = {}
      BY <2>2, <2>3 DEF Seen, Pages
    <2>5. Good(c)
      BY <2>2, <2>4 DEF Good
    <2> QED BY <2>1, <2>5, <1>c
  <1>4. ASSUME NEW c \in Cpus, HuntPage(c) PROVE SearchInv'
    <2>1. \A d \in Cpus \ {c} : Same(d)
      BY <1>4 DEF HuntPage, Same, SearchInv, IInv, TypeOK
    <2>2. /\ pc[c] = "hunt" /\ pc'[c] = "hunt" /\ req' = req /\ bIsReroll' = bIsReroll /\ start' = start
          /\ PageID'[c] = PageID[c] + 1 /\ primary' = primary
          /\ out'[c] = IF ~Unavailable(PageID[c]) THEN Append(out[c], PageID[c])
                       ELSE IF "DENSE" \in req[c].flags THEN <<>> ELSE out[c]
      BY <1>4 DEF HuntPage, IInv, TypeOK
    <2>3. ASSUME "DENSE" \notin req'[c].flags, out'[c] = <<>> PROVE Seen(c)' \subseteq primary'
      <3>1. out[c] \in Seq(Pages) /\ PageID[c] \in Int /\ start[c] \in Int
        BY DEF IInv, TypeOK
      <3>2. Append(out[c], PageID[c]) # <<>>
        BY <3>1
      <3>3. Unavailable(PageID[c]) /\ out[c] = <<>> /\ "DENSE" \notin req[c].flags
        BY <2>2, <2>3, <3>2
      <3>4. PageID[c] \in primary
        BY <3>3 DEF Unavailable, KrIsPhysicalPageReserved, ReservationInv, ReservedIsAcquired
      <3>5. Seen(c) \subseteq primary
        BY <2>2, <3>3 DEF SearchInv
      <3>6. Seen(c)' \subseteq Seen(c) \cup {PageID[c]}
        BY <2>2, <3>1 DEF Seen, Pages
      <3> QED BY <2>2, <3>4, <3>5, <3>6
    <2>4. Good(c)
      BY <2>2, <2>3 DEF Good
    <2> QED BY <2>1, <2>4, <1>c
  <1>5. ASSUME NEW c \in Cpus, HuntReroll(c) PROVE SearchInv'
    <2>1. \A d \in Cpus \ {c} : Same(d)
      BY <1>5 DEF HuntReroll, Same, SearchInv, IInv, TypeOK
    <2>2. /\ pc[c] = "hunt" /\ pc'[c] = "hunt" /\ req' = req /\ bIsReroll'[c] /\ start' = start
          /\ PageID'[c] = 0 /\ primary' = primary /\ ~bIsReroll[c] /\ PageID[c] >= BitmapEnd
          /\ "DENSE" \notin req[c].flags => out'[c] = out[c]
      <3>1. out[c] \in Seq(Pages) /\ req[c].n \in Nat
        BY <1>5 DEF HuntReroll, IInv, TypeOK, RequestInv
      <3> QED BY <1>5, <3>1 DEF HuntReroll, HuntOver, MustReroll, IInv, TypeOK
    <2>3. ASSUME "DENSE" \notin req'[c].flags, out'[c] = <<>> PROVE Seen(c)' \subseteq primary'
      <3>1. PageID[c] \in Int /\ start[c] \in Int
        BY DEF IInv, TypeOK
      <3>2. Seen(c) \subseteq primary
        BY <2>2, <2>3 DEF SearchInv
      <3>3. Seen(c)' \subseteq Seen(c)
        BY <2>2, <3>1, BitmapCoversPages DEF Seen, Pages
      <3> QED BY <2>2, <3>2, <3>3
    <2>4. Good(c)
      BY <2>2, <2>3 DEF Good
    <2> QED BY <2>1, <2>4, <1>c
  <1>6. ASSUME NEW c \in Cpus, HuntFailed(c) PROVE SearchInv'
    <2>1. \A d \in Cpus \ {c} : Same(d)
      BY <1>6 DEF HuntFailed, Same, SearchInv, IInv, TypeOK
    <2>2. /\ pc[c] = "hunt" /\ pc'[c] = "error" /\ req' = req /\ primary' = primary /\ out[c] = <<>>
          /\ HuntOver(c) /\ ~MustReroll(c)
      BY <1>6 DEF HuntFailed, IInv, TypeOK
    <2>3. ASSUME "DENSE" \notin req'[c].flags PROVE Pages \subseteq primary'
      <3>1. PageID[c] \in Int /\ start[c] \in Nat /\ req[c].n \in Nat \ {0} /\ Len(out[c]) = 0
        BY <2>2 DEF IInv, TypeOK, RequestInv
      <3>2. Seen(c) \subseteq primary
        BY <2>2, <2>3 DEF SearchInv
      <3>3. \/ ~bIsReroll[c] /\ start[c] = 0 /\ PageID[c] >= BitmapEnd
            \/ bIsReroll[c] /\ (PageID[c] >= BitmapEnd \/ PageID[c] >= start[c])
        BY <2>2, <3>1 DEF HuntOver, MustReroll
      <3>4. Pages \subseteq Seen(c)
        BY <3>1, <3>3, BitmapCoversPages DEF Seen, Pages
      <3> QED BY <2>2, <3>2, <3>4
    <2>4. Good(c)
      BY <2>2, <2>3 DEF Good
    <2> QED BY <2>1, <2>4, <1>c
  <1>7. ASSUME NEW c \in Cpus, Claim(c) PROVE SearchInv'
    <2>1. \A d \in Cpus : Same(d)
      BY <1>7 DEF Claim, Same, SearchInv, IInv, TypeOK
    <2> QED BY <2>1, <1>d
  <1>8. ASSUME NEW c \in Cpus, AcquireReturn(c) \/ ErrorOut(c) PROVE SearchInv'
    <2>1. \A d \in Cpus : Same(d)
      BY <1>8 DEF AcquireReturn, ErrorOut, ForgetSearch, Same, SearchInv, IInv, TypeOK
    <2> QED BY <2>1, <1>d
  <1>9. ASSUME NEW c \in Cpus, RelinquishCall(c) \/ RelinquishLock(c) \/ RelinquishClear(c) \/ RelinquishReturn(c)
        PROVE  SearchInv'
    <2>1. \A d \in Cpus : Same(d)
      BY <1>9 DEF RelinquishCall, RelinquishLock, RelinquishClear, RelinquishReturn, Same, SearchInv, IInv, TypeOK
    <2> QED BY <2>1, <1>d
  <1>10. ASSUME NEW c \in Cpus, ReserveCall(c) \/ ReserveStore(c) \/ ReserveCount(c) \/ SetHint(c)
         PROVE  SearchInv'
    <2>1. \A d \in Cpus : Same(d)
      BY <1>10 DEF ReserveCall, ReserveStore, ReserveCount, SetHint, Same, SearchInv, IInv, TypeOK
    <2> QED BY <2>1, <1>d
  <1> QED BY <1>1, <1>2, <1>3, <1>4, <1>5, <1>6, <1>7, <1>8, <1>9, <1>10 DEF Next, Calls, Running

(* A SPARSE search that began on a valid page and found nothing has looked *)
(* at every page and found it taken: the wraparound leaves no gap, also    *)
(* when the start lies inside a byte, and no page is given back meanwhile. *)
THEOREM SearchIsExhaustive ==
  ASSUME SingleReserver
  PROVE  Spec => []HuntIsExhaustive
  <1>1. Init => SearchInv
    BY DEF Init, SearchInv
  <1>2. IInv /\ ReservationInv /\ RequestInv /\ SearchInv /\ [Next]_vars => SearchInv'
    BY NextSearchInv
  <1>3. SearchInv => HuntIsExhaustive
    BY DEF SearchInv, HuntIsExhaustive, Available
  <1> QED BY <1>1, <1>2, <1>3, AlwaysReservationInv, PTL DEF Spec
============================================================================
