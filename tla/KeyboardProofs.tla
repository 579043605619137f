--------------------------- MODULE KeyboardProofs ---------------------------
(***************************************************************************)
(* Theorems about Keyboard, for every buffer size, every set of keys and   *)
(* reports, and any number of goroutines, and about KeyboardMacro, whose   *)
(* goroutines drive the same keyboard.                                     *)
(***************************************************************************)
EXTENDS Keyboard, KeyboardMacro, FiniteSetTheorems, WellFoundedInduction, TLAPS

----------------------------------------------------------------------------
(* What the buffer functions of KeyBuffer return, for every buffer size    *)
(* and every set of keys.                                                  *)

\* A non-empty set of naturals has a least element.
LEMMA LeastElement ==
  ASSUME NEW S \in SUBSET Nat, S # {}
  PROVE  \E i \in S : \A j \in S : i <= j
<1>1. PICK i \in S : \A j \in S : ~(<<j, i>> \in OpToRel(<, Nat))
  BY NatLessThanWellFounded, WFMin, Zenon
<1>2. \A j \in S : ~(j < i)
  BY <1>1 DEF OpToRel
<1>3. i \in Nat /\ \A j \in S : j \in Nat
  OBVIOUS
<1> QED BY <1>2, <1>3

\* FirstSlot is the least slot the scan of keypressReport may stop at.
LEMMA FirstSlotIsLeast ==
  ASSUME NEW b \in Buffer, NEW k, ~Overrun(b, k)
  PROVE  /\ FirstSlot(b, k) \in Slots
         /\ b[FirstSlot(b, k)] = k \/ b[FirstSlot(b, k)] = NoKey
         /\ \A j \in Slots : j < FirstSlot(b, k) => b[j] # k /\ b[j] # NoKey
<1>1. SlotFor(b, k) \in SUBSET Nat /\ SlotFor(b, k) # {}
  BY BufferAssumption DEF SlotFor, Slots, Overrun
<1>2. \E i \in SlotFor(b, k) : \A j \in SlotFor(b, k) : i <= j
  BY <1>1, LeastElement
<1>3. /\ FirstSlot(b, k) \in SlotFor(b, k)
      /\ \A j \in SlotFor(b, k) : FirstSlot(b, k) <= j
  BY <1>2 DEF FirstSlot
<1> QED BY <1>3, BufferAssumption DEF SlotFor, Slots

\* The cleared buffer (keyboardClearStateKeys) is a buffer that holds nothing.
LEMMA EmptyBufferFacts ==
  /\ EmptyBuffer \in Buffer
  /\ Held(EmptyBuffer) = {}
  /\ Compact(EmptyBuffer)
  /\ Distinct(EmptyBuffer)
BY BufferAssumption DEF EmptyBuffer, Buffer, Held, Compact, Distinct

----------------------------------------------------------------------------

\* A press in keypressReport yields a buffer.
LEMMA PressKeyType ==
  ASSUME NEW b \in Buffer, NEW k \in NormalKeys
  PROVE  PressKey(b, k) \in Buffer
BY FirstSlotIsLeast, EmptyBufferFacts DEF PressKey, Buffer

\* A press that finds a slot holds exactly one key more; one that finds none
\* drops every key.
LEMMA PressKeyHeld ==
  ASSUME NEW b \in Buffer, NEW k \in NormalKeys
  PROVE  Held(PressKey(b, k)) = IF Overrun(b, k) THEN {} ELSE Held(b) \cup {k}
<1>1. CASE Overrun(b, k)
  BY <1>1, EmptyBufferFacts DEF PressKey
<1>2. CASE ~Overrun(b, k)
  <2> DEFINE i == FirstSlot(b, k)
  <2>1. i \in Slots /\ (b[i] = k \/ b[i] = NoKey)
    BY <1>2, FirstSlotIsLeast
  <2>2. PressKey(b, k) = [b EXCEPT ![i] = k]
    BY <1>2 DEF PressKey
  <2> HIDE DEF i
  <2> QED BY <1>2, <2>1, <2>2, BufferAssumption DEF Held, Buffer
<1> QED BY <1>1, <1>2

\* A press never opens a hole: it takes the first free slot.
LEMMA PressKeyCompact ==
  ASSUME NEW b \in Buffer, NEW k \in NormalKeys, Compact(b)
  PROVE  Compact(PressKey(b, k))
<1>1. CASE Overrun(b, k)
  BY <1>1, EmptyBufferFacts DEF PressKey
<1>2. CASE ~Overrun(b, k)
  <2> DEFINE i == FirstSlot(b, k)
  <2>1. /\ i \in Slots /\ (b[i] = k \/ b[i] = NoKey)
        /\ \A j \in Slots : j < i => b[j] # NoKey
    BY <1>2, FirstSlotIsLeast
  <2>2. PressKey(b, k) = [b EXCEPT ![i] = k]
    BY <1>2 DEF PressKey
  <2> HIDE DEF i
  <2> QED BY <2>1, <2>2, BufferAssumption DEF Compact, Buffer, Slots
<1> QED BY <1>1, <1>2

\* A press never stores a key twice: the scan meets the key before a free slot.
LEMMA PressKeyDistinct ==
  ASSUME NEW b \in Buffer, NEW k \in NormalKeys, Compact(b), Distinct(b)
  PROVE  Distinct(PressKey(b, k))
<1>1. CASE Overrun(b, k)
  BY <1>1, EmptyBufferFacts DEF PressKey
<1>2. CASE ~Overrun(b, k)
  <2> DEFINE i == FirstSlot(b, k)
  <2>1. /\ i \in Slots /\ (b[i] = k \/ b[i] = NoKey)
        /\ \A j \in Slots : j < i => b[j] # k
    BY <1>2, FirstSlotIsLeast
  <2>2. PressKey(b, k) = [b EXCEPT ![i] = k]
    BY <1>2 DEF PressKey
  <2>3. \A j \in Slots : j # i => b[j] # k
    BY <2>1, BufferAssumption DEF Compact, Distinct, Buffer, Slots
  <2> HIDE DEF i
  <2> QED BY <2>1, <2>2, <2>3 DEF Distinct, Buffer
<1> QED BY <1>1, <1>2

----------------------------------------------------------------------------

\* A release in keypressReport yields a buffer.
LEMMA ReleaseKeyType ==
  ASSUME NEW b \in Buffer, NEW k \in NormalKeys
  PROVE  ReleaseKey(b, k) \in Buffer
<1>1. \A i \in Slots : RemoveSlot(b, i) \in Buffer
  BY BufferAssumption DEF RemoveSlot, Buffer, Slots
<1> QED BY <1>1, FirstSlotIsLeast DEF ReleaseKey

\* A release closes the gap it makes (the shift to the left).
LEMMA ReleaseKeyCompact ==
  ASSUME NEW b \in Buffer, NEW k \in NormalKeys, Compact(b)
  PROVE  Compact(ReleaseKey(b, k))
<1>1. \A i \in Slots : Compact(RemoveSlot(b, i))
  BY BufferAssumption DEF RemoveSlot, Buffer, Slots, Compact
<1> QED BY <1>1, FirstSlotIsLeast DEF ReleaseKey

\* A release repeats no key.
LEMMA ReleaseKeyDistinct ==
  ASSUME NEW b \in Buffer, NEW k \in NormalKeys, Distinct(b)
  PROVE  Distinct(ReleaseKey(b, k))
<1>1. \A i \in Slots : Distinct(RemoveSlot(b, i))
  BY BufferAssumption DEF RemoveSlot, Buffer, Slots, Distinct
<1> QED BY <1>1, FirstSlotIsLeast DEF ReleaseKey

\* A release takes the key, and only the key, out of a well-formed buffer.
LEMMA ReleaseKeyHeld ==
  ASSUME NEW b \in Buffer, NEW k \in NormalKeys, Compact(b), Distinct(b)
  PROVE  Held(ReleaseKey(b, k)) = Held(b) \ {k}
<1>1. CASE Overrun(b, k)
  BY <1>1 DEF ReleaseKey, Overrun, SlotFor, Held
<1>2. CASE ~Overrun(b, k)
  <2> DEFINE i == FirstSlot(b, k)
  <2>1. /\ i \in Slots /\ (b[i] = k \/ b[i] = NoKey)
        /\ \A j \in Slots : j < i => b[j] # k
    BY <1>2, FirstSlotIsLeast
  <2>2. CASE b[i] = NoKey
    <3>1. ReleaseKey(b, k) = b
      BY <2>2 DEF ReleaseKey
    <3>2. \A j \in Slots : b[j] # k
      BY <2>1, <2>2, BufferAssumption DEF Compact, Slots
    <3> QED BY <3>1, <3>2 DEF Held
  <2>3. CASE b[i] = k
    <3>1. ReleaseKey(b, k) = RemoveSlot(b, i)
      BY <1>2, <2>3, BufferAssumption DEF ReleaseKey
    <3>2. \A j \in Slots : j # i => b[j] # k
      BY <2>1, <2>3, BufferAssumption DEF Distinct
    <3> HIDE DEF i
    <3>3. Held(RemoveSlot(b, i)) \subseteq Held(b) \ {k}
      BY <2>1, <3>2, BufferAssumption DEF Held, RemoveSlot, Slots
    <3>4. ASSUME NEW x \in Held(b) \ {k} PROVE x \in Held(RemoveSlot(b, i))
      <4>1. PICK j \in Slots : b[j] = x
        BY DEF Held
      <4>2. j # i
        BY <4>1, <2>3
      <4>3. CASE j < i
        BY <4>1, <4>3, <3>4 DEF Held, RemoveSlot
      <4>4. CASE j > i
        <5>1. j - 1 \in Slots /\ j - 1 >= i /\ (j - 1) # HidKeyBufferSize
          BY <4>4, <2>1, BufferAssumption DEF Slots
        <5>2. RemoveSlot(b, i)[j - 1] = b[j]
          BY <5>1, <2>1, BufferAssumption DEF RemoveSlot, Slots
        <5> QED BY <5>1, <5>2, <4>1, <3>4 DEF Held
      <4> QED BY <4>2, <4>3, <4>4, <2>1, BufferAssumption DEF Slots
    <3> QED BY <3>1, <3>3, <3>4
  <2> QED BY <2>1, <2>2, <2>3
<1> QED BY <1>1, <1>2
----------------------------------------------------------------------------
(* stripMediaKeys. *)

\* The keys stripMediaKeys keeps are finitely many, and so are those of a prefix.
LEMMA KeptFacts ==
  ASSUME NEW r \in RawReport
  PROVE  /\ IsFiniteSet(Kept(r))
         /\ Cardinality(Kept(r)) \in Nat
         /\ \A p \in 0..HidKeyBufferSize :
              /\ IsFiniteSet({q \in Kept(r) : q <= p})
              /\ KeptUpTo(r, p) \in Nat
<1>1. IsFiniteSet(Slots)
  BY FS_Interval, BufferAssumption DEF Slots
<1>2. Kept(r) \subseteq Slots
  BY DEF Kept
<1>3. IsFiniteSet(Kept(r))
  BY <1>1, <1>2, FS_Subset
<1>4. \A p \in 0..HidKeyBufferSize : IsFiniteSet({q \in Kept(r) : q <= p})
  BY <1>3, FS_Subset
<1> QED BY <1>3, <1>4, FS_CardinalityType DEF KeptUpTo

\* One slot more keeps at most one key more.
LEMMA KeptUpToStep ==
  ASSUME NEW r \in RawReport, NEW p \in Slots
  PROVE  KeptUpTo(r, p) = IF p \in Kept(r) THEN KeptUpTo(r, p - 1) + 1
                                           ELSE KeptUpTo(r, p - 1)
<1> DEFINE S == {q \in Kept(r) : q <= p - 1}
           T == {q \in Kept(r) : q <= p}
<1>1. p \in Nat /\ p - 1 \in 0..HidKeyBufferSize
  BY BufferAssumption DEF Slots
<1>2. IsFiniteSet(S) /\ p \notin S
  BY <1>1, KeptFacts
<1>3. CASE p \in Kept(r)
  <2>1. T = S \cup {p}
    BY <1>1, <1>3, BufferAssumption DEF Kept, Slots
  <2> HIDE DEF S, T
  <2>2. Cardinality(T) = Cardinality(S) + 1
    BY <1>2, <2>1, FS_AddElement
  <2> QED BY <2>2, <1>3 DEF KeptUpTo, S, T
<1>4. CASE p \notin Kept(r)
  <2>1. T = S
    BY <1>1, <1>4, BufferAssumption DEF Kept, Slots
  <2> QED BY <2>1, <1>4 DEF KeptUpTo
<1> QED BY <1>3, <1>4

\* The i-th kept key exists, for every i up to the number of kept keys.
LEMMA NthKeptExists ==
  ASSUME NEW r \in RawReport, NEW i \in 1..Cardinality(Kept(r))
  PROVE  \E p \in Kept(r) : KeptUpTo(r, p) = i
<1> DEFINE U == {p \in 0..HidKeyBufferSize : KeptUpTo(r, p) >= i}
<1>1. KeptUpTo(r, HidKeyBufferSize) = Cardinality(Kept(r))
  <2>1. {q \in Kept(r) : q <= HidKeyBufferSize} = Kept(r)
    BY BufferAssumption DEF Kept, Slots
  <2> QED BY <2>1 DEF KeptUpTo
<1>2. KeptUpTo(r, 0) = 0
  <2>1. {q \in Kept(r) : q <= 0} = {}
    BY BufferAssumption DEF Kept, Slots
  <2> QED BY <2>1, FS_EmptySet DEF KeptUpTo
<1>3. HidKeyBufferSize \in U
  BY <1>1, KeptFacts, BufferAssumption
<1>4. PICK p \in U : \A j \in U : p <= j
  <2>1. U \in SUBSET Nat /\ U # {}
    BY <1>3, BufferAssumption
  <2> HIDE DEF U
  <2> QED BY <2>1, LeastElement
<1>5. p # 0
  BY <1>2, <1>4
<1>6. p \in Slots /\ p - 1 \in 0..HidKeyBufferSize
  BY <1>4, <1>5, BufferAssumption DEF Slots
<1>7. ~(p - 1 \in U)
  BY <1>4, <1>6, BufferAssumption DEF Slots
<1>8. KeptUpTo(r, p - 1) \in Nat /\ KeptUpTo(r, p - 1) < i
  <2>1. KeptUpTo(r, p - 1) \in Nat
    BY <1>6, KeptFacts
  <2>2. i \in Nat
    BY KeptFacts
  <2> QED BY <1>6, <1>7, <2>1, <2>2
<1>9. p \in Kept(r) /\ KeptUpTo(r, p) = i
  BY <1>4, <1>6, <1>8, KeptUpToStep
<1> QED BY <1>9

\* The slot of the report that StripMediaKeys copies to slot i.
LEMMA StripSlot ==
  ASSUME NEW r \in RawReport, NEW i \in Slots, i <= Cardinality(Kept(r))
  PROVE  \E p \in Kept(r) : KeptUpTo(r, p) = i /\ StripMediaKeys(r)[i] = r[p]
<1>1. i \in 1..Cardinality(Kept(r))
  BY KeptFacts, BufferAssumption DEF Slots
<1>2. \E p \in Kept(r) : KeptUpTo(r, p) = i
  BY <1>1, NthKeptExists
<1> DEFINE p == CHOOSE p \in Kept(r) : KeptUpTo(r, p) = i
<1>3. p \in Kept(r) /\ KeptUpTo(r, p) = i
  BY <1>2
<1>4. StripMediaKeys(r)[i] = r[p]
  BY DEF StripMediaKeys
<1> QED BY <1>3, <1>4

\* stripMediaKeys yields a buffer, without media keys.
LEMMA StripMediaKeysType ==
  ASSUME NEW r \in RawReport
  PROVE  StripMediaKeys(r) \in Buffer
<1>1. \A i \in Slots : i <= Cardinality(Kept(r)) => StripMediaKeys(r)[i] \in NormalKeys
  BY StripSlot DEF Kept
<1>2. \A i \in Slots : ~(i <= Cardinality(Kept(r))) => StripMediaKeys(r)[i] = NoKey
  BY DEF StripMediaKeys
<1>3. StripMediaKeys(r) = [i \in Slots |-> StripMediaKeys(r)[i]]
  BY DEF StripMediaKeys
<1> QED BY <1>1, <1>2, <1>3 DEF Buffer

\* KeyboardReport never leaves a hole, wherever the report has its zeros and
\* media keys.
LEMMA StripMediaKeysCompact ==
  ASSUME NEW r \in RawReport
  PROVE  Compact(StripMediaKeys(r))
<1>1. \A i \in Slots : i <= Cardinality(Kept(r)) => StripMediaKeys(r)[i] # NoKey
  BY StripSlot, BufferAssumption DEF Kept
<1>2. \A i \in Slots : ~(i <= Cardinality(Kept(r))) => StripMediaKeys(r)[i] = NoKey
  BY DEF StripMediaKeys
<1> QED BY <1>1, <1>2, KeptFacts, BufferAssumption DEF Compact, Slots

\* A report without repetitions is stored without repetitions.
LEMMA StripMediaKeysDistinct ==
  ASSUME NEW r \in RawReport, Distinct(r)
  PROVE  Distinct(StripMediaKeys(r))
<1> SUFFICES ASSUME NEW i \in Slots, NEW j \in Slots, i # j,
                    StripMediaKeys(r)[i] = StripMediaKeys(r)[j],
                    StripMediaKeys(r)[i] # NoKey
             PROVE  FALSE
  BY DEF Distinct
<1>1. i <= Cardinality(Kept(r)) /\ j <= Cardinality(Kept(r))
  BY DEF StripMediaKeys
<1>2. PICK p \in Kept(r) : KeptUpTo(r, p) = i /\ StripMediaKeys(r)[i] = r[p]
  BY <1>1, StripSlot
<1>3. PICK q \in Kept(r) : KeptUpTo(r, q) = j /\ StripMediaKeys(r)[j] = r[q]
  BY <1>1, StripSlot
<1>4. p \in Slots /\ q \in Slots /\ p # q
  BY <1>2, <1>3 DEF Kept
<1> QED BY <1>2, <1>3, <1>4 DEF Distinct

----------------------------------------------------------------------------
(* How many keys a buffer holds. *)

\* A buffer without room holds as many keys as it has slots.
LEMMA OverrunIsFull ==
  ASSUME NEW b \in Buffer, NEW k \in NormalKeys, Distinct(b), Overrun(b, k)
  PROVE  k \notin Held(b) /\ Cardinality(Held(b)) = HidKeyBufferSize
<1>1. \A i \in Slots : b[i] # k /\ b[i] # NoKey
  BY DEF Overrun, SlotFor
<1>2. \A i \in Slots : b[i] \in Held(b)
  BY <1>1 DEF Buffer, Held
<1>3. b \in [Slots -> Held(b)]
  BY <1>2 DEF Buffer
<1>4. b \in Bijection(Slots, Held(b))
  BY <1>1, <1>3 DEF Bijection, Injection, Surjection, IsInjective, Distinct, Held
<1>5. ExistsBijection(1..HidKeyBufferSize, Held(b))
  BY <1>4 DEF ExistsBijection, Slots
<1>6. HidKeyBufferSize \in Nat
  BY BufferAssumption
<1>7. Cardinality(Held(b)) = HidKeyBufferSize
  BY <1>5, <1>6, FS_CountingElements
<1> QED BY <1>1, <1>7 DEF Held

\* A key that is not held and finds a slot finds a free one.
LEMMA RoomIsLeft ==
  ASSUME NEW b \in Buffer, NEW k \in NormalKeys, ~Overrun(b, k), k \notin Held(b)
  PROVE  Cardinality(Held(b)) < HidKeyBufferSize
<1> DEFINE T == Held(b) \cup {NoKey}
<1>1. \E i \in Slots : b[i] = NoKey
  BY DEF Overrun, SlotFor, Held
<1>2. b \in [Slots -> T]
  BY DEF Buffer, Held
<1>3. b \in Surjection(Slots, T)
  BY <1>1, <1>2 DEF Surjection, Held
<1>4. ExistsSurjection(1..HidKeyBufferSize, T)
  BY <1>3 DEF ExistsSurjection, Slots
<1>5. NoKey \notin Held(b)
  BY BufferAssumption DEF Held
<1>6. IsFiniteSet(Slots)
  BY FS_Interval, BufferAssumption DEF Slots
<1>7. IsFiniteSet(T)
  BY <1>3, <1>6, FS_Surjection
<1>8. Held(b) \subseteq T
  OBVIOUS
<1> HIDE DEF T
<1>9. IsFiniteSet(Held(b))
  BY <1>7, <1>8, FS_Subset
<1>10. Cardinality(T) <= HidKeyBufferSize
  BY <1>4, FS_SurjCardinalityBound, BufferAssumption
<1>11. Cardinality(Held(b) \cup {NoKey}) = Cardinality(Held(b)) + 1
  BY <1>5, <1>9, FS_AddElement
<1>12. Cardinality(Held(b)) \in Nat /\ HidKeyBufferSize \in Nat
  BY <1>9, FS_CardinalityType, BufferAssumption
<1> QED BY <1>10, <1>11, <1>12 DEF T

----------------------------------------------------------------------------
(* Types. *)

\* What the goroutines carry: a handler with a timer to settle and an
\* auto-release goroutine have a timed key, one about to release a key of
\* the buffer.
GoroutineKeys ==
  /\ \A h \in Handlers :
       /\ hnd[h].pc = "got" => hnd[h].key \in Keys
       /\ hnd[h].pc = "timer" => hnd[h].key \in TimedKeys
  /\ \A r \in Releasers :
       /\ rel[r].pc # "idle" => rel[r].key \in TimedKeys
       /\ rel[r].pc = "release" => rel[r].key \in NormalKeys

TypeInv == TypeOK /\ GoroutineKeys

\* How the three kinds of key codes relate.
LEMMA SetsFacts ==
  /\ NormalKeys \subseteq Keys /\ MediaKeys \subseteq Keys /\ Modifiers \subseteq Keys
  /\ TimedKeys \subseteq Keys
  /\ \A k \in Keys : k \notin Modifiers => k \in TimedKeys
  /\ \A k \in TimedKeys : k \notin Modifiers
BY KeyboardAssumption DEF Keys, TimedKeys

\* A goroutine that has nothing to do is typed.
LEMMA IdleFacts ==
  /\ IdleHandler \in HandlerState /\ IdleHandler.pc = "idle"
  /\ IdleReleaser \in ReleaserState /\ IdleReleaser.pc = "idle"
BY Zenon DEF IdleHandler, HandlerState, IdleReleaser, ReleaserState

\* The steps of a goroutine through its program counter keep its state typed.
LEMMA PcFacts ==
  /\ \A k \in Keys, press \in BOOLEAN :
       [pc |-> "got", key |-> k, press |-> press] \in HandlerState
  /\ \A s \in HandlerState : [s EXCEPT !.pc = "timer"] \in HandlerState
  /\ \A k \in TimedKeys : [pc |-> "fired", key |-> k] \in ReleaserState
  /\ \A s \in ReleaserState : /\ [s EXCEPT !.pc = "check"] \in ReleaserState
                               /\ [s EXCEPT !.pc = "release"] \in ReleaserState
BY DEF HandlerState, ReleaserState

\* The report of the clear (rpcKeyboardReport(0, keyboardClearStateKeys)) asks for nothing.
LEMMA EmptyReport ==
  /\ EmptyBuffer \in RawReport
  /\ StripMediaKeys(EmptyBuffer) = EmptyBuffer
  /\ ConsumerBits(EmptyBuffer) = {}
<1>1. EmptyBuffer \in RawReport
  BY DEF EmptyBuffer, RawReport
<1>2. Kept(EmptyBuffer) = {}
  BY BufferAssumption DEF Kept, EmptyBuffer
<1>3. Cardinality(Kept(EmptyBuffer)) = 0
  BY <1>2, FS_EmptySet
<1>4. StripMediaKeys(EmptyBuffer) = EmptyBuffer
  BY <1>3, BufferAssumption DEF StripMediaKeys, EmptyBuffer, Slots
<1>5. ConsumerBits(EmptyBuffer) = {}
  BY BufferAssumption DEF ConsumerBits, EmptyBuffer
<1> QED BY <1>1, <1>4, <1>5

\* keypressReport keeps the gadget's state well typed.
LEMMA KeypressType ==
  ASSUME TypeOK, NEW k \in Keys, NEW press \in BOOLEAN, keypressReport(k, press)
  PROVE  /\ mods' \subseteq Modifiers /\ keys' \in Buffer
         /\ consumer' \subseteq MediaKeys /\ tapped' \subseteq NormalKeys
<1>1. CASE KeypressMedia(k, press)
  BY <1>1 DEF KeypressMedia, SetBit, TypeOK
<1>2. CASE KeypressModifier(k, press)
  BY <1>2 DEF KeypressModifier, SetBit, TypeOK
<1>3. CASE KeypressNormal(k, press)
  BY <1>3, PressKeyType, ReleaseKeyType DEF KeypressNormal, TypeOK, Held
<1> QED BY <1>1, <1>2, <1>3 DEF keypressReport

\* KeyboardReport keeps the gadget's state well typed.
LEMMA ReportType ==
  ASSUME TypeOK, NEW m \in SUBSET Modifiers, NEW q \in RawReport, KeyboardReport(m, q)
  PROVE  /\ mods' \subseteq Modifiers /\ keys' \in Buffer
         /\ consumer' \subseteq MediaKeys /\ tapped' \subseteq NormalKeys
BY StripMediaKeysType DEF KeyboardReport, ConsumerBits, TypeOK

----------------------------------------------------------------------------

\* The inductive type invariant holds initially ...
LEMMA TypeInvInit == Init => TypeInv
<1> SUFFICES ASSUME Init PROVE TypeInv
  OBVIOUS
<1>1. client \in BOOLEAN /\ late \in BOOLEAN /\ skipped \in BOOLEAN
  BY Zenon DEF Init
<1> QED BY <1>1, EmptyBufferFacts, IdleFacts DEF Init, TypeInv, TypeOK, GoroutineKeys

\* ... and every step preserves it.
LEMMA TypeInvStep == TypeInv /\ [Next]_vars => TypeInv'
<1> SUFFICES ASSUME TypeInv, [Next]_vars PROVE TypeInv'
  OBVIOUS
<1> USE SetsFacts, IdleFacts DEF TypeInv, TypeOK, GoroutineKeys, timers, gadget, env
<1>1. ASSUME NEW h \in Handlers, NEW k \in Keys, NEW press \in BOOLEAN,
             Dequeue(h, k, press)
      PROVE  TypeInv'
  BY <1>1, PcFacts DEF Dequeue
<1>2. ASSUME NEW h \in Handlers, HandleKeypress(h) PROVE TypeInv'
  <2>1. CASE usbReady
    <3>1. keypressReport(hnd[h].key, hnd[h].press) /\ hnd[h].key \in Keys
      BY <1>2, <2>1 DEF HandleKeypress
    <3>0. hnd[h].press \in BOOLEAN
      BY Zenon DEF HandlerState
    <3>2. /\ mods' \subseteq Modifiers /\ keys' \in Buffer
          /\ consumer' \subseteq MediaKeys /\ tapped' \subseteq NormalKeys
      BY <3>0, <3>1, KeypressType
    <3>3. late' \in BOOLEAN
      BY <1>2, <2>1, Zenon DEF HandleKeypress
    <3> QED BY <1>2, <2>1, <3>1, <3>2, <3>3, PcFacts DEF HandleKeypress, HandlerState
  <2>2. CASE ~usbReady
    BY <1>2, <2>2 DEF HandleKeypress
  <2> QED BY <2>1, <2>2
<1>3. ASSUME NEW h \in Handlers, SettleTimer(h) PROVE TypeInv'
  BY <1>3 DEF SettleTimer
<1>4. ASSUME NEW r \in Releasers, TakeEntry(r) PROVE TypeInv'
  BY <1>4 DEF TakeEntry, ReleaserState
<1>5. ASSUME NEW r \in Releasers, CheckDown(r) PROVE TypeInv'
  BY <1>5, PcFacts DEF CheckDown, Held, ReleaserState
<1>6. ASSUME NEW r \in Releasers, AutoRelease(r) PROVE TypeInv'
  <2>1. keypressReport(rel[r].key, FALSE) /\ rel[r].key \in Keys
    BY <1>6 DEF AutoRelease
  <2>2. /\ mods' \subseteq Modifiers /\ keys' \in Buffer
        /\ consumer' \subseteq MediaKeys /\ tapped' \subseteq NormalKeys
    BY <2>1, KeypressType
  <2> QED BY <1>6, <2>2 DEF AutoRelease
<1>7. ASSUME NEW r \in Releasers, NEW k \in TimedKeys, TimerFires(k, r) PROVE TypeInv'
  BY <1>7, PcFacts DEF TimerFires
<1>8. ASSUME NEW q \in Reports, ReportAll(q) PROVE TypeInv'
  <2>1. q.mods \in SUBSET Modifiers /\ q.keys \in RawReport
    BY KeyboardAssumption
  <2>2. /\ mods' \subseteq Modifiers /\ keys' \in Buffer
        /\ consumer' \subseteq MediaKeys /\ tapped' \subseteq NormalKeys
    BY <1>8, <2>1, ReportType DEF ReportAll
  <2> QED BY <1>8, <2>2 DEF ReportAll
<1>9. CASE DelayAutoRelease
  BY <1>9 DEF DelayAutoRelease
<1>10. ASSUME NEW why \in {"close", "handoff"}, CancelAllAutoReleaseTimers(why)
       PROVE  TypeInv'
  BY <1>10 DEF CancelAllAutoReleaseTimers
<1>11. CASE ClearKeys
  <2>1. usbReady => /\ mods' \subseteq Modifiers /\ keys' \in Buffer
                    /\ consumer' \subseteq MediaKeys /\ tapped' \subseteq NormalKeys
    BY <1>11, ReportType, EmptyReport DEF ClearKeys
  <2> QED BY <1>11, <2>1 DEF ClearKeys
<1>12. CASE CloseDone
  BY <1>12 DEF CloseDone
<1>13. CASE LastSessionDisconnected
  <2>1. usbReady => /\ mods' \subseteq Modifiers /\ keys' \in Buffer
                    /\ consumer' \subseteq MediaKeys /\ tapped' \subseteq NormalKeys
    BY <1>13, ReportType, EmptyReport DEF LastSessionDisconnected
  <2> QED BY <1>13, <2>1 DEF LastSessionDisconnected
<1>14. CASE NewSession
  BY <1>14 DEF NewSession
<1>15. CASE ClientStops
  BY <1>15 DEF ClientStops
<1>16. CASE UsbChange
  BY <1>16 DEF UsbChange
<1>17. CASE UNCHANGED vars
  BY <1>17 DEF vars
<1> QED BY <1>1, <1>2, <1>3, <1>4, <1>5, <1>6, <1>7, <1>8, <1>9, <1>10, <1>11,
           <1>12, <1>13, <1>14, <1>15, <1>16, <1>17
        DEF Next, HandlerStep, ReleaserStep

\* The keyboard gadget's state stays well typed, and no goroutine ever works
\* on a key of the wrong kind.
THEOREM TypeCorrect == Spec => []TypeOK
<1>1. TypeInv => TypeOK
  BY DEF TypeInv
<1> QED BY <1>1, TypeInvInit, TypeInvStep, PTL DEF Spec
----------------------------------------------------------------------------
(* The clear is final, and the buffer has no holes. *)

\* keypressReport keeps the buffer free of holes.
LEMMA KeypressCompact ==
  ASSUME TypeOK, Compact(keys), NEW k \in Keys, NEW press \in BOOLEAN,
         keypressReport(k, press)
  PROVE  Compact(keys')
<1>1. CASE KeypressMedia(k, press)
  BY <1>1 DEF KeypressMedia
<1>2. CASE KeypressModifier(k, press)
  BY <1>2 DEF KeypressModifier
<1>3. CASE KeypressNormal(k, press)
  BY <1>3, PressKeyCompact, ReleaseKeyCompact DEF KeypressNormal, TypeOK
<1> QED BY <1>1, <1>2, <1>3 DEF keypressReport

\* Releasing a key in an empty buffer changes nothing.
LEMMA ReleaseEmpty ==
  ASSUME NEW k \in NormalKeys
  PROVE  ReleaseKey(EmptyBuffer, k) = EmptyBuffer
<1>1. CASE Overrun(EmptyBuffer, k)
  BY <1>1 DEF ReleaseKey
<1>2. CASE ~Overrun(EmptyBuffer, k)
  <2>1. EmptyBuffer[FirstSlot(EmptyBuffer, k)] = NoKey
    BY <1>2, FirstSlotIsLeast, EmptyBufferFacts DEF EmptyBuffer
  <2> QED BY <2>1 DEF ReleaseKey
<1> QED BY <1>1, <1>2

\* What an auto-release goroutine may do to the gadget: take its key out of
\* the buffer.
LEMMA AutoReleaseEffect ==
  ASSUME TypeInv, NEW r \in Releasers, AutoRelease(r)
  PROVE  /\ rel[r].key \in NormalKeys
         /\ mods' = mods
         /\ keys' = ReleaseKey(keys, rel[r].key)
         /\ tapped' = tapped \cap Held(keys')
<1>1. rel[r].key \in NormalKeys
  BY DEF TypeInv, GoroutineKeys, AutoRelease
<1>2. KeypressNormal(rel[r].key, FALSE)
  BY <1>1, BufferAssumption, KeyboardAssumption
     DEF AutoRelease, keypressReport, KeypressMedia, KeypressModifier
<1> QED BY <1>1, <1>2 DEF KeypressNormal

\* The cleaner only works on a live session.
CleanerOnLiveSession == cleaner # "idle" => sess = "live"

ClearInv == TypeInv /\ BufferCompact /\ CleanerOnLiveSession /\ ClearIsFinal

\* The invariant behind the final clear holds initially ...
LEMMA ClearInvInit == Init => ClearInv
BY TypeInvInit, EmptyBufferFacts
   DEF Init, ClearInv, BufferCompact, CleanerOnLiveSession, ClearIsFinal

\* ... and every step preserves it.
LEMMA ClearInvStep == ClearInv /\ [Next]_vars => ClearInv'
<1> SUFFICES ASSUME ClearInv, [Next]_vars
             PROVE  BufferCompact' /\ CleanerOnLiveSession' /\ ClearIsFinal'
  BY TypeInvStep DEF ClearInv
<1>0. TypeInv /\ TypeOK
  BY DEF ClearInv, TypeInv
<1> USE DEF ClearInv, BufferCompact, CleanerOnLiveSession, ClearIsFinal,
            timers, gadget, env
<1> DEFINE P == BufferCompact' /\ CleanerOnLiveSession' /\ ClearIsFinal'
<1>1. ASSUME NEW h \in Handlers, NEW k \in Keys, NEW press \in BOOLEAN,
             Dequeue(h, k, press)
      PROVE  P
  BY <1>1 DEF Dequeue
<1>2. ASSUME NEW h \in Handlers, HandleKeypress(h) PROVE P
  <2>1. CASE usbReady
    <3>1. keypressReport(hnd[h].key, hnd[h].press) /\ hnd[h].key \in Keys
      BY <1>0, <1>2, <2>1 DEF HandleKeypress, TypeInv, GoroutineKeys
    <3>2. hnd[h].press \in BOOLEAN
      BY <1>0, Zenon DEF HandlerState, TypeOK
    <3>3. Compact(keys')
      BY <1>0, <3>1, <3>2, KeypressCompact
    <3>4. sess # "live" => late'
      BY <1>2, <2>1, Zenon DEF HandleKeypress
    <3> QED BY <1>2, <3>3, <3>4 DEF HandleKeypress
  <2>2. CASE ~usbReady
    BY <1>2, <2>2 DEF HandleKeypress
  <2> QED BY <2>1, <2>2
<1>3. ASSUME NEW h \in Handlers, SettleTimer(h) PROVE P
  BY <1>3 DEF SettleTimer
<1>4. ASSUME NEW r \in Releasers, TakeEntry(r) PROVE P
  BY <1>4 DEF TakeEntry
<1>5. ASSUME NEW r \in Releasers, CheckDown(r) PROVE P
  BY <1>5 DEF CheckDown
<1>6. ASSUME NEW r \in Releasers, AutoRelease(r) PROVE P
  <2>1. /\ rel[r].key \in NormalKeys /\ mods' = mods
        /\ keys' = ReleaseKey(keys, rel[r].key)
    BY <1>0, <1>6, AutoReleaseEffect
  <2>2. Compact(keys')
    BY <1>0, <2>1, ReleaseKeyCompact DEF TypeOK
  <2> QED BY <1>6, <2>1, <2>2, ReleaseEmpty DEF AutoRelease
<1>7. ASSUME NEW r \in Releasers, NEW k \in TimedKeys, TimerFires(k, r) PROVE P
  BY <1>7 DEF TimerFires
<1>8. ASSUME NEW q \in Reports, ReportAll(q) PROVE P
  <2>1. Compact(keys')
    BY <1>8, KeyboardAssumption, StripMediaKeysCompact DEF ReportAll, KeyboardReport
  <2>2. sess # "live" => late'
    BY <1>8, Zenon DEF ReportAll
  <2> QED BY <1>8, <2>1, <2>2 DEF ReportAll
<1>9. CASE DelayAutoRelease
  BY <1>9 DEF DelayAutoRelease
<1>10. ASSUME NEW why \in {"close", "handoff"}, CancelAllAutoReleaseTimers(why)
       PROVE  P
  BY <1>10 DEF CancelAllAutoReleaseTimers
<1>11. CASE ClearKeys
  BY <1>11, EmptyReport, EmptyBufferFacts DEF ClearKeys, KeyboardReport
<1>12. CASE CloseDone
  BY <1>12 DEF CloseDone
<1>13. CASE LastSessionDisconnected
  BY <1>13, EmptyReport, EmptyBufferFacts DEF LastSessionDisconnected, KeyboardReport
<1>14. CASE NewSession
  BY <1>14 DEF NewSession
<1>15. CASE ClientStops
  BY <1>15 DEF ClientStops
<1>16. CASE UsbChange
  BY <1>16 DEF UsbChange
<1>17. CASE UNCHANGED vars
  BY <1>17 DEF vars
<1> QED BY <1>1, <1>2, <1>3, <1>4, <1>5, <1>6, <1>7, <1>8, <1>9, <1>10, <1>11,
           <1>12, <1>13, <1>14, <1>15, <1>16, <1>17
        DEF Next, HandlerStep, ReleaserStep

\* Whatever clients report and however goroutines interleave, the buffer of
\* keysDownState never has a hole in front of a key.
THEOREM BufferStaysCompact == Spec => []BufferCompact
<1>1. ClearInv => BufferCompact
  BY DEF ClearInv
<1> QED BY <1>1, ClearInvInit, ClearInvStep, PTL DEF Spec

\* After the clear of a closing session, only input handled later puts a key
\* down again: no timer and no auto-release goroutine in flight does.
THEOREM ClearIsFinalHolds == Spec => []ClearIsFinal
<1>1. ClearInv => ClearIsFinal
  BY DEF ClearInv
<1> QED BY <1>1, ClearInvInit, ClearInvStep, PTL DEF Spec

\* The auto-release machinery never touches a modifier.
THEOREM ModifiersSurviveAutoRelease == Spec => ModifierNeverAutoReleased
<1>1. TypeInv /\ [Next]_vars =>
        [\A r \in Releasers : ReleaserStep(r) => mods' = mods]_vars
  BY AutoReleaseEffect DEF ReleaserStep, TakeEntry, CheckDown, gadget
<1> QED BY <1>1, TypeInvInit, TypeInvStep, PTL DEF Spec, ModifierNeverAutoReleased
----------------------------------------------------------------------------
(* Timer entries never leak. *)

EntryInv == TypeInv /\ FiredEntryHasGoroutine

\* No step leaves a fired timer entry of kbdAutoReleaseTimers without its goroutine.
LEMMA EntryInvStep == EntryInv /\ [Next]_vars => EntryInv'
<1> SUFFICES ASSUME EntryInv, [Next]_vars PROVE FiredEntryHasGoroutine'
  BY TypeInvStep DEF EntryInv
<1> USE IdleFacts DEF EntryInv, TypeInv, TypeOK, FiredEntryHasGoroutine, timers, gadget, env
<1>1. ASSUME NEW h \in Handlers, SettleTimer(h) PROVE FiredEntryHasGoroutine'
  BY <1>1 DEF SettleTimer
<1>2. ASSUME NEW r \in Releasers, TakeEntry(r) PROVE FiredEntryHasGoroutine'
  BY <1>2 DEF TakeEntry
<1>3. ASSUME NEW r \in Releasers, CheckDown(r) \/ AutoRelease(r)
      PROVE  FiredEntryHasGoroutine'
  <2>1. UNCHANGED <<entries, armed>> /\ rel[r].pc # "fired"
    BY <1>3 DEF CheckDown, AutoRelease
  <2>2. \A x \in Releasers : x # r => rel'[x] = rel[x]
    BY <1>3 DEF CheckDown, AutoRelease
  <2> QED BY <2>1, <2>2
<1>4. ASSUME NEW r \in Releasers, NEW k \in TimedKeys, TimerFires(k, r)
      PROVE  FiredEntryHasGoroutine'
  BY <1>4 DEF TimerFires
<1>5. CASE DelayAutoRelease
  BY <1>5 DEF DelayAutoRelease
<1>6. ASSUME NEW why \in {"close", "handoff"}, CancelAllAutoReleaseTimers(why)
      PROVE  FiredEntryHasGoroutine'
  BY <1>6 DEF CancelAllAutoReleaseTimers
<1>7. CASE UNCHANGED <<entries, armed, rel>>
  BY <1>7
<1>8. \A h \in Handlers, k \in Keys, press \in BOOLEAN :
        Dequeue(h, k, press) => UNCHANGED <<entries, armed, rel>>
  BY DEF Dequeue
<1>9. \A h \in Handlers : HandleKeypress(h) => UNCHANGED <<entries, armed, rel>>
  BY DEF HandleKeypress
<1>10. \A q \in Reports : ReportAll(q) => UNCHANGED <<entries, armed, rel>>
  BY DEF ReportAll
<1>11. ClearKeys \/ CloseDone \/ LastSessionDisconnected \/ NewSession \/ ClientStops
         \/ UsbChange \/ UNCHANGED vars => UNCHANGED <<entries, armed, rel>>
  BY DEF ClearKeys, CloseDone, LastSessionDisconnected, NewSession, ClientStops,
         UsbChange, vars
<1> QED BY <1>1, <1>2, <1>3, <1>4, <1>5, <1>6, <1>7, <1>8, <1>9, <1>10, <1>11
        DEF Next, HandlerStep, ReleaserStep

\* Every entry of the timer map is either still running or has a goroutine
\* on its way to it: the map never keeps an entry nobody will remove.
THEOREM TimerEntriesNeverLeak == Spec => []FiredEntryHasGoroutine
<1>1. Init => EntryInv
  BY TypeInvInit DEF Init, EntryInv, FiredEntryHasGoroutine
<1>2. EntryInv => FiredEntryHasGoroutine
  BY DEF EntryInv
<1> QED BY <1>1, <1>2, EntryInvStep, PTL DEF Spec

----------------------------------------------------------------------------
(* No key is abandoned, when one goroutine at a time handles keypresses. *)

\* One queue goroutine calls KeypressReport: no second session in its
\* hand-over second, no JSON-RPC fallback beside the HID channel.
OneHandler == \A h1, h2 \in Handlers : h1 = h2

\* Clients list no key twice in a report.
ReportsDistinct == \A q \in Reports : Distinct(q.keys)

\* A handler that is about to cancel a timer has taken the key up, and nobody
\* has pressed it since.
CancelFollowsRelease ==
  \A h \in Handlers :
    hnd[h].pc = "timer" /\ ~hnd[h].press => hnd[h].key \notin tapped

AttendInv ==
  /\ ClearInv
  /\ Distinct(keys)
  /\ tapped \subseteq Held(keys)
  /\ CancelFollowsRelease
  /\ NoAbandonedKey

\* The invariant behind NoAbandonedKey holds initially ...
LEMMA AttendInvInit == Init => AttendInv
BY ClearInvInit, EmptyBufferFacts, IdleFacts
   DEF Init, AttendInv, CancelFollowsRelease, NoAbandonedKey

\* A keypress on a well-formed buffer: what it does to the keys held.
LEMMA KeypressEffect ==
  ASSUME TypeOK, Compact(keys), Distinct(keys), tapped \subseteq Held(keys),
         NEW k \in Keys, NEW press \in BOOLEAN, keypressReport(k, press)
  PROVE  /\ Distinct(keys')
         /\ tapped' \subseteq Held(keys')
         /\ tapped' \subseteq tapped \cup {k}
         /\ ~press => tapped' \subseteq tapped \ {k}
         /\ k \in Modifiers => tapped' = tapped
<1>1. CASE KeypressMedia(k, press)
  <2>1. k \notin tapped
    BY <1>1, BufferAssumption DEF KeypressMedia, TypeOK
  <2> QED BY <1>1, <2>1 DEF KeypressMedia
<1>2. CASE KeypressModifier(k, press)
  <2>1. k \notin tapped
    BY <1>2, KeyboardAssumption DEF KeypressModifier, TypeOK
  <2> QED BY <1>2, <2>1 DEF KeypressModifier
<1>3. CASE KeypressNormal(k, press)
  <2>1. k \in NormalKeys /\ k \notin Modifiers
    BY <1>3, KeyboardAssumption DEF KeypressNormal
  <2>2. CASE press
    <3>1. keys' = PressKey(keys, k) /\ tapped' = (tapped \cup {k}) \cap Held(keys')
      BY <1>3, <2>2 DEF KeypressNormal
    <3> QED BY <2>1, <2>2, <3>1, PressKeyDistinct DEF TypeOK
  <2>3. CASE ~press
    <3>1. keys' = ReleaseKey(keys, k) /\ tapped' = tapped \cap Held(keys')
      BY <1>3, <2>3 DEF KeypressNormal
    <3>2. Held(keys') = Held(keys) \ {k} /\ Distinct(keys')
      BY <2>1, <3>1, ReleaseKeyHeld, ReleaseKeyDistinct DEF TypeOK
    <3> QED BY <2>1, <2>3, <3>1, <3>2
  <2> QED BY <2>2, <2>3
<1> QED BY <1>1, <1>2, <1>3 DEF keypressReport

\* ... and every step preserves it, with one handler and reports that repeat no key.
LEMMA AttendInvStep ==
  ASSUME OneHandler, ReportsDistinct
  PROVE  AttendInv /\ [Next]_vars => AttendInv'
<1> SUFFICES ASSUME AttendInv, [Next]_vars PROVE AttendInv'
  OBVIOUS
<1>0. /\ ClearInv /\ ClearInv' /\ TypeInv /\ TypeOK
      /\ Compact(keys) /\ Distinct(keys) /\ tapped \subseteq Held(keys)
      /\ CancelFollowsRelease /\ NoAbandonedKey
  BY ClearInvStep DEF AttendInv, ClearInv, TypeInv, BufferCompact
<1> DEFINE P == /\ Distinct(keys') /\ tapped' \subseteq Held(keys')
                /\ CancelFollowsRelease' /\ NoAbandonedKey'
<1> SUFFICES P
  BY <1>0 DEF AttendInv
<1> USE DEF CancelFollowsRelease, NoAbandonedKey, Attended, timers, gadget, env
<1>1. ASSUME NEW h \in Handlers, NEW k \in Keys, NEW press \in BOOLEAN,
             Dequeue(h, k, press)
      PROVE  P
  <2>1. /\ UNCHANGED <<keys, entries, rel, cleaner, tapped, skipped>>
        /\ hnd[h].pc = "idle" /\ hnd'[h].pc = "got"
        /\ \A x \in Handlers : x # h => hnd'[x] = hnd[x]
    BY <1>0, <1>1 DEF Dequeue, TypeOK
  <2> QED BY <1>0, <2>1
<1>2. ASSUME NEW h \in Handlers, HandleKeypress(h) PROVE P
  <2>1. CASE usbReady
    <3> DEFINE k == hnd[h].key
               press == hnd[h].press
    <3>1. keypressReport(k, press) /\ k \in Keys
      BY <1>0, <1>2, <2>1 DEF HandleKeypress, TypeInv, GoroutineKeys
    <3>2. press \in BOOLEAN
      BY <1>0, Zenon DEF HandlerState, TypeOK
    <3> HIDE DEF k, press
    <3>3. /\ Distinct(keys') /\ tapped' \subseteq Held(keys')
          /\ tapped' \subseteq tapped \cup {k}
          /\ ~press => tapped' \subseteq tapped \ {k}
          /\ k \in Modifiers => tapped' = tapped
      BY <1>0, <3>1, <3>2, KeypressEffect
    <3>4. /\ UNCHANGED <<entries, rel, cleaner, skipped>>
          /\ hnd[h].pc = "got"
      BY <1>2, <2>1 DEF HandleKeypress
    <3>5. CASE k \in Modifiers
      <4>1. hnd'[h].pc = "idle"
        BY <1>0, <1>2, <2>1, <3>5, IdleFacts DEF HandleKeypress, TypeOK, k
      <4> QED BY <1>0, <3>3, <3>4, <3>5, <4>1, OneHandler DEF OneHandler
    <3>6. CASE k \notin Modifiers
      <4>1. hnd'[h].pc = "timer" /\ hnd'[h].key = k /\ hnd'[h].press = press
        BY <1>0, <1>2, <2>1, <3>6 DEF HandleKeypress, TypeOK, HandlerState, k, press
      <4>2. CancelFollowsRelease'
        BY <3>3, <4>1 DEF OneHandler
      <4>3. ASSUME NEW x \in tapped', ~skipped PROVE Attended(x)'
        <5>1. CASE x = k
          BY <5>1, <3>3, <3>2, <4>1, <4>3
        <5>2. CASE x # k
          BY <5>2, <1>0, <3>3, <3>4, <4>3 DEF OneHandler
        <5> QED BY <5>1, <5>2
      <4> QED BY <3>3, <3>4, <4>2, <4>3
    <3> QED BY <3>5, <3>6
  <2>2. CASE ~usbReady
    <3>1. /\ UNCHANGED <<keys, entries, rel, cleaner, tapped, skipped>>
          /\ hnd[h].pc = "got" /\ hnd'[h].pc = "idle"
      BY <1>0, <1>2, <2>2, IdleFacts DEF HandleKeypress, TypeOK
    <3> QED BY <1>0, <3>1 DEF OneHandler
  <2> QED BY <2>1, <2>2
<1>3. ASSUME NEW h \in Handlers, SettleTimer(h) PROVE P
  <2>1. /\ UNCHANGED <<keys, rel, cleaner, tapped, skipped>>
        /\ hnd[h].pc = "timer" /\ hnd'[h].pc = "idle"
    BY <1>0, <1>3, IdleFacts DEF SettleTimer, TypeOK
  <2>2. IF hnd[h].press THEN entries' = entries \cup {hnd[h].key}
                        ELSE entries' = entries \ {hnd[h].key}
    BY <1>3 DEF SettleTimer
  <2> QED BY <1>0, <2>1, <2>2 DEF OneHandler
<1>4. ASSUME NEW r \in Releasers, TakeEntry(r) PROVE P
  <2>1. UNCHANGED <<keys, hnd, cleaner, tapped, skipped>> /\ rel[r].pc = "fired"
    BY <1>4 DEF TakeEntry
  <2>2. \A x \in Releasers : x # r => rel'[x] = rel[x]
    BY <1>0, <1>4 DEF TakeEntry, TypeOK
  <2>3. \/ entries' = entries
        \/ /\ entries' = entries \ {rel[r].key}
           /\ rel'[r].pc = "check" /\ rel'[r].key = rel[r].key
    BY <1>0, <1>4 DEF TakeEntry, TypeOK, ReleaserState
  <2> QED BY <1>0, <2>1, <2>2, <2>3
<1>5. ASSUME NEW r \in Releasers, CheckDown(r) PROVE P
  <2>1. UNCHANGED <<keys, entries, hnd, cleaner, tapped, skipped>>
    BY <1>5 DEF CheckDown
  <2>2. \A x \in Releasers : x # r => rel'[x] = rel[x]
    BY <1>0, <1>5 DEF CheckDown, TypeOK
  <2>3. rel[r].key \in Held(keys) => rel'[r].pc = "release" /\ rel'[r].key = rel[r].key
    BY <1>0, <1>5 DEF CheckDown, TypeOK, ReleaserState
  <2> QED BY <1>0, <2>1, <2>2, <2>3
<1>6. ASSUME NEW r \in Releasers, AutoRelease(r) PROVE P
  <2>1. /\ rel[r].key \in NormalKeys
        /\ keys' = ReleaseKey(keys, rel[r].key)
        /\ tapped' = tapped \cap Held(keys')
    BY <1>0, <1>6, AutoReleaseEffect
  <2>2. Held(keys') = Held(keys) \ {rel[r].key} /\ Distinct(keys')
    BY <1>0, <2>1, ReleaseKeyHeld, ReleaseKeyDistinct DEF TypeOK
  <2>3. UNCHANGED <<entries, hnd, cleaner, skipped>>
    BY <1>6 DEF AutoRelease
  <2>4. \A x \in Releasers : x # r => rel'[x] = rel[x]
    BY <1>0, <1>6 DEF AutoRelease, TypeOK
  <2> QED BY <1>0, <2>1, <2>2, <2>3, <2>4
<1>7. ASSUME NEW r \in Releasers, NEW k \in TimedKeys, TimerFires(k, r) PROVE P
  <2>1. UNCHANGED <<keys, entries, hnd, cleaner, tapped, skipped>> /\ rel[r].pc = "idle"
    BY <1>7 DEF TimerFires
  <2>2. \A x \in Releasers : x # r => rel'[x] = rel[x]
    BY <1>0, <1>7 DEF TimerFires, TypeOK
  <2> QED BY <1>0, <2>1, <2>2
<1>8. ASSUME NEW q \in Reports, ReportAll(q) PROVE P
  <2>1. q.keys \in RawReport /\ Distinct(q.keys)
    BY KeyboardAssumption DEF ReportsDistinct
  <2>2. keys' = StripMediaKeys(q.keys) /\ tapped' = {} /\ UNCHANGED <<hnd>>
    BY <1>8 DEF ReportAll, KeyboardReport
  <2> QED BY <2>1, <2>2, StripMediaKeysDistinct
<1>9. CASE DelayAutoRelease
  BY <1>0, <1>9 DEF DelayAutoRelease
<1>10. ASSUME NEW why \in {"close", "handoff"}, CancelAllAutoReleaseTimers(why)
       PROVE  P
  BY <1>0, <1>10 DEF CancelAllAutoReleaseTimers
<1>11. CASE ClearKeys
  BY <1>0, <1>11, EmptyReport, EmptyBufferFacts DEF ClearKeys, KeyboardReport
<1>12. CASE CloseDone
  BY <1>0, <1>12 DEF CloseDone
<1>13. CASE LastSessionDisconnected
  BY <1>0, <1>13, EmptyReport, EmptyBufferFacts DEF LastSessionDisconnected, KeyboardReport
<1>14. CASE NewSession
  BY <1>0, <1>14 DEF NewSession
<1>15. CASE ClientStops
  BY <1>0, <1>15 DEF ClientStops
<1>16. CASE UsbChange
  BY <1>0, <1>16 DEF UsbChange
<1>17. CASE UNCHANGED vars
  BY <1>0, <1>17 DEF vars
<1> QED BY <1>1, <1>2, <1>3, <1>4, <1>5, <1>6, <1>7, <1>8, <1>9, <1>10, <1>11,
           <1>12, <1>13, <1>14, <1>15, <1>16, <1>17
        DEF Next, HandlerStep, ReleaserStep

\* With one keypress goroutine and reports that list no key twice, a key
\* pressed by a keypress message always has somebody who will release it:
\* no interleaving of handler, timers, auto-release goroutines, keepalives,
\* session close and handoff loses it, unless a clear was skipped.
THEOREM NoKeyAbandoned ==
  ASSUME OneHandler, ReportsDistinct
  PROVE  Spec => []NoAbandonedKey
<1>1. AttendInv => NoAbandonedKey
  BY DEF AttendInv
<1>2. AttendInv /\ [Next]_vars => AttendInv'
  BY AttendInvStep
<1> QED BY <1>1, <1>2, AttendInvInit, PTL DEF Spec

----------------------------------------------------------------------------
(* The buffer implements a set of held keys. *)

\* What the refinement needs of the buffer: it has no hole and no key twice.
SetInv == ClearInv /\ Distinct(keys)

\* HeldKeys counts as this module does.
LEMMA SameCardinality == \A S : HK!Cardinality(S) = Cardinality(S)
BY DEF HK!Cardinality, Cardinality

\* A keypress that has got past the USB gate, on a well-formed buffer, is the
\* press or the release of its key in the set of held keys.
LEMMA KeypressSimulates ==
  ASSUME keys \in Buffer, Compact(keys), Distinct(keys),
         NEW k \in NormalKeys, NEW press \in BOOLEAN, keypressReport(k, press)
  PROVE  /\ press => HK!HPress(k)
         /\ ~press => HK!HRelease(k)
         /\ Distinct(keys')
<1>1. KeypressNormal(k, press)
  BY BufferAssumption, KeyboardAssumption
     DEF keypressReport, KeypressMedia, KeypressModifier
<1>2. CASE press
  <2>1. keys' = PressKey(keys, k)
    BY <1>1, <1>2 DEF KeypressNormal
  <2>2. Held(keys') = IF Overrun(keys, k) THEN {} ELSE Held(keys) \cup {k}
    BY <2>1, PressKeyHeld
  <2>3. ASSUME Overrun(keys, k) PROVE HK!HPress(k)
    BY <2>2, <2>3, OverrunIsFull, SameCardinality DEF HK!HPress
  <2>4. ASSUME ~Overrun(keys, k), k \notin Held(keys) PROVE HK!HPress(k)
    BY <2>2, <2>4, RoomIsLeft, SameCardinality DEF HK!HPress
  <2>5. ASSUME ~Overrun(keys, k), k \in Held(keys) PROVE HK!HPress(k)
    BY <2>2, <2>5 DEF HK!HPress
  <2>6. HK!HPress(k)
    BY <2>3, <2>4, <2>5
  <2> QED BY <1>2, <2>1, <2>6, PressKeyDistinct
<1>3. CASE ~press
  <2>1. keys' = ReleaseKey(keys, k)
    BY <1>1, <1>3 DEF KeypressNormal
  <2> QED BY <1>3, <2>1, ReleaseKeyHeld, ReleaseKeyDistinct DEF HK!HRelease
<1> QED BY <1>2, <1>3

\* A keypress of any key changes the buffer only as the abstract press or
\* release of a key of the buffer does.
LEMMA KeypressRefines ==
  ASSUME keys \in Buffer, Compact(keys), Distinct(keys),
         NEW k \in Keys, NEW press \in BOOLEAN, keypressReport(k, press)
  PROVE  /\ HK!HNext \/ UNCHANGED keys
         /\ Distinct(keys')
<1>1. CASE k \in NormalKeys
  <2>1. /\ press => HK!HPress(k)
        /\ ~press => HK!HRelease(k)
        /\ Distinct(keys')
    BY <1>1, KeypressSimulates
  <2> QED BY <1>1, <2>1 DEF HK!HNext
<1>2. CASE k \notin NormalKeys
  <2>1. keys' = keys
    BY <1>2 DEF keypressReport, KeypressMedia, KeypressModifier, KeypressNormal
  <2> QED BY <2>1
<1> QED BY <1>1, <1>2

\* Every step keeps the buffer free of repetitions and changes the set of
\* held keys as HeldKeys allows, or not at all.
LEMMA RefinementStep ==
  ASSUME ReportsDistinct, SetInv, [Next]_vars
  PROVE  /\ HK!HNext \/ UNCHANGED keys
         /\ Distinct(keys')
<1>0. /\ TypeInv /\ TypeOK /\ keys \in Buffer
      /\ Compact(keys) /\ Distinct(keys)
  BY DEF SetInv, ClearInv, TypeInv, TypeOK, BufferCompact
<1> DEFINE P == (HK!HNext \/ UNCHANGED keys) /\ Distinct(keys')
<1> SUFFICES P
  OBVIOUS
<1>1. ASSUME UNCHANGED keys PROVE P
  BY <1>0, <1>1
<1>2. ASSUME keys' = EmptyBuffer PROVE P
  <2>1. Held(keys') = {} /\ Distinct(keys')
    BY <1>2, EmptyBufferFacts
  <2>2. HK!HReport({})
    BY <2>1 DEF HK!HReport
  <2> QED BY <2>1, <2>2 DEF HK!HNext
<1>3. ASSUME NEW h \in Handlers, HandleKeypress(h) PROVE P
  <2>1. CASE usbReady
    <3>1. keypressReport(hnd[h].key, hnd[h].press) /\ hnd[h].key \in Keys
      BY <1>0, <1>3, <2>1 DEF HandleKeypress, TypeInv, GoroutineKeys
    <3>2. hnd[h].press \in BOOLEAN
      BY <1>0, Zenon DEF HandlerState, TypeOK
    <3> QED BY <1>0, <3>1, <3>2, KeypressRefines
  <2>2. CASE ~usbReady
    BY <1>1, <1>3, <2>2 DEF HandleKeypress, gadget
  <2> QED BY <2>1, <2>2
<1>4. ASSUME NEW r \in Releasers, AutoRelease(r) PROVE P
  <2>1. keypressReport(rel[r].key, FALSE) /\ rel[r].key \in Keys
    BY <1>0, <1>4, SetsFacts DEF AutoRelease, TypeInv, GoroutineKeys
  <2>2. FALSE \in BOOLEAN
    BY Zenon
  <2> QED BY <1>0, <2>1, <2>2, KeypressRefines
<1>5. ASSUME NEW q \in Reports, ReportAll(q) PROVE P
  <2>1. q.keys \in RawReport /\ Distinct(q.keys)
    BY KeyboardAssumption DEF ReportsDistinct
  <2>2. keys' = StripMediaKeys(q.keys)
    BY <1>5 DEF ReportAll, KeyboardReport
  <2>3. HK!HReport(Held(StripMediaKeys(q.keys)))
    BY <2>2 DEF HK!HReport
  <2> QED BY <2>1, <2>2, <2>3, StripMediaKeysDistinct DEF HK!HNext
<1>6. ASSUME \/ usbReady /\ KeyboardReport({}, EmptyBuffer)
             \/ UNCHANGED gadget
      PROVE  P
  BY <1>1, <1>2, <1>6, EmptyReport DEF KeyboardReport, gadget
<1>7. CASE ClearKeys
  BY <1>6, <1>7 DEF ClearKeys
<1>8. CASE LastSessionDisconnected
  BY <1>6, <1>8 DEF LastSessionDisconnected
<1>9. ASSUME NEW h \in Handlers, SettleTimer(h) PROVE P
  BY <1>1, <1>9 DEF SettleTimer, gadget
<1>10. ASSUME NEW h \in Handlers, NEW k \in Keys, NEW press \in BOOLEAN, Dequeue(h, k, press)
       PROVE  P
  BY <1>1, <1>10 DEF Dequeue, gadget
<1>11. ASSUME NEW r \in Releasers, TakeEntry(r) \/ CheckDown(r) PROVE P
  BY <1>1, <1>11 DEF TakeEntry, CheckDown, gadget
<1>12. ASSUME NEW r \in Releasers, NEW k \in TimedKeys, TimerFires(k, r) PROVE P
  BY <1>1, <1>12 DEF TimerFires, gadget
<1>13. CASE DelayAutoRelease \/ CloseDone \/ NewSession \/ ClientStops \/ UsbChange
  BY <1>1, <1>13 DEF DelayAutoRelease, CloseDone, NewSession, ClientStops, UsbChange, gadget
<1>14. ASSUME NEW why \in {"close", "handoff"}, CancelAllAutoReleaseTimers(why) PROVE P
  BY <1>1, <1>14 DEF CancelAllAutoReleaseTimers, gadget
<1>15. CASE UNCHANGED vars
  BY <1>1, <1>15 DEF vars
<1> HIDE DEF P
<1> QED BY <1>3, <1>4, <1>5, <1>7, <1>8, <1>9, <1>10, <1>11, <1>12, <1>13, <1>14, <1>15
        DEF Next, HandlerStep, ReleaserStep

\* A keypress and an auto-release are the press or the release of their own key.
LEMMA SimulationStep ==
  ASSUME SetInv
  PROVE  StepSimulates
<1>0. /\ TypeInv /\ TypeOK /\ keys \in Buffer
      /\ Compact(keys) /\ Distinct(keys)
  BY DEF SetInv, ClearInv, TypeInv, TypeOK, BufferCompact
<1>1. ASSUME NEW h \in Handlers, HandleKeypress(h), usbReady, hnd[h].key \in NormalKeys
      PROVE  IF hnd[h].press THEN HK!HPress(hnd[h].key) ELSE HK!HRelease(hnd[h].key)
  <2>1. keypressReport(hnd[h].key, hnd[h].press)
    BY <1>1 DEF HandleKeypress
  <2>2. hnd[h].press \in BOOLEAN
    BY <1>0, Zenon DEF HandlerState, TypeOK
  <2> QED BY <1>0, <1>1, <2>1, <2>2, KeypressSimulates
<1>2. ASSUME NEW r \in Releasers, AutoRelease(r), rel[r].key \in NormalKeys
      PROVE  HK!HRelease(rel[r].key)
  <2>1. keypressReport(rel[r].key, FALSE)
    BY <1>2 DEF AutoRelease
  <2>2. FALSE \in BOOLEAN
    BY Zenon
  <2> QED BY <1>0, <1>2, <2>1, <2>2, KeypressSimulates
<1> QED BY <1>1, <1>2 DEF StepSimulates

\* The key buffer implements HeldKeys: as long as reports list no key twice,
\* keypressReport with its scan, shift to the left and rollover, the reports
\* that replace the whole state, the clears and the auto-releases of any
\* number of goroutines act on the buffer as on a set of at most
\* HidKeyBufferSize keys, each keypress on its own key.
THEOREM BufferImplementsSet ==
  ASSUME ReportsDistinct
  PROVE  Spec => ImplementsHeldKeys
<1>1. Init => SetInv /\ HK!HInit
  BY ClearInvInit, EmptyBufferFacts DEF Init, SetInv, HK!HInit
<1>2. SetInv /\ [Next]_vars => SetInv' /\ [HK!HNext]_(Held(keys)) /\ StepSimulates
  <2> SUFFICES ASSUME SetInv, [Next]_vars
               PROVE  SetInv' /\ [HK!HNext]_(Held(keys)) /\ StepSimulates
    OBVIOUS
  <2>1. (HK!HNext \/ UNCHANGED keys) /\ Distinct(keys')
    BY RefinementStep
  <2>2. ClearInv'
    BY ClearInvStep DEF SetInv
  <2> QED BY <2>1, <2>2, SimulationStep DEF SetInv
<1> QED BY <1>1, <1>2, PTL DEF Spec, ImplementsHeldKeys, HK!HSpec

\* An auto-release goroutine leaves its key up, whatever handlers, reports,
\* clears and other goroutines do to the buffer between its look and its
\* release, as long as reports list no key twice.
THEOREM AutoReleasesRelease ==
  ASSUME ReportsDistinct
  PROVE  Spec => AutoReleaseReleases
<1>1. SetInv /\ [Next]_vars =>
        [\A r \in Releasers : AutoReleaseEnds(r) => rel[r].key \notin Held(keys')]_vars
  <2> SUFFICES ASSUME SetInv, Next, NEW r \in Releasers, AutoReleaseEnds(r)
               PROVE  rel[r].key \notin Held(keys')
    OBVIOUS
  <2>0. /\ TypeInv /\ Compact(keys) /\ Distinct(keys) /\ keys \in Buffer
        /\ rel \in [Releasers -> ReleaserState]
        /\ rel[r].pc \in {"check", "release"} /\ rel'[r].pc = "idle"
    BY DEF SetInv, ClearInv, TypeInv, TypeOK, AutoReleaseEnds, BufferCompact
  <2>1. ASSUME NEW q \in Releasers, CheckDown(q) PROVE rel[r].key \notin Held(keys')
    <3>1. q = r /\ rel[r].key \notin Held(keys)
      BY <2>0, <2>1, PcFacts DEF CheckDown
    <3> QED BY <2>1, <3>1 DEF CheckDown, gadget
  <2>2. ASSUME NEW q \in Releasers, AutoRelease(q) PROVE rel[r].key \notin Held(keys')
    <3>1. q = r
      BY <2>0, <2>2 DEF AutoRelease
    <3>2. rel[r].key \in NormalKeys /\ keys' = ReleaseKey(keys, rel[r].key)
      BY <2>0, <2>2, <3>1, AutoReleaseEffect
    <3> QED BY <2>0, <3>2, ReleaseKeyHeld
  <2>3. ASSUME NEW q \in Releasers, TakeEntry(q) PROVE FALSE
    BY <2>0, <2>3 DEF TakeEntry
  <2>4. ASSUME NEW q \in Releasers, NEW k \in TimedKeys, TimerFires(k, q) PROVE FALSE
    BY <2>0, <2>4 DEF TimerFires
  <2>5. CASE rel' = rel
    BY <2>0, <2>5
  <2>6. \/ \E q \in Releasers : ReleaserStep(q) \/ \E k \in TimedKeys : TimerFires(k, q)
        \/ rel' = rel
    BY DEF Next, HandlerStep, HandleKeypress, SettleTimer, Dequeue, ReportAll, DelayAutoRelease,
           CancelAllAutoReleaseTimers, ClearKeys, CloseDone, LastSessionDisconnected, NewSession,
           ClientStops, UsbChange
  <2> QED BY <2>1, <2>2, <2>3, <2>4, <2>5, <2>6 DEF ReleaserStep
<1>2. SetInv /\ [Next]_vars => SetInv'
  BY RefinementStep, ClearInvStep DEF SetInv
<1>3. Init => SetInv
  BY ClearInvInit, EmptyBufferFacts DEF Init, SetInv
<1> QED BY <1>1, <1>2, <1>3, PTL DEF Spec, AutoReleaseReleases

\* The auto-release of hid_keyboard.go releases its key and no modifier, in
\* every interleaving with the handlers and the clears, for reports without
\* repeated keys.
THEOREM AutoReleaseIsExact ==
  ASSUME ReportsDistinct
  PROVE  Spec => AutoReleaseExact
BY ModifiersSurviveAutoRelease, AutoReleasesRelease DEF AutoReleaseExact

----------------------------------------------------------------------------
(* The macros, which drive the same keyboard: KeyboardMacro, for any number *)
(* of goroutines and macros of any length.                                  *)

\* A running macro is at one of its own steps.
StepInv ==
  \A t \in Threads : pc[t] # "idle" /\ pc[t] # "register" =>
    pairs[t] >= 1 /\ idx[t] <= LastStep(t)
ChosenInv == \A t \in Threads : pc[t] = "register" => pairs[t] >= 1

\* A goroutine whose press is down is about to send its next report, or waits
\* after a press, which is never the last step; or its macro is spoiled.  The
\* first case has no parity: a macro may begin with a press that a spoiled
\* one of the same goroutine left down.
PressInv ==
  \A t \in Threads : kbd = t /\ t \notin spoiled =>
    pc[t] = "report" \/ (pc[t] = "sleep" /\ IsPress(idx[t]))

MacroInv == MacroTypeOK /\ StepInv /\ ChosenInv /\ PressInv

\* The steps alternate, and the last one is a release.
LEMMA LastIsRelease ==
  ASSUME NEW n \in Nat PROVE ~IsPress(2 * n - 1)
BY DEF IsPress

\* The invariant holds when the program starts.
LEMMA MacroInvInit ==
  MacroInit => MacroInv
BY MacroAssumption DEF MacroInit, MacroInv, MacroTypeOK, StepInv, ChosenInv, PressInv

\* A step of a macro's own goroutine preserves the invariant.
LEMMA MacroStepInv ==
  ASSUME MacroInv, NEW t \in Threads, MacroStep(t)
  PROVE  MacroInv'
<1> USE MacroAssumption DEF MacroInv, MacroTypeOK, StepInv, ChosenInv, PressInv, LastStep
<1>1. CASE Register(t)
  BY <1>1 DEF Register
<1>2. CASE Report(t)
  BY <1>2 DEF Report
<1>3. CASE DelayElapses(t)
  <2>1. CASE idx[t] = LastStep(t)
    <3>1. ~IsPress(idx[t])
      BY <2>1, LastIsRelease
    <3> QED BY <1>3, <2>1, <3>1 DEF DelayElapses
  <2>2. CASE idx[t] # LastStep(t)
    BY <1>3, <2>2 DEF DelayElapses
  <2> QED BY <2>1, <2>2
<1>4. CASE Cancelled(t)
  BY <1>4 DEF Cancelled
<1>5. CASE Finish(t)
  BY <1>5 DEF Finish
<1> QED BY <1>1, <1>2, <1>3, <1>4, <1>5 DEF MacroStep

\* Every step preserves the invariant.
LEMMA MacroInvStep ==
  MacroInv /\ [MacroNext]_macroVars => MacroInv'
<1> SUFFICES ASSUME MacroInv, [MacroNext]_macroVars PROVE MacroInv'
  OBVIOUS
<1>1. ASSUME NEW t \in Threads, MacroStep(t) PROVE MacroInv'
  BY <1>1, MacroStepInv
<1>2. ASSUME NEW t \in Threads, NEW n \in 1..MaxPairs, Execute(t, n) PROVE MacroInv'
  BY <1>2
     DEF Execute, cancelKeyboardMacro, MacroInv, MacroTypeOK, StepInv, ChosenInv, PressInv, LastStep
<1>3. CASE CancelRequest
  BY <1>3 DEF CancelRequest, cancelKeyboardMacro, MacroInv, MacroTypeOK, StepInv, ChosenInv,
              PressInv, LastStep
<1>4. CASE ReadyChange \/ UNCHANGED macroVars
  BY <1>4 DEF ReadyChange, macroVars, MacroInv, MacroTypeOK, StepInv, ChosenInv, PressInv, LastStep
<1> QED BY <1>1, <1>2, <1>3, <1>4 DEF MacroNext

\* The inductive invariant of the macros holds.
LEMMA MacroInvHolds ==
  MacroSpec => []MacroInv
BY MacroInvInit, MacroInvStep, PTL DEF MacroSpec

\* A macro that has ended, run to its last step or cancelled anywhere, by
\* whichever of the goroutines that share keyboardMacroCancel, leaves no press
\* of its own down, unless a report failed or its clear was skipped.
THEOREM MacroLeavesNothingDown ==
  MacroSpec => []EndedMacroHoldsNothing
<1>1. MacroInv => EndedMacroHoldsNothing
  BY DEF MacroInv, PressInv, EndedMacroHoldsNothing
<1> QED BY <1>1, MacroInvHolds, PTL
============================================================================
