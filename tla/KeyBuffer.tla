----------------------------- MODULE KeyBuffer -----------------------------
(***************************************************************************)
(* The six-slot key buffer of the USB keyboard gadget                      *)
(* (internal/usbgadget/hid_keyboard.go, hid_consumer.go): the pure         *)
(* functions keypressReport and KeyboardReport compute on it.  A buffer is *)
(* a function on Slots; NoKey is the zero byte that marks a free slot.     *)
(* Key codes are abstracted to three disjoint sets: keys of the buffer,    *)
(* media keys (sent on the Consumer Control report) and modifiers (kept as *)
(* a mask outside the buffer).                                             *)
(***************************************************************************)
EXTENDS Naturals, FiniteSets

CONSTANTS HidKeyBufferSize,   \* hidKeyBufferSize, 6 in the code
          NormalKeys,         \* key codes kept in the buffer
          MediaKeys,          \* key codes of keyboardMediaKeyBits
          NoKey               \* the zero byte

ASSUME BufferAssumption ==
  /\ HidKeyBufferSize \in Nat \ {0}
  /\ NoKey \notin NormalKeys \cup MediaKeys
  /\ NormalKeys \cap MediaKeys = {}

Slots == 1..HidKeyBufferSize
Buffer == [Slots -> NormalKeys \cup {NoKey}]

\* A client's KeyboardReport, padded or cut to the buffer's size: zero bytes
\* and media keys may stand anywhere.
RawReport == [Slots -> NormalKeys \cup MediaKeys \cup {NoKey}]

EmptyBuffer == [i \in Slots |-> NoKey]

\* The keys a buffer says are down.
Held(b) == {k \in NormalKeys : \E i \in Slots : b[i] = k}

----------------------------------------------------------------------------
(* keypressReport: the scan of the buffer for a slot. *)

SlotFor(b, k) == {i \in Slots : b[i] = k \/ b[i] = NoKey}
FirstSlot(b, k) == CHOOSE i \in SlotFor(b, k) : \A j \in SlotFor(b, k) : i <= j
Overrun(b, k) == SlotFor(b, k) = {}

\* A press puts the key in its slot.  On overrun every slot of the report
\* becomes ErrorRollOver, and UpdateKeysDown then zeroes the whole buffer.
PressKey(b, k) ==
  IF Overrun(b, k) THEN EmptyBuffer
                   ELSE [b EXCEPT ![FirstSlot(b, k)] = k]

\* Mutant: the copy to the left starts one slot late.
RemoveNext(b, i) ==
  [j \in Slots |-> IF j <= i THEN b[j]
                   ELSE IF j = HidKeyBufferSize THEN NoKey
                   ELSE b[j + 1]]

\* Removing slot i shifts the later slots left and frees the last one.
RemoveSlot(b, i) ==
  [j \in Slots |-> IF j < i THEN b[j]
                   ELSE IF j = HidKeyBufferSize THEN NoKey
                   ELSE b[j + 1]]

\* A release removes the key when the scan stops at it; a scan that stops at
\* a free slot, or finds none, changes nothing.
ReleaseKey(b, k) ==
  IF Overrun(b, k) \/ b[FirstSlot(b, k)] = NoKey
    THEN b
    ELSE RemoveSlot(b, FirstSlot(b, k))

----------------------------------------------------------------------------
(* stripMediaKeys: what KeyboardReport keeps of a report. *)

Kept(r) == {p \in Slots : r[p] \in NormalKeys}
KeptUpTo(r, p) == Cardinality({q \in Kept(r) : q <= p})

\* Slot i holds the i-th key of the report that is neither zero nor media.
StripMediaKeys(r) ==
  [i \in Slots |->
     IF i <= Cardinality(Kept(r))
       THEN r[CHOOSE p \in Kept(r) : KeptUpTo(r, p) = i]
       ELSE NoKey]

\* The media keys of the report, i.e. the consumer bits it asks for.
ConsumerBits(r) == {m \in MediaKeys : \E i \in Slots : r[i] = m}

----------------------------------------------------------------------------
(* What the operations rely on. *)

\* Free slots stand after every key: keypressReport stops its scan at the
\* first zero byte, so a key behind a hole could never be released.
Compact(b) ==
  \A i, j \in Slots : i < j /\ b[i] = NoKey => b[j] = NoKey

\* No key stands twice: a release removes one slot only.
Distinct(b) ==
  \A i, j \in Slots : i # j /\ b[i] = b[j] => b[i] = NoKey
============================================================================
