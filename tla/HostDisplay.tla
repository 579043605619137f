----------------------------- MODULE HostDisplay -----------------------------
(***************************************************************************)
(* The display the controlled host believes it has: the EDID in the        *)
(* capture chip, written by edid.c and ctrl.c on behalf of video.go and    *)
(* jsonrpc.go.  It is shown with the configured EDID while it is           *)
(* advertised, and hidden (no block, hot-plug low) while it is not.        *)
(*                                                                         *)
(* A hex string is a sequence of digits; the number of digits and the size *)
(* of a block are parameters, 16 and 128 in the code.  The chip keeps its  *)
(* EDID when the native process dies; a call in between fails.  Writes     *)
(* exclude each other (hostDisplayAdvertiseLock), so each is one step.     *)
(***************************************************************************)
EXTENDS Integers, Sequences, FiniteSets

CONSTANTS Radix, BlockSize,
          DefaultEDID,   \* native.DefaultEDID
          Inputs         \* strings users ask for

\* Characters that are no digit: one strtol skips in front of a digit (a sign
\* or a blank), any other one, and the one of the internal sentinel.
Sign == -1
Junk == -2
DisabledEDID == << -3 >>

Digit == 0 .. Radix - 1
Byte == 0 .. Radix * Radix - 1
MaxBlocks == 2

VARIABLES
  native,      \* the native process runs (shared with the panel)
  config,      \* config.EdidString and config.HideDisplayWhenIdle
  session,     \* getActiveSessions() > 0
  edge,        \* onFirstSessionConnected or onLastSessionDisconnected to run
  rpc,         \* the handler of rpcSetEDID or rpcSetHostDisplayIdleMode
  reapply,     \* reapplyHostDisplayAdvertisement of a start to run
  advertised,  \* hostDisplayAdvertised
  device,      \* the EDID in the chip, in bytes
  stale        \* history: a write failed, and no later one has made up for it

vars == <<native, config, session, edge, rpc, reapply, advertised, device, stale>>

----------------------------------------------------------------------------
(* ctrl.c and edid.c. *)

Invalid == << -1 >>

\* strtol on two characters, -1 when it does not take both.
PairValue(c, d) ==
  IF d \notin Digit THEN -1
  ELSE IF c \in Digit THEN Radix * c + d ELSE IF c = Sign THEN d ELSE -1

hex_to_bytes(hex, max) ==
  LET value == [i \in 1 .. Len(hex) \div 2 |-> PairValue(hex[2 * i - 1], hex[2 * i])]
  IN IF Len(hex) % 2 # 0 \/ Len(hex) \div 2 > max \/ \E i \in DOMAIN value : value[i] = -1
     THEN Invalid ELSE value

\* NULL, here the empty string, for no bytes.
bytes_to_hex(bytes) ==
  [i \in 1 .. 2 * Len(bytes) |->
     IF i % 2 = 1 THEN bytes[(i + 1) \div 2] \div Radix ELSE bytes[i \div 2] % Radix]

\* The sum of the first n bytes of a block, as a uint8_t.
BlockSum(bytes, block, n) ==
  LET sum[i \in 0 .. n] ==
        IF i = 0 THEN 0 ELSE (sum[i - 1] + bytes[block * BlockSize + i]) % (Radix * Radix)
  IN sum[n]

\* Mutant: the extension block is left alone.
ChecksumFirstBlock(bytes) ==
  [i \in DOMAIN bytes |->
     IF i # BlockSize THEN bytes[i]
     ELSE (Radix * Radix - BlockSum(bytes, 0, BlockSize - 1)) % (Radix * Radix)]
fix_edid_checksum(bytes) ==
  [i \in DOMAIN bytes |->
     IF i % BlockSize # 0 THEN bytes[i]
     ELSE (Radix * Radix - BlockSum(bytes, i \div BlockSize - 1, BlockSize - 1)) % (Radix * Radix)]

\* set_edid takes no, one or two blocks.
Accepted(bytes) == bytes # Invalid /\ Len(bytes) \in {BlockSize * n : n \in 0 .. MaxBlocks}

\* jetkvm_video_set_edid, down to the chip: the call fails, also when the
\* device cannot be opened or refuses, or the chip has the EDID.
WriteEdid(hex) ==
  LET bytes == hex_to_bytes(hex, BlockSize * MaxBlocks)
  IN IF native /\ Accepted(bytes) THEN {fix_edid_checksum(bytes)} ELSE {}

\* jetkvm_video_get_edid_hex.
ReadEdid == bytes_to_hex(device)

----------------------------------------------------------------------------
(* video.go *)

configuredVideoEDID == IF config.edid \in {<<>>, DisabledEDID} THEN DefaultEDID ELSE config.edid
shouldAdvertise == ~config.hide \/ session

\* VideoSetEDID of the native side translates the sentinel.
Wire(edid) == IF edid = DisabledEDID THEN <<>> ELSE IF edid = <<>> THEN DefaultEDID ELSE edid

\* A handler that found an error is going to take its change back.
Undoing == rpc.pc = "undo"

WriteOk(enabled) ==
  \E bytes \in WriteEdid(Wire(IF enabled THEN configuredVideoEDID ELSE DisabledEDID)) :
    /\ device' = bytes /\ advertised' = enabled
    /\ stale' = (stale /\ Undoing)
WriteFails == stale' = TRUE /\ UNCHANGED <<device, advertised>>

\* setHostDisplayAdvertisedLocked, when it succeeds and when it does not.
Update(enabled, force) ==
  IF ~force /\ enabled = advertised THEN UNCHANGED <<device, advertised, stale>>
  ELSE WriteOk(enabled)
UpdateFails(enabled, force) ==
  (force \/ enabled # advertised) /\ WriteFails

----------------------------------------------------------------------------
(* jsonrpc.go: both calls change the configuration, apply it, save it, and *)
(* take the change back when a step fails.                                 *)

NoRpc == [pc |-> "idle", force |-> FALSE, prev |-> [edid |-> <<>>, hide |-> FALSE]]
Goto(pc) == rpc' = [rpc EXCEPT !.pc = pc]
Return == rpc' = NoRpc

Begin(force, new) ==
  /\ rpc.pc = "idle"
  /\ rpc' = [pc |-> "apply", force |-> force, prev |-> config]
  /\ config' = new
  /\ UNCHANGED <<native, session, edge, reapply, advertised, device, stale>>

rpcSetEDID(edid) ==
  edid # DisabledEDID /\ Begin(TRUE, [config EXCEPT !.edid = edid])
rpcSetHostDisplayIdleMode(enabled) ==
  enabled # config.hide /\ Begin(FALSE, [config EXCEPT !.hide = enabled])

\* Mutant: what cannot be applied is tried again.
ApplyRetries ==
  /\ rpc.pc = "apply"
  /\ \/ Update(shouldAdvertise, rpc.force) /\ Goto("save")
     \/ UpdateFails(shouldAdvertise, rpc.force) /\ UNCHANGED rpc
  /\ UNCHANGED <<native, config, session, edge, reapply>>
RpcApply ==
  /\ rpc.pc = "apply"
  /\ \/ Update(shouldAdvertise, rpc.force) /\ Goto("save")
     \/ UpdateFails(shouldAdvertise, rpc.force) /\ Goto("undo")
  /\ UNCHANGED <<native, config, session, edge, reapply>>

\* SaveConfig.
RpcSave ==
  /\ rpc.pc = "save"
  /\ Return \/ Goto("revert")
  /\ UNCHANGED <<native, config, session, edge, reapply, advertised, device, stale>>

\* The change could not be applied, or not be saved.
RpcUndo ==
  /\ rpc.pc \in {"undo", "revert"}
  /\ config' = rpc.prev
  /\ IF rpc.pc = "undo" THEN Return ELSE Goto("rollback")
  /\ UNCHANGED <<native, session, edge, reapply, advertised, device, stale>>

\* Mutant: the saved failure is not rolled back on the device.
RollbackNot ==
  /\ rpc.pc = "rollback"
  /\ Return
  /\ UNCHANGED <<native, config, session, edge, reapply, advertised, device, stale>>
RpcRollback ==
  /\ rpc.pc = "rollback"
  /\ Update(shouldAdvertise, rpc.force) \/ UpdateFails(shouldAdvertise, rpc.force)
  /\ Return
  /\ UNCHANGED <<native, config, session, edge, reapply>>

\* rpcGetEDID.
rpcGetEDID == IF advertised THEN ReadEdid ELSE configuredVideoEDID

----------------------------------------------------------------------------
(* Sessions come and go; native starts and restarts. *)

SessionEdge ==
  /\ edge = "none"
  /\ session' = ~session
  /\ edge' = IF session THEN "last" ELSE "first"
  /\ UNCHANGED <<native, config, rpc, reapply, advertised, device, stale>>

\* The first session shows the display, the last one leaves it to the rule.
EdgeApply ==
  /\ edge # "none"
  /\ LET enabled == edge = "first" \/ shouldAdvertise
     IN Update(enabled, FALSE) \/ UpdateFails(enabled, FALSE)
  /\ edge' = "none"
  /\ UNCHANGED <<native, config, session, rpc, reapply>>

Reapply ==
  /\ reapply
  /\ Update(shouldAdvertise, TRUE) \/ UpdateFails(shouldAdvertise, TRUE)
  /\ reapply' = FALSE
  /\ UNCHANGED <<native, config, session, edge, rpc>>

Init ==
  /\ native = TRUE
  /\ config \in [edid : {<<>>}, hide : BOOLEAN]
  /\ session = FALSE /\ edge = "none" /\ rpc = NoRpc
  /\ reapply = TRUE /\ advertised = FALSE
  /\ device \in {<<>>, fix_edid_checksum(hex_to_bytes(DefaultEDID, BlockSize * MaxBlocks))}
  /\ stale = TRUE

\* Stimuli from outside, and the steps they lead to.
Stimulus == \/ \E edid \in Inputs : rpcSetEDID(edid)
            \/ \E enabled \in BOOLEAN : rpcSetHostDisplayIdleMode(enabled)
            \/ SessionEdge
Step == RpcApply \/ RpcSave \/ RpcUndo \/ RpcRollback \/ EdgeApply \/ Reapply

----------------------------------------------------------------------------
(* Properties. *)

\* Every variable has its type.
TypeOK ==
  /\ config.edid \in Inputs \cup {<<>>} /\ config.hide \in BOOLEAN
  /\ edge \in {"none", "first", "last"}
  /\ rpc.pc \in {"idle", "apply", "save", "undo", "revert", "rollback"}
  /\ \A i \in DOMAIN device : device[i] \in Byte
  /\ {native, session, reapply, advertised, stale} \subseteq BOOLEAN

Rest == edge = "none" /\ rpc.pc = "idle" /\ ~reapply

WellFormed(hex) == \A i \in DOMAIN hex : hex[i] \in Digit

\* What a string of digits stands for, leaving the checksum bytes open.
Denotes(hex, bytes) ==
  /\ Len(hex) = 2 * Len(bytes)
  /\ \A i \in DOMAIN bytes : i % BlockSize # 0 => bytes[i] = Radix * hex[2 * i - 1] + hex[2 * i]

\* At rest, and unless the last write failed, the chip has the configured
\* EDID exactly when the host is to see a display, and no block otherwise:
\* after changes that were applied, saved or taken back, after sessions came
\* and went, and after the native process was restarted.
DeviceMatchesConfig ==
  Rest /\ ~stale =>
    /\ advertised = shouldAdvertise
    /\ IF shouldAdvertise
       THEN WellFormed(configuredVideoEDID) => Denotes(configuredVideoEDID, device)
       ELSE device = <<>>

\* Every block in the chip adds up to zero, whatever checksum the user's EDID
\* had (set_edid corrects it on the way to the chip).
ChecksumsRight ==
  \A b \in 0 .. Len(device) \div BlockSize - 1 : BlockSum(device, b, BlockSize) = 0

\* What rpcGetEDID returns can be given to rpcSetEDID, and leads to the EDID
\* the chip has: hex_to_bytes undoes bytes_to_hex.
ReadBack ==
  advertised =>
    fix_edid_checksum(hex_to_bytes(rpcGetEDID, BlockSize * MaxBlocks)) = device
============================================================================
