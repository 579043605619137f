--------------------------- MODULE MCNativeRestart ---------------------------
(* Bytes of two binary digits, blocks of a byte and its checksum.           *)
EXTENDS NativeRestart

MCDefault == <<1, 1, 0, 0, 0, 1, 0, 0>>
MCInputs ==
  { <<0, 0, 0, 1, 1, 1, 0, 1>>,  \* two blocks, the first one without a sum
    <<1, 0, -2, 1>>,             \* not a number (Junk)
    <<-1, 1, 0, 0>>,             \* what strtol takes for one (Sign)
    <<1, 0>> }                   \* half a block

MCScopes ==
  { [parts |-> {"host"}, events |-> 3],
    [parts |-> {"panel"}, events |-> 3],
    [parts |-> {"cloud"}, events |-> 3],
    [parts |-> {"status"}, events |-> 5],
    [parts |-> {"host", "panel"}, events |-> 1] }
============================================================================
