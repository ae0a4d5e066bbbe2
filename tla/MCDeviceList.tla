--------------------------- MODULE MCDeviceList ---------------------------
(***************************************************************************)
(* DeviceList with up to two of two devices: one has a serial that reads   *)
(* like the word of a failure and three spaces of padding.                 *)
(***************************************************************************)
EXTENDS DeviceList

MCChars == FormatChars \cup HeaderChars \cup {"F", "A", "I", "L", "b", "2"}
MCDevices ==
  { [serial |-> <<"F", "A", "I", "L">>, pad |-> 3, state |-> "kCsDevice", id |-> <<"2", "0">>],
    [serial |-> <<"b">>, pad |-> 1, state |-> "kCsOffline", id |-> <<"2">>] }
=============================================================================
