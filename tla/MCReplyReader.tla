--------------------------- MODULE MCReplyReader ---------------------------
(***************************************************************************)
(* ReplyReader with one command of each way to read and to keep a reply,   *)
(* and payloads around the four bytes at which the code changes its mind.  *)
(***************************************************************************)
EXTENDS ReplyReader

Host == {get_version, get_devices, get_devices_with_path, forward}
Device == {shell, sync, list_reverse, screencap}

Conversations(delivery, commands, answers, payloads) ==
  [command : commands, answer : answers, payload : payloads, delivery : {delivery}]

EveryWrite ==
  Conversations("writes", Host \cup Device, {"OKAY"}, 0 .. 8)
    \cup Conversations("writes", Host \cup Device, {"FAIL"}, 0 .. 2)
    \cup Conversations("writes", Device, {"noservice"}, 0 .. 2)
Together == Conversations("coalesced", Host, {"OKAY"}, 0 .. 14)
Pieces   == Conversations("any", Host, {"OKAY", "FAIL"}, {0, 3})
              \cup Conversations("any", Device, Answers, {0, 3})
Everything == EveryWrite \cup Together \cup Pieces

TwoDevices == Conversations("any", {get_devices}, {"OKAY"}, {2})
NoDevice   == Conversations("writes", {kill_forward}, {"FAIL"}, {2})
=============================================================================
