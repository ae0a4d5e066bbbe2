------------------------- MODULE MCCommandSession -------------------------
(***************************************************************************)
(* CommandSession with short scripts.                                      *)
(***************************************************************************)
EXTENDS CommandSession

\* Three calls: a start posted by one call can be taken by the next and meet
\* the one after it.
ThreeCalls == <<get_version, get_devices, shell>>

\* The commands that HostCommandTest (unittest/command_test.cpp) runs.
HostCommandTest == <<get_version, get_devices, get_devices_with_path>>
=============================================================================
