---------------------------- MODULE AdbCommands ----------------------------
(***************************************************************************)
(* The commands of HostCommand, HostSerialCommand and LocalCommand.  They  *)
(* all run the same steps (CommandSession) and differ in three things:     *)
(*   initial  the value `status` has before any reply                      *)
(*   reader   how the message callback reads a chunk (AdbProtocol)         *)
(*   keeps    what it does with the text it reads: "appends" it to the     *)
(*            caller's string, "replaces" what the last chunk left,        *)
(*            "parses" it as a number, or "drops" it                       *)
(* track_devices is not here: it returns without waiting for the reply.    *)
(***************************************************************************)
EXTENDS AdbProtocol

CommandRecords == [initial : Statuses,
                   reader  : Readers,
                   keeps   : {"appends", "replaces", "parses", "drops"}]

Cmd(initial, reader, keeps) ==
  [initial |-> initial, reader |-> reader, keeps |-> keeps]

\* HostCommand.  get_devices alone starts with status 0.
get_version           == Cmd(-1, "protocol", "parses")
get_devices           == Cmd( 0, "protocol", "appends")
get_devices_with_path == Cmd(-1, "protocol", "appends")
kill                  == Cmd(-1, "protocol", "drops")
connect               == Cmd(-1, "protocol", "drops")
disconnect            == Cmd(-1, "protocol", "drops")

\* HostSerialCommand
forward          == Cmd(-1, "protocol", "drops")
list_forward     == Cmd(-1, "protocol", "appends")
kill_forward     == Cmd(-1, "protocol", "drops")
kill_forward_all == Cmd(-1, "protocol", "drops")
get_device_path  == Cmd(-1, "protocol", "appends")
get_serial_no    == Cmd(-1, "protocol", "appends")
get_state        == Cmd(-1, "protocol", "appends")

\* LocalCommand: the first request selects the device (host:transport), the
\* callback then writes the service request on the same connection.
shell            == Cmd( 0, "shell", "replaces")
sync             == Cmd(-1, "transport", "drops")
screencap        == Cmd(-1, "screencap", "appends")
tcpip            == Cmd(-1, "transport", "drops")
usb              == Cmd(-1, "transport", "drops")
root             == Cmd(-1, "transport", "drops")
reverse          == Cmd(-1, "transport", "drops")
list_reverse     == Cmd(-1, "list_reverse", "appends")
kill_reverse     == Cmd(-1, "transport", "drops")
kill_reverse_all == Cmd(-1, "transport", "drops")

\* These three call shell with a fixed command.
list_packages  == shell
get_properties == shell
logcat         == shell

Commands == {get_version, get_devices, get_devices_with_path, kill, connect,
             disconnect, forward, list_forward, kill_forward, kill_forward_all,
             get_device_path, get_serial_no, get_state, shell, sync, screencap,
             tcpip, usb, root, reverse, list_reverse, kill_reverse,
             kill_reverse_all, list_packages, get_properties, logcat}
=============================================================================
