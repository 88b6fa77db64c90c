------------------------------ MODULE MCDaemon ------------------------------
(***************************************************************************)
(* Small instances of Daemon for TLC.                                      *)
(***************************************************************************)
EXTENDS Daemon

\* A full request, one for the files only and one for an update.
MCSignals == {{"file", "pkg", "update"}, {"file"}, {"update"}}

\* A broadcast, lists with this host's address or name, one of other hosts.
MCDests == {{}, {"10.0.0.2", "hostB"}, {"hostA", "hostC"}, {"hostC"}}

\* The address of the configured device, or what is left when its ioctl fails.
MCLocalIps == {"10.0.0.2", "0.0.0.0"}
=============================================================================
