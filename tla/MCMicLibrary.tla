---------------------------- MODULE MCMicLibrary ----------------------------
(***************************************************************************)
(* MicLibrary on two shares whose locations begin alike, a host called     *)
(* host1 beside host10, and machines whose files are as usual, have a      *)
(* colon in a value, or lack a key.                                        *)
(***************************************************************************)
EXTENDS MicLibrary

MCShares == {"sync", "sync2"}
MCFound == {<<s, s>> : s \in MCShares} \cup {<<"sync", "sync2">>}

MCOneChar == {"sp", "tab", "=", ":", "#", "'", ",", "0", "1", "2"}
MCHostname == <<"host", "1">>
MCNics == (<<"eth0">> :> <<"ip">>)

Dests == {<<>>, <<"host", "1">>, <<"host", "1", "0", ",", "host", "2">>,
          <<",", "host", "2", ",", ",", "host", "1", ",">>, <<"host", "2", ",", "ip">>,
          <<"0", ",", "host">>}
Ask(d, s, p, l) == [dest |-> d, sync |-> s, pkg |-> p, upd |-> ~s, loc |-> l]
\* How a request is addressed goes with one that leads to nothing but scripts.
MCRequests ==
    {[Ask(d, FALSE, FALSE, "sync") EXCEPT !.upd = FALSE] : d \in Dests}
    \cup {Ask(<<>>, TRUE, TRUE, "sync"), Ask(<<>>, TRUE, FALSE, "sync2"), Ask(<<>>, FALSE, TRUE, "sync")}

Plugins == <<"plugindir", "sp", "=", "sp", "scripts">>
MCConfs == {
    <<Plugins, <<"sp", "device", "=", "eth0", "tab">>, <<"#", "device", "=", "eth1">> >>,
    <<Plugins, <<"device", "sp", "=", "sp", "'", "eth0", "'">> >>,
    <<Plugins, <<"sp">>, <<"device", "=", "eth1">>, <<"device", "=", "eth0">> >>,
    <<Plugins>>,
    <<<<"device", "=", "eth0">> >>}

Line(key, value) == <<key, "tab", ":", "sp">> \o value
Cpu(n, name) == <<Line("processor", <<n>>), Line("model name", name), Line("cpu MHz", <<"m", n>>),
    Line("cache size", <<"c", n>>), Line("cpu cores", <<"2">>), Line("flags", <<"f", n>>)>>
Mem == <<Line("MemTotal", <<"t">>), Line("MemFree", <<"f">>), Line("Cached", <<"c">>),
         Line("SwapCached", <<"sc">>), Line("SwapTotal", <<"st">>), Line("SwapFree", <<"sf">>)>>
Usual == [cpu |-> Cpu("0", <<"A">>) \o << <<>> >> \o Cpu("1", <<"B">>) \o << <<>> >>, mem |-> Mem]
MCMachines == {
    Usual,
    [cpu |-> Cpu("0", <<"A", ":", "B">>), mem |-> Tail(Mem)],
    [cpu |-> Tail(Cpu("0", <<"A">>)), mem |-> SubSeq(Mem, 1, 5)]}

ASSUME TidyAssumption == ProcIsTidy

\* The machine matters to the reports only, and the configuration to what is
\* taken and whether scripts run: all goes with what is usual.
Shipped == <<Plugins, <<"sp", "device", "=", "eth0", "tab">>, <<"#", "device", "=", "eth1">> >>
MCInit == LibInit /\ (machine = Usual \/ conf = Shipped)
MCSpec == MCInit /\ [][LibNext]_allVars
\* An address list is not followed further, and a lookup fails before the first
\* report or for want of descriptors.
Focus == /\ machine = Usual \/ requests = 0
         /\ conf = Shipped \/ (syncs = 0 /\ reports = 0)
         /\ reports = 0 \/ lookup = "sound" \/ ~ShellWorks
         /\ result.of = "parse" => result.dest = <<>>
=============================================================================
