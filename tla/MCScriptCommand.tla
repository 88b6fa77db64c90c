-------------------------- MODULE MCScriptCommand --------------------------
(***************************************************************************)
(* ScriptCommand with five names, one of them hidden, and configurations   *)
(* that are as shipped, name another directory, or are not accepted.       *)
(***************************************************************************)
EXTENDS ScriptCommand

MCPluginDir == <<"scripts">>
Setting(key, value) == <<key, "sp", "=", "sp", "'", value, "'">>
MCConfs == {
    <<<<"#">>, Setting("plugindir", "scripts"), Setting("loglevel", "1"), Setting("device", "eth0")>>,
    <<Setting("plugindir", "plugins")>>,
    <<Setting("plugindir", "scripts"), <<"sp", "#">> \o Setting("plugindir", "plugins")>>,
    <<<<"plugindir", "=", "scripts">> >>}
MCLetters == {"plugindir", "loglevel", "device", "scripts", "plugins"}
MCWords == MCLetters \cup {"eth0", "1"}

\* Datagrams come while one script runs; without them the directory is any and
\* changes.
MCInit ==
    /\ CmdInit
    /\ \/ datagrams = 0 /\ edits = MaxEdits
       \/ datagrams > 0 /\ edits = 0 /\ dir = {3}
MCSpec == MCInit /\ [][CmdNext]_allVars /\ WF_vars(Execute)
=============================================================================
