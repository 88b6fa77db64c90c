--------------------------- MODULE ScriptCommand ---------------------------
(***************************************************************************)
(* The last command of a request and the receiver beside it. The executor  *)
(* thread runs a script command (ScriptExecutor) with g_mutex held, logs   *)
(* its result, and lets the mutex go; the receiver logs each datagram      *)
(* before it takes the mutex (main.cpp:119) and again, with it, in         *)
(* parse_command. What it queues there, the executor thread runs next; of  *)
(* that command only its log calls are shown.                              *)
(***************************************************************************)
EXTENDS ScriptExecutor, Logging

CONSTANT MaxDatagrams      \* bound: datagrams

ASSUME CommandAssumption == Threads = {"exec", "main"} /\ {"info", "error"} \subseteq Levels

VARIABLES
    mutex,      \* "exec", "main" or "free"
    exec,       \* the executor thread's next statement
    main,       \* the receiver's next statement
    queued,     \* commands pushed and not yet started
    datagrams   \* still to come

cmdVars == <<mutex, exec, main, queued, datagrams>>
allVars == <<vars, logVars, cmdVars>>

CmdInit ==
    /\ Init /\ LogInit
    /\ mutex = "exec" /\ exec = "scripts" /\ main = "recv"
    /\ queued = 0 /\ datagrams \in 0..MaxDatagrams

\* The process is there, and a thread's last log call has returned.
Goes(t) == pc \notin {"aborted", "exited"} /\ ~Active(t)

(***************************************************************************)
(* LAScriptCommand::execute, and the commands after it.                    *)
(***************************************************************************)
RunScripts ==
    /\ exec = "scripts" /\ Execute
    /\ UNCHANGED <<logVars, cmdVars>>

LogResult ==
    /\ exec = "scripts" /\ pc = "done" /\ Goes("exec")
    /\ LogCall("exec", "info", "script command", TRUE)
    /\ exec' = "release"
    /\ UNCHANGED <<vars, mutex, main, queued, datagrams>>

\* The queue is empty, or the next command is executed.
NextCommand ==
    /\ exec = "release" /\ Goes("exec") /\ queued > 0
    /\ queued' = queued - 1
    /\ LogCall("exec", "info", "other command", TRUE)
    /\ UNCHANGED <<vars, mutex, exec, main, datagrams>>

Wait ==
    /\ exec = "release" /\ Goes("exec") /\ queued = 0
    /\ mutex' = "free" /\ exec' = "waiting"
    /\ UNCHANGED <<vars, logVars, main, queued, datagrams>>

Wake ==
    /\ exec = "waiting" /\ mutex = "free" /\ queued > 0 /\ Goes("exec")
    /\ mutex' = "exec" /\ exec' = "release"
    /\ UNCHANGED <<vars, logVars, main, queued, datagrams>>

(***************************************************************************)
(* The receiver.                                                           *)
(***************************************************************************)
Receive ==
    /\ main = "recv" /\ datagrams > 0 /\ Goes("main")
    /\ datagrams' = datagrams - 1
    /\ LogCall("main", "info", "datagram", FALSE)
    /\ main' = "lock"
    /\ UNCHANGED <<vars, mutex, exec, queued>>

LockMissing ==                             \* fault of Lock: parse_command without it
    /\ main = "lock" /\ Goes("main")
    /\ main' = "parse"
    /\ UNCHANGED <<vars, logVars, mutex, exec, queued, datagrams>>

Lock ==
    /\ main = "lock" /\ mutex = "free" /\ Goes("main")
    /\ mutex' = "main" /\ main' = "parse"
    /\ UNCHANGED <<vars, logVars, exec, queued, datagrams>>

\* The log calls of parse_command: "remote info", perhaps the warning about the
\* device, "local info", and, unless this host is in the list, that the request
\* is skipped or a broadcast. The ways it ends the process are in Daemon.
ParseCommand ==
    /\ main \in {"parse", "device", "local", "dest"} /\ Goes("main")
    /\ LogCall("main", IF main = "device" THEN "error" ELSE "info", main, TRUE)
    /\ main' \in CASE main = "parse"  -> {"device", "local"}
                   [] main = "device" -> {"local"}
                   [] main = "local"  -> {"dest", "push"}
                   [] main = "dest"   -> {"push", "unlock"}
    /\ UNCHANGED <<vars, mutex, exec, queued, datagrams>>

Push ==
    /\ main = "push" /\ Goes("main")
    /\ queued' = queued + 1 /\ main' = "unlock"
    /\ UNCHANGED <<vars, logVars, mutex, exec, datagrams>>

Unlock ==
    /\ main = "unlock" /\ Goes("main")
    /\ mutex' = "free" /\ main' = "recv"
    /\ UNCHANGED <<vars, logVars, exec, queued, datagrams>>

Log == \E t \in Threads : /\ pc \notin {"aborted", "exited"} /\ LogStep(t)
                          /\ UNCHANGED <<vars, cmdVars>>

CmdNext ==
    \/ (Edit \/ RemoveConf) /\ UNCHANGED <<logVars, cmdVars>>
    \/ RunScripts \/ LogResult \/ NextCommand \/ Wait \/ Wake
    \/ Receive \/ Lock \/ ParseCommand \/ Push \/ Unlock \/ Log

\* The executor is a straight-line thread of the daemon, and scripts end.
CmdSpec == CmdInit /\ [][CmdNext]_allVars /\ WF_vars(Execute)
=============================================================================
