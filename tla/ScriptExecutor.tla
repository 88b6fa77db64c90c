--------------------------- MODULE ScriptExecutor ---------------------------
(***************************************************************************)
(* LAScriptExecutor: look up plugindir in the configuration, read that     *)
(* directory, keep the .py and .sh files that are not hidden, sort them,   *)
(* run them one after the other. The directory may change between the      *)
(* reading and any of the runs, and the configuration may be removed.      *)
(*                                                                         *)
(* A file name is represented by its place in the order of the names; what *)
(* startswith and endswith tell of it are the sets Hidden, Python, Shell.  *)
(***************************************************************************)
EXTENDS ConfigParser

CONSTANTS
    Confs,       \* what etc/ladaemon.conf may contain
    PluginDir,   \* the directory that holds the scripts, as a value
    Names,       \* numbers, ordered as the names are
    Hidden,      \* names that start with "."; "." and ".." are among them
    Python,      \* names that end in ".py"
    Shell,       \* names that end in ".sh"
    MaxEdits     \* bound: changes of the directory

ASSUME ScriptAssumption ==
    /\ Names \subseteq Nat /\ IsFiniteSet(Names)    \* a directory has an end
    /\ Hidden \cup Python \cup Shell \subseteq Names

VARIABLES
    conf,      \* what read_all makes of the configuration file
    present,   \* whether it exists
    vanished,  \* history: it was removed between isfile and ifstream
    dir,       \* the directory's present entries
    edits,     \* changes still to come
    pc,        \* the next statement
    listed,    \* history: the entries that read_dir saw
    scripts,   \* the vector of names
    it,        \* the position of the iterator in it
    ran,       \* what execute_one was called with and whether it succeeded
    ret        \* the result of execute_all

config == <<conf, present, vanished>>
vars == <<config, dir, edits, pc, listed, scripts, it, ran, ret>>

Init ==
    /\ conf \in {Settings(text) : text \in Confs} /\ present \in BOOLEAN /\ vanished = FALSE
    /\ dir \in SUBSET Names /\ edits \in 0..MaxEdits
    /\ pc = "isfile" /\ listed = {} /\ scripts = <<>> /\ it = 1
    /\ ran = <<>> /\ ret = 0

\* Whoever installs or removes scripts. Until the directory is read it may be
\* any, so changes matter from then on.
Edit ==
    /\ pc \in {"filter", "run"}
    /\ edits > 0 /\ edits' = edits - 1
    /\ \E n \in Names : dir' = IF n \in dir THEN dir \ {n} ELSE dir \cup {n}
    /\ UNCHANGED <<config, pc, listed, scripts, it, ran, ret>>

RemoveConf ==
    /\ edits > 0 /\ edits' = edits - 1
    /\ present /\ pc \in {"isfile", "open"}
    /\ present' = FALSE /\ vanished' = (pc = "open")
    /\ UNCHANGED <<conf, dir, pc, listed, scripts, it, ran, ret>>

(***************************************************************************)
(* init. Only LAKeyNotFoundException is caught, and leads to exit(1).      *)
(***************************************************************************)
IsFile ==
    /\ pc = "isfile"
    /\ pc' = IF present THEN "open" ELSE "aborted"
    /\ UNCHANGED <<config, dir, edits, listed, scripts, it, ran, ret>>

\* A stream that did not open has no end: read_config keeps the mutex for good.
ReadConfig ==
    /\ pc = "open"
    /\ pc' = IF ~present THEN "spin"
             ELSE IF conf.duplicate THEN "aborted"
             ELSE IF ~HasKey(conf, "plugindir") THEN "exited"
             ELSE IF conf.value["plugindir"] # PluginDir THEN "aborted"
             ELSE "read"
    /\ UNCHANGED <<config, dir, edits, listed, scripts, it, ran, ret>>

\* A directory that access() or opendir() refuses is an exception.
CannotReadDir ==
    /\ pc = "read"
    /\ pc' = "aborted"
    /\ UNCHANGED <<config, dir, edits, listed, scripts, it, ran, ret>>

\* read_dir: every entry once, in no particular order.
ReadDir ==
    /\ pc = "read"
    /\ scripts' \in SetToSeqs(dir)
    /\ listed' = dir /\ it' = 1 /\ pc' = "filter"
    /\ UNCHANGED <<config, dir, edits, ran, ret>>

(***************************************************************************)
(* filter_scripts.                                                         *)
(***************************************************************************)
Unwanted(n) == n \in Hidden \/ (n \notin Python /\ n \notin Shell)

EraseSkips ==                               \* Erase: ++it in the loop's head as well
    /\ pc = "filter" /\ it \in DOMAIN scripts /\ Unwanted(scripts[it])
    /\ scripts' = RemoveAt(scripts, it) /\ it' = it + 1
    /\ UNCHANGED <<config, dir, edits, pc, listed, ran, ret>>

Erase ==
    /\ pc = "filter" /\ it \in DOMAIN scripts /\ Unwanted(scripts[it])
    /\ scripts' = RemoveAt(scripts, it)
    /\ UNCHANGED <<config, dir, edits, pc, listed, it, ran, ret>>

Keep ==
    /\ pc = "filter" /\ it \in DOMAIN scripts /\ ~Unwanted(scripts[it])
    /\ it' = it + 1
    /\ UNCHANGED <<config, dir, edits, pc, listed, scripts, ran, ret>>

\* What std::sort makes of a vector: its elements, in order.
Sorted(s) ==
    {r \in {[i \in DOMAIN s |-> s[p[i]]] : p \in Bijection(DOMAIN s, DOMAIN s)} :
        \A i, j \in DOMAIN s : i < j => r[i] <= r[j]}

\* The end of the loop, and the sort behind it.
SortScripts ==
    /\ pc = "filter" /\ it \notin DOMAIN scripts
    /\ scripts' \in Sorted(scripts)
    /\ it' = 1 /\ pc' = "run"
    /\ UNCHANGED <<config, dir, edits, listed, ran, ret>>

(***************************************************************************)
(* execute_all. A script that is gone fails like one that fails by itself. *)
(***************************************************************************)
ExecuteOneStops ==                         \* ExecuteOne: the first failure ends it
    /\ pc = "run" /\ it \in DOMAIN scripts
    /\ \E ok \in {FALSE} \cup (IF scripts[it] \in dir THEN {TRUE} ELSE {}) :
          /\ ran' = Append(ran, [name |-> scripts[it], ok |-> ok])
          /\ ret' = IF ok THEN ret ELSE 1
          /\ it' = IF ok THEN it + 1 ELSE Len(scripts) + 1
    /\ UNCHANGED <<config, dir, edits, pc, listed, scripts>>

ExecuteOne ==
    /\ pc = "run" /\ it \in DOMAIN scripts
    /\ \E ok \in {FALSE} \cup (IF scripts[it] \in dir THEN {TRUE} ELSE {}) :
          /\ ran' = Append(ran, [name |-> scripts[it], ok |-> ok])
          /\ ret' = IF ok THEN ret ELSE 1
    /\ it' = it + 1
    /\ UNCHANGED <<config, dir, edits, pc, listed, scripts>>

Return ==
    /\ pc = "run" /\ it \notin DOMAIN scripts
    /\ pc' = "done"
    /\ UNCHANGED <<config, dir, edits, listed, scripts, it, ran, ret>>

Execute == \/ IsFile \/ ReadConfig \/ CannotReadDir \/ ReadDir
           \/ Erase \/ Keep \/ SortScripts \/ ExecuteOne \/ Return
Next == Edit \/ RemoveConf \/ Execute

\* The executor is a straight-line thread of the daemon, and scripts end.
Spec == Init /\ [][Next]_vars /\ WF_vars(Execute)
-----------------------------------------------------------------------------
(***************************************************************************)
(* Properties.                                                             *)
(***************************************************************************)
\* What the directory held that should run, whatever order readdir gave.
Wanted == {n \in listed : n \notin Hidden /\ n \in Python \cup Shell}

\* At any moment the scripts that have run are the first ones of those, in the
\* order of the names, with none left out among them and none that is hidden or
\* no script, and ret is 0 exactly if all of them succeeded; when execute_all
\* returns there are no others. (scriptexecutor.cpp:66-92, 134-146)
RunInTurn ==
    /\ \A i \in DOMAIN ran :
          /\ ran[i].name \in Wanted
          /\ \A n \in Wanted : n < ran[i].name <=> \E j \in 1..(i - 1) : ran[j].name = n
    /\ pc = "done" => \A n \in Wanted : \E i \in DOMAIN ran : ran[i].name = n
    /\ ret = 0 <=> \A i \in DOMAIN ran : ran[i].ok

\* All or nothing: every script the directory held when it was read is run,
\* each once and in the order of the names, though the loop that filters erases
\* from the vector it walks, scripts fail, and some are removed before their
\* turn; or the process ends before the first of them. Only a configuration
\* removed under read_config's eyes leaves the thread in its loop.
AllAreRun ==
    <>(\/ pc = "done" /\ [i \in DOMAIN ran |-> ran[i].name] = SetToSortSeq(Wanted, <)
       \/ pc \in {"aborted", "exited"} /\ ran = <<>>
       \/ pc = "spin" /\ vanished)
=============================================================================
