----------------------------- MODULE NfsExport -----------------------------
(***************************************************************************)
(* LANfsUtils::export_nfs in one or more runs of lasync: is the directory  *)
(* exported already; if not, append a line to /etc/exports and reload the  *)
(* NFS server. Runs may overlap (two shells), the reload and the write may *)
(* fail, and the administrator of the controller changes both the file and *)
(* the server's table.                                                     *)
(***************************************************************************)
EXTENDS Naturals, FiniteSets, SequencesExt

CONSTANTS
    Runs,       \* runs of lasync
    Dirs,       \* values of syncdir in the configuration, existing directories
    MaxAdmin    \* bound: steps of the administrator

ASSUME RunsAssumption == IsFiniteSet(Runs)

VARIABLES
    etc,        \* the lines of /etc/exports
    table,      \* what the server exports
    step,       \* per run: where it is in export_nfs
    dirOf,      \* per run: the directory it synchronises
    result,     \* per run: what export_nfs returned
    unwritten,  \* history, per run: the line could not be written
    admin,      \* administrator's steps so far
    excuses     \* history: what may cost a directory one more line

exportVars == <<etc, table, step, dirOf, result, unwritten, admin, excuses>>

ExportInit ==
    /\ etc \in {<<>>} \cup {<<d>> : d \in Dirs} /\ table = Range(etc)
    /\ step = [r \in Runs |-> "off"]
    /\ dirOf \in [Runs -> Dirs]
    /\ result = [r \in Runs |-> FALSE]
    /\ unwritten = [r \in Runs |-> FALSE]
    /\ admin = 0 /\ excuses = 0

Busy(d) == \E r \in Runs : dirOf[r] = d /\ step[r] \in {"config", "reload"}

\* exportfs -u, or the server stopped.
AdminUnexport ==
    /\ admin < MaxAdmin /\ admin' = admin + 1 /\ excuses' = excuses + 1
    /\ \E d \in table : table' = table \ {d}
    /\ UNCHANGED <<etc, step, dirOf, result, unwritten>>

\* The administrator removes a line, the server is not reloaded yet.
AdminEdit ==
    /\ admin < MaxAdmin /\ admin' = admin + 1
    /\ \E i \in DOMAIN etc : etc' = RemoveAt(etc, i)
    /\ UNCHANGED <<table, step, dirOf, result, unwritten, excuses>>

AdminReload ==
    /\ admin < MaxAdmin /\ admin' = admin + 1
    /\ table' = Range(etc)
    /\ UNCHANGED <<etc, step, dirOf, result, unwritten, excuses>>

CheckBlind(r) ==                           \* Check: compares without the newline
    /\ step[r] = "off"
    /\ step' = [step EXCEPT ![r] = "config"]
    /\ UNCHANGED <<etc, table, dirOf, result, unwritten, admin, excuses>>

\* is_nfs_exported: a line of exportfs is the directory. When exportfs fails
\* there are no lines, and the directory counts as not exported.
Check(r) ==
    /\ step[r] = "off"
    /\ \/ /\ dirOf[r] \in table
          /\ step' = [step EXCEPT ![r] = "done"]
          /\ result' = [result EXCEPT ![r] = TRUE]
          /\ UNCHANGED excuses
       \/ /\ step' = [step EXCEPT ![r] = "config"]
          /\ excuses' = excuses + (IF dirOf[r] \in table \/ Busy(dirOf[r]) THEN 1 ELSE 0)
          /\ UNCHANGED result
    /\ UNCHANGED <<etc, table, dirOf, unwritten, admin>>

ConfigTruncates(r) ==                      \* Config: O_TRUNC for O_APPEND
    /\ step[r] = "config"
    /\ etc' = <<dirOf[r]>>
    /\ step' = [step EXCEPT ![r] = "reload"]
    /\ UNCHANGED <<table, dirOf, result, unwritten, admin, excuses>>

\* config_nfs. The results of open and write are not looked at, nor is its own.
Config(r) ==
    /\ step[r] = "config"
    /\ \/ etc' = Append(etc, dirOf[r]) /\ UNCHANGED unwritten
       \/ unwritten' = [unwritten EXCEPT ![r] = TRUE] /\ UNCHANGED etc
    /\ step' = [step EXCEPT ![r] = "reload"]
    /\ UNCHANGED <<table, dirOf, result, admin, excuses>>

\* The server's init script reads the whole file, or fails.
Reload(r) ==
    /\ step[r] = "reload"
    /\ \E ok \in BOOLEAN :
          /\ table' = IF ok THEN Range(etc) ELSE table
          /\ result' = [result EXCEPT ![r] = ok]
          /\ excuses' = excuses + (IF ok THEN 0 ELSE 1)
    /\ step' = [step EXCEPT ![r] = "done"]
    /\ UNCHANGED <<etc, dirOf, unwritten, admin>>

Admin == AdminUnexport \/ AdminEdit \/ AdminReload
Export(r) == Check(r) \/ Config(r) \/ Reload(r)

ExportSpec == ExportInit /\ [][Admin \/ \E r \in Runs : Export(r)]_exportVars
-----------------------------------------------------------------------------
(***************************************************************************)
(* Properties.                                                             *)
(***************************************************************************)
LinesOf(d) == Cardinality({i \in DOMAIN etc : etc[i] = d})

\* Runs do not pile up lines in /etc/exports: a directory has a second one only
\* if exportfs or a reload failed, an export was withdrawn or two runs overlapped,
\* and then one more for each of these.
LinesAreExcused == \A d \in Dirs : LinesOf(d) <= 1 + excuses
=============================================================================
