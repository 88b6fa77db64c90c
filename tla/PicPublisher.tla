---------------------------- MODULE PicPublisher ----------------------------
(***************************************************************************)
(* The process information collector: it walks /proc, reads one stat file  *)
(* per process into a record, and publishes the table by writing a private *)
(* file, unlinking the published one and renaming. Processes start and end *)
(* meanwhile; collectors may be killed, started again or run side by side  *)
(* (nothing in the program excludes it).                                   *)
(*                                                                         *)
(* The fields of a stat line after the name are represented by the process *)
(* they were read from: a row [pid |-> p, rest |-> q] shows the fields of  *)
(* q under the pid of p. q = 0 stands for memory that nobody wrote.        *)
(***************************************************************************)
EXTENDS Naturals, Sequences, FiniteSets

CONSTANTS
    Collectors,    \* runs of the program, each with its own process id
    Pids,          \* positive numbers
    InitGroup,     \* the processes whose process group is 1
    Spaced,        \* the processes with white space in their name
    MAX_PROC_ENT,  \* size of the table
    MaxScans,      \* bound: scans of one collector
    MaxChurn       \* bound: process starts and ends

ASSUME PicAssumption ==
    /\ Pids \subseteq Nat \ {0} /\ InitGroup \subseteq Pids /\ Spaced \subseteq Pids
    /\ MAX_PROC_ENT \in Nat \ {0, 1}
    /\ MaxScans \in Nat /\ MaxChurn \in Nat

VARIABLES
    alive,      \* the processes on the host
    churn,      \* how often one started or ended
    pc,         \* per collector: the next statement
    scans,      \* per collector: scans begun
    cursor,     \* per collector: the process readdir returned last
    rec,        \* per collector: whose fields the record holds
    procs,      \* per collector: the rows of procs[], numprocs being the length
    through,    \* history: processes alive since the scan began
    tmp,        \* per collector: its private file
    file,       \* the published file, infofile
    published,  \* history: there was a published file
    hole        \* history: a collector died between unlink and rename, or
                \* its rename failed

local == <<pc, scans, cursor, rec, procs>>
files == <<tmp, file, published, hole>>
vars  == <<alive, churn, local, through, files>>

None == [state |-> "none"]
Contents(c, s) == [state |-> s, rows |-> procs[c], through |-> through[c]]

Init ==
    /\ alive \in {InitGroup \cup s : s \in SUBSET Pids} /\ churn = 0
    /\ pc = [c \in Collectors |-> "off"]
    /\ scans = [c \in Collectors |-> 0]
    /\ cursor = [c \in Collectors |-> 0]
    /\ rec = [c \in Collectors |-> 0]
    /\ procs = [c \in Collectors |-> <<>>]
    /\ through = [c \in Collectors |-> {}]
    /\ tmp = [c \in Collectors |-> None]
    /\ file = None /\ published = FALSE /\ hole = FALSE

Goto(c, s) == pc' = [pc EXCEPT ![c] = s]

(***************************************************************************)
(* The host.                                                               *)
(***************************************************************************)
ProcessEnds ==
    /\ churn < MaxChurn /\ churn' = churn + 1
    /\ \E p \in alive \ InitGroup :
          /\ alive' = alive \ {p}
          /\ through' = [c \in Collectors |-> through[c] \ {p}]
    /\ UNCHANGED <<local, files>>

ProcessStarts ==
    /\ churn < MaxChurn /\ churn' = churn + 1
    /\ \E p \in Pids \ alive : alive' = alive \cup {p}
    /\ UNCHANGED <<local, through, files>>

Kill(c) ==
    /\ pc[c] \notin {"off", "dead"}
    /\ Goto(c, "dead")
    /\ hole' = (hole \/ pc[c] = "rename")
    /\ UNCHANGED <<alive, churn, scans, cursor, rec, procs, through, tmp, file, published>>

(***************************************************************************)
(* scan_procs. la_syslog formats its message and hands it on as the only   *)
(* argument of the same format, so a message with two conversions reads an *)
(* argument that was not passed: the process may die (LogsTwoArgs). For a  *)
(* number, as in the message about a full table, it prints what is there.  *)
(***************************************************************************)
LogsTwoArgs(c, s) == Goto(c, s) \/ Goto(c, "dead")

Begin(c) ==
    /\ pc[c] \in {"off", "sleep"} /\ scans[c] < MaxScans
    /\ scans' = [scans EXCEPT ![c] = @ + 1]
    /\ \/ Goto(c, "scan")
       \/ Goto(c, "sleep")                 \* opendir failed
    /\ cursor' = [cursor EXCEPT ![c] = 0]
    /\ \E q \in {0} \cup Pids : rec' = [rec EXCEPT ![c] = q]   \* uninitialised
    /\ procs' = [procs EXCEPT ![c] = <<>>]
    /\ through' = [through EXCEPT ![c] = alive]
    /\ UNCHANGED <<alive, churn, files>>

\* readdir returns the next process in the order of the process ids.
ReadDir(c) ==
    LET later == {p \in alive : p > cursor[c]} IN
    /\ pc[c] = "scan"
    /\ IF later = {}
         THEN Goto(c, "fopen") /\ UNCHANGED cursor
         ELSE /\ cursor' = [cursor EXCEPT ![c] = CHOOSE p \in later : \A q \in later : p <= q]
              /\ Goto(c, "stat")
    /\ UNCHANGED <<alive, churn, scans, rec, procs, through, files>>

StatGoneStops(c) ==                        \* StatGone: break for continue
    /\ pc[c] = "stat" /\ cursor[c] \notin alive
    /\ LogsTwoArgs(c, "fopen")
    /\ UNCHANGED <<alive, churn, scans, cursor, rec, procs, through, files>>

\* The process ended since readdir: open() or read() fails, the entry is skipped.
StatGone(c) ==
    /\ pc[c] = "stat" /\ cursor[c] \notin alive
    /\ LogsTwoArgs(c, "scan")
    /\ UNCHANGED <<alive, churn, scans, cursor, rec, procs, through, files>>

ParsedTable(c, p) ==                       \* Parsed: fields of the row before
    IF procs[c] = <<>> THEN p ELSE procs[c][Len(procs[c])].rest

\* parse_proc_stat: sscanf stops behind the first blank of a name, and what it
\* does not set keeps the values of the process before.
Parsed(c, p) == IF p \in Spaced THEN rec[c] ELSE p

StatUnlimited(c) ==                        \* Stat: no test against MAX_PROC_ENT
    /\ pc[c] = "stat" /\ cursor[c] \in alive
    /\ LET q == Parsed(c, cursor[c]) IN
       /\ rec' = [rec EXCEPT ![c] = q]
       /\ procs' = IF q \in InitGroup THEN procs
                   ELSE [procs EXCEPT ![c] = Append(@, [pid |-> cursor[c], rest |-> q])]
    /\ Goto(c, "scan")
    /\ UNCHANGED <<alive, churn, scans, cursor, through, files>>

Stat(c) ==
    /\ pc[c] = "stat" /\ cursor[c] \in alive
    /\ LET q == Parsed(c, cursor[c]) IN
       /\ rec' = [rec EXCEPT ![c] = q]
       /\ IF q \in InitGroup
            THEN Goto(c, "scan") /\ UNCHANGED procs
            ELSE /\ procs' = [procs EXCEPT ![c] = Append(@, [pid |-> cursor[c], rest |-> q])]
                 /\ Goto(c, IF Len(procs[c]) + 1 = MAX_PROC_ENT - 1 THEN "fopen" ELSE "scan")
    /\ UNCHANGED <<alive, churn, scans, cursor, through, files>>

(***************************************************************************)
(* log_proc_info.                                                          *)
(***************************************************************************)
FopenInPlace(c) ==                         \* Fopen: opens infofile itself
    /\ pc[c] = "fopen"
    /\ Goto(c, "fclose")
    /\ file' = Contents(c, "partial") /\ published' = TRUE
    /\ tmp' = [tmp EXCEPT ![c] = Contents(c, "partial")]
    /\ UNCHANGED <<alive, churn, scans, cursor, rec, procs, through, hole>>

Fopen(c) ==
    /\ pc[c] = "fopen"
    /\ \/ /\ Goto(c, "fclose")
          /\ tmp' = [tmp EXCEPT ![c] = Contents(c, "partial")]
       \/ LogsTwoArgs(c, "sleep") /\ UNCHANGED tmp
    /\ UNCHANGED <<alive, churn, scans, cursor, rec, procs, through, file, published, hole>>

\* fprintf and fclose. Their results are ignored: on a full disk the file is cut
\* behind some row, and goes the way of the whole ones.
Cut(f, n) == [f EXCEPT !.state = "short", !.rows = SubSeq(@, 1, n)]

Fclose(c) ==
    /\ pc[c] = "fclose"
    /\ \/ tmp' = [tmp EXCEPT ![c].state = "whole"]
       \/ \E n \in 0..Len(tmp[c].rows) : tmp' = [tmp EXCEPT ![c] = Cut(@, n)]
    /\ Goto(c, "unlink")
    /\ UNCHANGED <<alive, churn, scans, cursor, rec, procs, through, file, published, hole>>

UnlinkAndReturn(c) ==                      \* Unlink: goes on to rename only on ENOENT
    /\ pc[c] = "unlink"
    /\ file' = None /\ Goto(c, IF file = None THEN "rename" ELSE "tidy")
    /\ UNCHANGED <<alive, churn, scans, cursor, rec, procs, through, tmp, published, hole>>

Unlink(c) ==
    /\ pc[c] = "unlink"
    /\ \/ file' = None /\ Goto(c, "rename")
       \/ LogsTwoArgs(c, "rename") /\ UNCHANGED file
    /\ UNCHANGED <<alive, churn, scans, cursor, rec, procs, through, tmp, published, hole>>

\* Rename replaces whatever another collector published meanwhile.
Rename(c) ==
    /\ pc[c] = "rename"
    /\ \/ /\ file' = tmp[c] /\ published' = TRUE
          /\ tmp' = [tmp EXCEPT ![c] = None]
          /\ Goto(c, "tidy")
          /\ UNCHANGED hole
       \/ /\ LogsTwoArgs(c, "tidy")
          /\ hole' = TRUE
          /\ UNCHANGED <<tmp, file, published>>
    /\ UNCHANGED <<alive, churn, scans, cursor, rec, procs, through>>

Tidy(c) ==
    /\ pc[c] = "tidy"
    /\ tmp' = [tmp EXCEPT ![c] = None]
    /\ Goto(c, "sleep")
    /\ UNCHANGED <<alive, churn, scans, cursor, rec, procs, through, file, published, hole>>

Next ==
    \/ ProcessEnds \/ ProcessStarts
    \/ \E c \in Collectors :
          \/ Kill(c) \/ Begin(c) \/ ReadDir(c) \/ StatGone(c) \/ Stat(c)
          \/ Fopen(c) \/ Fclose(c) \/ Unlink(c) \/ Rename(c) \/ Tidy(c)

Spec == Init /\ [][Next]_vars
-----------------------------------------------------------------------------
(***************************************************************************)
(* Properties. Len(procs[c]) < MAX_PROC_ENT in TypeOK is the table's size. *)
(***************************************************************************)
Rows == [pid : Pids, rest : {0} \cup Pids]
Steps == {"off", "scan", "stat", "fopen", "fclose", "unlink", "rename", "tidy", "sleep", "dead"}

\* Types, and no scan fills procs[] (main.cpp:73) beyond its last but one entry.
TypeOK ==
    /\ alive \subseteq Pids /\ churn \in 0..MaxChurn
    /\ published \in BOOLEAN /\ hole \in BOOLEAN
    /\ \A c \in Collectors :
          /\ pc[c] \in Steps /\ scans[c] \in 0..MaxScans
          /\ cursor[c] \in {0} \cup Pids /\ rec[c] \in {0} \cup Pids
          /\ through[c] \subseteq Pids
          /\ Len(procs[c]) < MAX_PROC_ENT
          /\ \A i \in 1..Len(procs[c]) : procs[c][i] \in Rows
    /\ \A f \in {file} \cup {tmp[c] : c \in Collectors} :
          f.state \in {"none", "partial", "short", "whole"}

\* A reader that opens infofile never finds a table that is still being written,
\* wherever a collector is killed and however many of them run.
NeverHalfWritten == file.state # "partial"

\* Once published, the table is absent only while some collector stands between
\* its unlink and its rename (main.cpp:197-201), or after one was stopped there.
AbsentOnlyInBetween ==
    published /\ file = None => hole \/ \E c \in Collectors : pc[c] = "rename"

\* A process that lived through the whole scan is in the published table, unless
\* it is of init's group, hidden by its name, the table was full, or the disk was
\* (the code publishes a file that it could not write in full): processes that
\* vanish in the middle of the scan cost no other process its row.
LongLivedAreListed ==
    file.state \notin {"none", "short"} =>
        \A p \in file.through \ (InitGroup \cup Spaced) :
            \/ \E i \in 1..Len(file.rows) : file.rows[i].pid = p
            \/ Len(file.rows) = MAX_PROC_ENT - 1

\* A published row, of a cut file too, shows the process's own fields, each
\* process once, in the order of the ids; only a name with white space brings in
\* the record's past.
RowsAreOwn ==
    file # None =>
        \A i \in 1..Len(file.rows) :
            /\ file.rows[i].pid \notin Spaced => file.rows[i].rest = file.rows[i].pid
            /\ file.rows[i].rest \notin InitGroup
            /\ \A j \in 1..(i - 1) : file.rows[j].pid < file.rows[i].pid
=============================================================================
