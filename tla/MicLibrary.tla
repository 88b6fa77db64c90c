----------------------------- MODULE MicLibrary -----------------------------
(***************************************************************************)
(* The integration library (src/mic/integration/lib) in a program of one   *)
(* thread, as its unit tests use it: take requests with parse_command, run *)
(* the queue with execute_all, look up and unmount a share, ask for the    *)
(* hardware reports, over and over. The file synchronisation command is    *)
(* FileSync, whose text the library shares with ladaemon; the command      *)
(* queue, the configuration, the destination list and the reports are the  *)
(* library's own.                                                          *)
(*                                                                         *)
(* The process has a fixed number of file descriptors. A call that fails   *)
(* for want of one fails silently (a shell), throws (fopen), or does not   *)
(* return: read_config and read_pkg_list look for the end of a stream that *)
(* is not open. So they do when the file goes away after they saw it.      *)
(***************************************************************************)
EXTENDS FileSync, HwInfo

CONSTANTS
    Requests,       \* [dest, sync, pkg, upd, loc]: what a message can ask for
    Hostname,       \* this host's name, as it stands in a destination list
    Nics,           \* the address of each device that has one
    Confs,          \* what etc/ladaemon.conf may contain
    Machines,       \* [cpu, mem]: the lines of /proc/cpuinfo and of /proc/meminfo
    MaxFds,         \* the descriptors the process may have open
    ShellFds,       \* the descriptors a shell needs
    MaxRequests,    \* bound: requests
    MaxPasses,      \* bound: calls of execute_all and lookups
    MaxReports      \* bound: hardware reports

ASSUME LibraryAssumption == MaxFds \in Nat /\ ShellFds \in 1..MaxFds
\* A list of destinations is a text; a host's name in it is not empty, and commas
\* separate names.
ASSUME HostnameAssumption ==
    /\ \A m \in Requests : m.dest \in Seq(Range(m.dest))
    /\ Hostname # <<>> /\ "," \notin Range(Hostname)

VARIABLES
    status,      \* "idle", the call under way, or how the process ended
    queue,       \* command_queue
    it,          \* execute_all's iterator
    free,        \* descriptors not in use
    conf,        \* contents of etc/ladaemon.conf
    machine,
    pkglst,      \* the request whose files ./syncdir/pkg.lst is from; 0: there is none
    requests,    \* counts of calls so far
    passes,
    reports,
    lastSync,    \* history: the request synchronised last, and whether a list came
    vanished,    \* history: a file went away after it was seen, before it was opened
    loads,       \* history: the calls of getworkloadinfo that read the load
    result       \* what the call that has just returned did: [of, ...]

libVars == <<status, queue, it, free, conf, machine, pkglst, requests, passes,
             reports, lastSync, vanished, loads, result>>
allVars == <<vars, libVars>>

None == [of |-> "none"]

LibInit ==
    /\ Init
    /\ status = "idle" /\ queue = <<>> /\ it = 1 /\ free = MaxFds
    /\ conf \in Confs /\ machine \in Machines /\ pkglst = 0
    /\ requests = 0 /\ passes = 0 /\ reports = 0
    /\ lastSync = [of |-> 0, list |-> FALSE] /\ vanished = FALSE /\ loads = 0 /\ result = None

(***************************************************************************)
(* parse_command.                                                          *)
(***************************************************************************)
\* get_nic_info: an unknown device has address 0.0.0.0.
AddressOf(device) == IF device \in DOMAIN Nics THEN Nics[device] ELSE <<"0.0.0.0">>

ConfSettings == [text \in Confs |-> Settings(text, "=", TRUE)]
Device(settings) ==
    IF HasKey(settings, <<"device">>) THEN ReadValue(settings, <<"device">>) ELSE <<"eth0">>

ForMe(dest) ==
    dest = <<>> \/ InList(dest, AddressOf(Device(ConfSettings[conf]))) \/ InList(dest, Hostname)

BatchUnordered(m) ==                       \* fault of Batch: packages before files
    LET n == requests + 1 IN
    (IF m.pkg THEN <<[kind |-> "pkg", of |-> n, synced |-> m.sync]>> ELSE <<>>)
    \o (IF m.sync THEN <<[kind |-> "sync", of |-> n, loc |-> m.loc]>> ELSE <<>>)
    \o <<[kind |-> "script", of |-> n]>>

Batch(m) ==
    LET n == requests + 1 IN
    (IF m.sync THEN <<[kind |-> "sync", of |-> n, loc |-> m.loc]>> ELSE <<>>)
    \o (IF m.pkg THEN <<[kind |-> "pkg", of |-> n, synced |-> m.sync]>> ELSE <<>>)
    \o (IF m.upd THEN <<[kind |-> "upd", of |-> n]>> ELSE <<>>)
    \o <<[kind |-> "script", of |-> n]>>

\* A stream of a file that exists is not open, so its end never comes.
Hang ==
    /\ status' = "hung"
    /\ (free = 0 /\ UNCHANGED vanished) \/ vanished' = TRUE

\* The parser is created outside the try block: without the file the exception
\* leaves parse_command, and without a socket get_nic_info's result is exit(1).
ParseCommand ==
    /\ status = "idle" /\ requests < MaxRequests /\ requests' = requests + 1
    /\ \E m \in Requests :
          \/ Hang /\ UNCHANGED queue /\ result' = None
          \/ status' \in {"aborted", "exited"} /\ UNCHANGED <<queue, vanished>> /\ result' = None
          \/ /\ free > 0
             /\ result' = [of |-> "parse", dest |-> m.dest, taken |-> ForMe(m.dest)]
             /\ queue' = IF ForMe(m.dest) THEN queue \o Batch(m) ELSE queue
             /\ UNCHANGED <<status, vanished>>
    /\ UNCHANGED <<vars, it, free, conf, machine, pkglst, passes, reports, lastSync,
                   loads>>

(***************************************************************************)
(* execute_all: every command in the queue, which stays as it is.          *)
(***************************************************************************)
ExecuteAll ==
    /\ status = "idle" /\ queue # <<>> /\ passes < MaxPasses
    /\ passes' = passes + 1
    /\ status' = "executing" /\ it' = 1 /\ result' = None
    /\ UNCHANGED <<vars, queue, free, conf, machine, pkglst, requests, reports, lastSync,
                   vanished, loads>>

Running(kind) == status = "executing" /\ it \in DOMAIN queue /\ queue[it].kind = kind
Rest == UNCHANGED <<queue, free, conf, machine, requests, passes, reports, loads, result>>

ShellWorks == free >= ShellFds

\* is_nfs_mounted: grep, then awk. A shell that cannot run is "not mounted".
IsNfsMounted == (Grep /\ (ShellWorks \/ phase' = "mktemp")) \/ Awk \/ AwkStale

FileSyncExecute ==
    /\ Running("sync")
    /\ \/ Start /\ loc' = queue[it].loc
       \/ IsNfsMounted
       \/ CreateTempDir
       \/ MountNfs /\ (ShellWorks \/ mounts' = mounts)
       \/ Copy /\ (ShellWorks \/ got' = "nothing")
    /\ IF phase = "copy"
         THEN /\ it' = it + 1 /\ UNCHANGED status
              /\ \E list \in {FALSE, got' # "nothing"} :
                    /\ lastSync' = [of |-> queue[it].of, list |-> list]
                    /\ pkglst' = IF list THEN queue[it].of ELSE pkglst
         ELSE /\ status' = IF phase' = "aborted" THEN "aborted" ELSE status
              /\ UNCHANGED <<it, lastSync, pkglst>>
    /\ UNCHANGED vanished /\ Rest

\* read_pkg_list opens the list if there is one; the shells it leads to change
\* nothing that is modelled here (PkgCommand has them).
PkgExecute ==
    /\ Running("pkg")
    /\ \/ pkglst # 0 /\ Hang /\ UNCHANGED it
       \/ (pkglst = 0 \/ free > 0) /\ it' = it + 1 /\ UNCHANGED <<status, vanished>>
    /\ UNCHANGED <<vars, lastSync, pkglst>> /\ Rest

\* Two shells whose results nobody looks at.
UpdateExecute ==
    /\ Running("upd")
    /\ it' = it + 1
    /\ UNCHANGED <<vars, status, vanished, lastSync, pkglst>> /\ Rest

\* LAScriptExecutor::init reads the configuration; without plugindir it exits,
\* and a directory that cannot be read is an exception.
ScriptExecute ==
    /\ Running("script")
    /\ \/ Hang /\ UNCHANGED it
       \/ /\ free > 0 /\ UNCHANGED vanished
          /\ IF HasKey(ConfSettings[conf], <<"plugindir">>)
               THEN \/ it' = it + 1 /\ UNCHANGED status
                    \/ status' = "aborted" /\ UNCHANGED it
               ELSE status' = "exited" /\ UNCHANGED it
    /\ UNCHANGED <<vars, lastSync, pkglst>> /\ Rest

ExecuteReturns ==
    /\ status = "executing" /\ it \notin DOMAIN queue
    /\ status' = "idle"
    /\ UNCHANGED <<vars, it, vanished, lastSync, pkglst>> /\ Rest

(***************************************************************************)
(* is_nfs_mounted and umount_nfs of what it found, one after the other.    *)
(***************************************************************************)
Aside == UNCHANGED <<queue, it, free, conf, machine, pkglst, requests, reports, lastSync,
                   vanished, loads>>

LookUp ==
    /\ status = "idle" /\ passes < MaxPasses /\ passes' = passes + 1
    /\ Start /\ status' = "unmounting" /\ result' = None
    /\ Aside

Find ==
    /\ status = "unmounting" /\ IsNfsMounted
    /\ status' = IF phase' = "aborted" THEN "aborted" ELSE status
    /\ UNCHANGED <<passes, result>> /\ Aside

\* Nothing found: the empty path is no directory, umount_nfs returns false.
UmountNothing ==
    /\ status = "unmounting" /\ phase = "mktemp"
    /\ phase' = "idle" /\ status' = "idle"
    /\ UNCHANGED <<mounts, dirs, loc, tempdir, got, lookup, syncs, admin, passes, result>>
    /\ Aside

UmountNfs ==
    /\ status = "unmounting" /\ phase = "copy"
    /\ \/ /\ ShellWorks /\ At(tempdir) # {}
          /\ mounts' = RemoveAt(mounts, Max(At(tempdir)))
          /\ result' = [of |-> "umount", share |-> Visible(tempdir)]
       \/ UNCHANGED <<mounts, result>>
    /\ phase' = "idle" /\ status' = "idle"
    /\ UNCHANGED <<dirs, loc, tempdir, got, lookup, syncs, admin, passes>>
    /\ Aside

(***************************************************************************)
(* The hardware reports. A client that catches the exceptions goes on.     *)
(***************************************************************************)
CpuSettings == [m \in Machines |-> ProcSettings(m.cpu)]
MemSettings == [m \in Machines |-> ProcSettings(m.mem)]

Outcome(call) == \E c \in {call} :
    /\ result' = [of |-> "report", report |-> c.report] /\ free' = free - c.keeps
    /\ status' = IF c.ends = "hung" THEN "hung" ELSE "idle"

GetInfo ==
    /\ status = "idle" /\ reports < MaxReports /\ reports' = reports + 1
    /\ \E exists \in BOOLEAN :
          \/ Outcome(getcpuinfo(CpuSettings[machine], exists, free)) /\ UNCHANGED loads
          \/ Outcome(getmeminfo(MemSettings[machine], exists, free)) /\ UNCHANGED loads
          \/ \E readable \in BOOLEAN :
                /\ Outcome(getworkloadinfo(MemSettings[machine], exists, readable, free))
                /\ loads' = IF exists /\ readable /\ free > 0 THEN loads + 1 ELSE loads
    /\ UNCHANGED <<vars, queue, it, conf, machine, pkglst, requests, passes,
                   lastSync, vanished>>

\* At other times the mount table is not looked at.
Admin == status \in {"executing", "unmounting"} /\ (AdminMount \/ AdminUmount) /\ UNCHANGED libVars

Library ==
    \/ ParseCommand
    \/ ExecuteAll \/ FileSyncExecute \/ PkgExecute \/ UpdateExecute \/ ScriptExecute \/ ExecuteReturns
    \/ LookUp \/ Find \/ UmountNothing \/ UmountNfs
    \/ GetInfo
LibNext == Admin \/ Library

LibSpec == LibInit /\ [][LibNext]_allVars
-----------------------------------------------------------------------------
(***************************************************************************)
(* Properties.                                                             *)
(***************************************************************************)
\* A call hangs only when getworkloadinfo has used up the descriptors, one for
\* each load it read (sysutils.cpp:146-172), or when a file went away in the
\* moment between the check and the opening: whatever else fails, throws or is
\* repeated, and with any contents of the files, the streams come to their end.
HangsAreExplained == status = "hung" => loads >= MaxFds \/ vanished

\* A request is taken by the hosts its list names, whole names between commas
\* (strutils.cpp:117-120), and by all if it names none: never by another host,
\* whatever the configuration says, and always by one listed under its name.
Listed(name, dest) == \E i, j \in DOMAIN dest :
    /\ SubSeq(dest, i, j) = name
    /\ i = 1 \/ dest[i - 1] = ","
    /\ j = Len(dest) \/ dest[j + 1] = ","
TakenAsListed ==
    result.of = "parse" =>
        LET Names(set) == result.dest = <<>> \/ \E name \in set : Listed(name, result.dest)
        IN  /\ Names({Hostname}) => result.taken
            /\ result.taken => Names({Hostname, <<"0.0.0.0">>} \cup Range(Nics))

\* Between the synchronisation of a request and its packages comes no other,
\* also when execute_all goes through commands that it ran before
\* (command.cpp:336-346): if the copy brought a list, packages are installed
\* from that list. (If not, from one that an older request left.)
PackagesFollowFiles ==
    Running("pkg") /\ queue[it].synced =>
        lastSync.of = queue[it].of /\ (lastSync.list => pkglst = queue[it].of)

\* What a lookup lets umount_nfs unmount is the share that was looked up, or
\* one that grep takes for it, with the exceptions of CopiesTheShare.
UnmountsTheShare ==
    result.of = "umount" /\ lookup # "stale" /\ tempdir # AdminDir => <<loc, result.share>> \in Found

\* An empty line ends what /proc/cpuinfo says of a processor.
OfFirst(cpu) == {n \in DOMAIN cpu : \A i \in 1..n : cpu[i] # <<>>}

\* The form of the files in /proc: no blanks around a line, and what is said of
\* any processor is also said of the first.
Tidy(text) ==
    /\ text \in Seq(Range(text))
    /\ \A n \in DOMAIN text : LET line == text[n] IN
          /\ line \in Seq(Range(line))
          /\ line # <<>> => {line[1], line[Len(line)]} \cap {"sp", "tab"} = {}
ProcIsTidy ==
    \A m \in Machines :
        /\ Tidy(m.cpu) /\ Tidy(m.mem)
        /\ \A key \in CpuKeys :
              Places(m.cpu, ":", key) # {} => Places(m.cpu, ":", key) \cap OfFirst(m.cpu) # {}

\* What a report that is returned says of the first processor, or of the
\* memory, is what a line there says (sysutils.cpp:63-80, 115-129): never part
\* of a value, and never values of two processors.
Says(line, key, value) ==
    LET gap == SubSeq(line, Len(key) + 1, Len(line) - Len(value)) IN
    /\ line = key \o gap \o value
    /\ Range(gap) \subseteq {"sp", "tab", ":"} /\ Cardinality({i \in DOMAIN gap : gap[i] = ":"}) = 1
ReportsAreTrue ==
    result.of = "report" =>
        LET From(text, places) ==
                \A k \in DOMAIN result.report : \E n \in places : Says(text[n], k, result.report[k])
        IN  From(machine.cpu, OfFirst(machine.cpu)) \/ From(machine.mem, DOMAIN machine.mem)
=============================================================================
