----------------------------- MODULE SyncSystem -----------------------------
(***************************************************************************)
(* The whole tool: runs of lasync on the controller, one UDP broadcast per *)
(* run, and a ladaemon on every host. A run parses its options, exports    *)
(* the directory (module NfsExport), sends; a host queues the commands of  *)
(* the requests addressed to it and runs them in order. A daemon is here   *)
(* what Daemon is shown to implement: requests are taken as a whole, and   *)
(* commands run one at a time (HostsAreServices).                          *)
(*                                                                         *)
(* A file is represented by its name, the directory it comes from and the  *)
(* version the contents had; the owner of the files changes them, adds and *)
(* removes files at any time.                                              *)
(***************************************************************************)
EXTENDS NfsExport

CONSTANTS
    Hosts,
    FileNames,    \* names of files in the synchronised directories
    ArgLists,     \* command lines: sequences of [opt, val]
    SockCap,      \* datagrams a host's socket holds
    MaxVersion    \* bound: versions of the files

VARIABLES
    request,      \* per run: what parse_args made of its options
    sent,         \* per run: the datagram left
    atSend,       \* history, per run: version of the files when it left
    version,      \* the present version of the files on the controller
    has,          \* per directory on the controller: the files in it now
    inbox,        \* per host: datagrams in the socket
    pending,      \* per host: commands queued
    done,         \* per host: commands finished, with what they met
    files,        \* per host, per file in ./syncdir: where it comes from, its version
    up            \* per host: ladaemon runs

front == <<request, sent, atSend, version, has>>
hosts == <<inbox, pending, done, files, up>>
vars  == <<exportVars, front, hosts>>

Kinds == {"file", "pkg", "update"}            \* the options -f, -p, -u
AsInstalled == [dir |-> "none", ver |-> 0]    \* from ladaemon's package, or absent
Unparsed == [sig |-> {}, dest |-> {}, valid |-> FALSE]

Init ==
    /\ ExportInit
    /\ request = [r \in Runs |-> Unparsed]
    /\ sent = [r \in Runs |-> FALSE] /\ atSend = [r \in Runs |-> 0]
    /\ version = 0 /\ has \in [Dirs -> SUBSET FileNames]
    /\ inbox = [h \in Hosts |-> <<>>]
    /\ pending = [h \in Hosts |-> <<>>]
    /\ done = [h \in Hosts |-> <<>>]
    /\ files = [h \in Hosts |-> [x \in FileNames |-> AsInstalled]]
    /\ up = [h \in Hosts |-> TRUE]

(***************************************************************************)
(* lasync.                                                                 *)
(***************************************************************************)
\* getopt goes through the options: bits add up, the last -m counts, -h ends
\* it. Without a bit nothing is sent.
ParseArgs(args) ==
    LET lists == {i \in DOMAIN args : args[i].opt = "m"}
        sig   == {args[i].opt : i \in DOMAIN args} \cap Kinds
    IN  [sig   |-> sig,
         dest  |-> IF lists = {} THEN {} ELSE args[Max(lists)].val,
         valid |-> sig # {} /\ \A i \in DOMAIN args : args[i].opt # "h"]

Parse(r) ==
    /\ step[r] = "off" /\ request[r] = Unparsed
    /\ \E args \in ArgLists : request' = [request EXCEPT ![r] = ParseArgs(args)]
    /\ UNCHANGED <<exportVars, sent, atSend, version, has, hosts>>

ExportShare(r) ==
    /\ request[r].valid
    /\ Export(r)
    /\ UNCHANGED <<front, hosts>>

\* The broadcast, whatever export_nfs said. It may miss any host; it does miss
\* one that is down or has no room.
SendTo(r, reached) ==
    /\ sent' = [sent EXCEPT ![r] = TRUE]
    /\ atSend' = [atSend EXCEPT ![r] = version]
    /\ inbox' = [h \in Hosts |-> IF h \in reached THEN Append(inbox[h], r) ELSE inbox[h]]
    /\ UNCHANGED <<exportVars, request, version, has, pending, done, files, up>>

Reachable == {h \in Hosts : up[h] /\ Len(inbox[h]) < SockCap}

Send(r) ==
    /\ request[r].valid /\ step[r] = "done" /\ ~sent[r]
    /\ \E reached \in SUBSET Reachable : SendTo(r, reached)

(***************************************************************************)
(* The owner of the files, the administrator of the controller.            *)
(***************************************************************************)
EditFiles ==
    /\ version < MaxVersion
    /\ version' = version + 1
    /\ \E d \in Dirs, left \in SUBSET FileNames : has' = [has EXCEPT ![d] = left]
    /\ UNCHANGED <<exportVars, request, sent, atSend, hosts>>

AdminStep == Admin /\ UNCHANGED <<front, hosts>>

(***************************************************************************)
(* A host.                                                                 *)
(***************************************************************************)
BatchUnordered(r, sig) ==                  \* Batch: packages before files
    LET If(k) == IF k \in sig THEN <<[req |-> r, kind |-> k]>> ELSE <<>>
    IN  If("pkg") \o If("file") \o If("update") \o <<[req |-> r, kind |-> "script"]>>

Batch(r, sig) ==
    LET If(k) == IF k \in sig THEN <<[req |-> r, kind |-> k]>> ELSE <<>>
    IN  If("file") \o If("pkg") \o If("update") \o <<[req |-> r, kind |-> "script"]>>

ForMeAlways(h, dest) == TRUE               \* ForMe: the list is not looked at

ForMe(h, dest) == dest = {} \/ h \in dest

Accept(h) ==
    /\ up[h] /\ inbox[h] # <<>>
    /\ LET r == Head(inbox[h]) IN
       pending' = IF ForMe(h, request[r].dest)
                  THEN [pending EXCEPT ![h] = @ \o Batch(r, request[r].sig)] ELSE pending
    /\ inbox' = [inbox EXCEPT ![h] = Tail(@)]
    /\ UNCHANGED <<exportVars, front, done, files, up>>

\* A share that is not exported matters to a file synchronisation only.
Exported(cmd) == cmd.kind = "file" => dirOf[cmd.req] \in table

Finish(h, cmd, copied) ==
    done' = [done EXCEPT ![h] = Append(@,
        [req |-> cmd.req, kind |-> cmd.kind, copied |-> copied,
         exported |-> Exported(cmd), used |-> files[h]])]

RunNewest(h) ==                            \* Run: the command queued last
    /\ up[h] /\ pending[h] # <<>>
    /\ Finish(h, Last(pending[h]), {})
    /\ pending' = [pending EXCEPT ![h] = Front(@)]
    /\ UNCHANGED <<exportVars, front, inbox, files, up>>

\* A file synchronisation is cp -r of what the directory holds now into
\* ./syncdir: it may fail as a whole or bring a part, and it removes nothing, so
\* a file that the directory lacks, or that did not come, is still the older
\* one. The other commands run with the files that are there.
Run(h) ==
    /\ up[h] /\ pending[h] # <<>>
    /\ LET cmd == Head(pending[h])
           dir == dirOf[cmd.req]
           within == IF cmd.kind = "file" /\ Exported(cmd) THEN has[dir] ELSE {}
       IN  \E part \in SUBSET within :
             /\ Finish(h, cmd, part)
             /\ files' = [files EXCEPT ![h] = [x \in FileNames |->
                    IF x \in part THEN [dir |-> dir, ver |-> version] ELSE files[h][x]]]
    /\ pending' = [pending EXCEPT ![h] = Tail(@)]
    /\ UNCHANGED <<exportVars, front, inbox, up>>

\* kill -9, exit() or a crash; the commands are in memory only.
Die(h) ==
    /\ up[h]
    /\ up' = [up EXCEPT ![h] = FALSE]
    /\ UNCHANGED <<exportVars, front, inbox, pending, done, files>>

Next ==
    \/ \E r \in Runs : Parse(r) \/ ExportShare(r) \/ Send(r)
    \/ EditFiles \/ AdminStep
    \/ \E h \in Hosts : Accept(h) \/ Run(h) \/ Die(h)

Spec == Init /\ [][Next]_vars
-----------------------------------------------------------------------------
(***************************************************************************)
(* Properties.                                                             *)
(***************************************************************************)
\* A host never runs, nor queues, a command that was not asked of it: what it
\* does comes from a request sent to all or naming it, and from a bit of that
\* request, however the options were written.
OnlyWhatWasAsked ==
    \A h \in Hosts : \A cmd \in Range(pending[h]) \cup Range(done[h]) :
        LET q == request[cmd.req] IN
        /\ sent[cmd.req] /\ q.valid
        /\ q.dest = {} \/ h \in q.dest
        /\ cmd.kind \in q.sig \cup {"script"}

\* When one request asks for files and packages, every file that its copy
\* brought lies in ./syncdir when its packages are installed and its scripts
\* run, at least as new as when the request left and from its own directory,
\* though another request may name a different one. (A pkg.lst that the copy
\* did not bring is what an older request left there: cp removes nothing.)
PackagesUseItsFiles ==
    \A h \in Hosts : \A i, j \in DOMAIN done[h] :
        LET f == done[h][i]
            p == done[h][j]
        IN  f.req = p.req /\ p.kind \in {"pkg", "script"} =>
                \A x \in f.copied :
                    p.used[x].dir = dirOf[p.req] /\ p.used[x].ver >= atSend[p.req]

\* A host that comes for the files finds them exported, whatever other runs do
\* to the exports meanwhile, unless the run's own export went wrong or the
\* administrator interfered.
ExportHolds ==
    \A h \in Hosts : \A cmd \in Range(done[h]) :
        ~cmd.exported =>
            ~result[cmd.req] \/ unwritten[cmd.req] \/ admin > 0

AllBatches == {Batch(r, s) : r \in Runs, s \in SUBSET Kinds}

\* Each host is an instance of the service that Daemon implements.
Service(h) == INSTANCE CommandService WITH
    pending <- pending[h],
    done    <- [i \in DOMAIN done[h] |-> [req |-> done[h][i].req, kind |-> done[h][i].kind]],
    alive   <- up[h],
    Batches <- AllBatches
HostsAreServices ==
    /\ \A h \in Hosts : Service(h)!Init
    /\ [][\A h \in Hosts : Service(h)!Next \/ UNCHANGED Service(h)!vars]_vars
=============================================================================
