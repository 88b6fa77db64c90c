----------------------------- MODULE Lifecycle -----------------------------
(***************************************************************************)
(* How ladaemon comes up and goes away: the init script, the double fork   *)
(* of init_daemon, the bind of the UDP port, the commands that inherit the *)
(* socket, and the maintainer scripts of the Debian and the RPM package. A *)
(* start is numbered; it is three processes in turn, of which one lives at *)
(* a time: the one that was called, its child, its grandchild.             *)
(*                                                                         *)
(* pidof sees processes, not starts: a process that forks between pidof    *)
(* and kill leaves its child alive. A stop by hand and a package's do not  *)
(* overlap here.                                                           *)
(***************************************************************************)
EXTENDS Naturals, FiniteSets

CONSTANTS
    MaxStarts,     \* bound: starts of ladaemon
    MaxTroubles    \* bound: failing forks, crashes, and stops by hand

Starts == 1..MaxStarts

VARIABLES
    proc,       \* per start: the process that lives, or "unused" or "gone"
    status,     \* per start: the exit status its caller saw
    forkFailed, \* history, per start: the first fork failed
    serving,    \* starts whose daemon has bound the port
    commands,   \* starts of which a command runs, with the socket inherited
    victims,    \* what pidof returned to the stop, postrm or postun under way
    caller,     \* which of them it is, or "none"; behind postrm's rm "kill", and
                \* behind postun's stop "rm"
    tree,       \* /opt/ladaemon is there
    script,     \* /etc/init.d/ladaemon is there
    packager,   \* "deb" or "rpm"
    pkg,        \* what it has done so far
    troubles    \* troubles so far

boot  == <<proc, status, forkFailed, serving>>
stop  == <<victims, caller>>
files == <<tree, script, packager, pkg>>
vars  == <<boot, commands, stop, files, troubles>>

Living == {"called", "child", "daemon"}
Pidof == {<<i, proc[i]>> : i \in {j \in Starts : proc[j] \in Living}}

Init ==
    /\ proc = [i \in Starts |-> "unused"]
    /\ status = [i \in Starts |-> "none"]
    /\ forkFailed = [i \in Starts |-> FALSE]
    /\ serving = {} /\ commands = {} /\ victims = {} /\ caller = "none"
    /\ tree = FALSE /\ script = FALSE /\ troubles = 0
    /\ packager \in {"deb", "rpm"} /\ pkg = "absent"

Trouble == troubles < MaxTroubles /\ troubles' = troubles + 1
Becomes(i, p) == proc' = [proc EXCEPT ![i] = p]

(***************************************************************************)
(* Starting.                                                               *)
(***************************************************************************)
\* `service ladaemon start', as far as it starts the program.
Launch == \E i \in Starts : proc[i] = "unused" /\ Becomes(i, "called")

StartByHand ==
    /\ script /\ tree /\ Launch
    /\ UNCHANGED <<status, forkFailed, serving, commands, stop, files, troubles>>

\* First fork of init_daemon. On failure pid is -1, which is true: the branch of
\* the parent is taken, and the caller sees 0.
Fork1(i) ==
    /\ proc[i] = "called"
    /\ \/ Becomes(i, "child") /\ UNCHANGED <<forkFailed, troubles>>
       \/ Trouble /\ Becomes(i, "gone") /\ forkFailed' = [forkFailed EXCEPT ![i] = TRUE]
    /\ status' = [status EXCEPT ![i] = "0"]
    /\ UNCHANGED <<serving, commands, stop, files>>

\* Second fork; nobody sees its status.
Fork2(i) ==
    /\ proc[i] = "child"
    /\ \/ Becomes(i, "daemon") /\ UNCHANGED troubles
       \/ Trouble /\ Becomes(i, "gone")
    /\ UNCHANGED <<status, forkFailed, serving, commands, stop, files>>

BindShared(i) ==                           \* Bind: with SO_REUSEADDR
    /\ proc[i] = "daemon" /\ i \notin serving
    /\ serving' = serving \cup {i}
    /\ UNCHANGED <<proc, status, forkFailed, commands, stop, files, troubles>>

\* create_daemon_socket. The port is taken while any process has it open, a
\* command of an earlier daemon included; then the daemon exits.
Bind(i) ==
    /\ proc[i] = "daemon" /\ i \notin serving
    /\ IF serving = {} /\ commands = {}
         THEN serving' = serving \cup {i} /\ UNCHANGED proc
         ELSE Becomes(i, "gone") /\ UNCHANGED serving
    /\ UNCHANGED <<status, forkFailed, commands, stop, files, troubles>>

(***************************************************************************)
(* Running and ending.                                                     *)
(***************************************************************************)
\* system() starts a command; it has the socket, and it outlives the daemon.
Spawn(i) ==
    /\ i \in serving \ commands
    /\ commands' = commands \cup {i}
    /\ UNCHANGED <<boot, stop, files, troubles>>

CommandEnds(i) ==
    /\ i \in commands
    /\ commands' = commands \ {i}
    /\ UNCHANGED <<boot, stop, files, troubles>>

Crash(i) ==
    /\ i \in serving /\ Trouble
    /\ Becomes(i, "gone") /\ serving' = serving \ {i}
    /\ UNCHANGED <<status, forkFailed, commands, stop, files>>

KillVictims ==
    LET hit == {i \in Starts : <<i, proc[i]>> \in victims} IN
    /\ proc' = [i \in Starts |-> IF i \in hit THEN "gone" ELSE proc[i]]
    /\ serving' = serving \ hit
    /\ victims' = {}

\* `service ladaemon stop': pidof, and later kill -9.
StopLooks ==
    /\ script /\ caller = "none" /\ Pidof # {} /\ Trouble
    /\ victims' = Pidof /\ caller' = "stop"
    /\ UNCHANGED <<boot, commands, files>>

StopKills ==
    /\ caller = "stop" /\ caller' = "none" /\ KillVictims
    /\ UNCHANGED <<status, forkFailed, commands, files, troubles>>

(***************************************************************************)
(* The package. When a version replaces another, dpkg calls the old one's  *)
(* postrm between unpacking and configuring the new one, and rpm the old   *)
(* one's %postun after everything else.                                    *)
(***************************************************************************)
Unpack ==
    /\ \/ pkg = "absent" /\ pkg' = "unpacked"
       \/ pkg = "installed" /\ pkg' = "upgrading"
    /\ tree' = TRUE
    /\ UNCHANGED <<boot, commands, stop, script, packager, troubles>>

\* When the new version is configured, and what has been done then.
Configured ==
    \/ pkg = "unpacked" /\ pkg' = "installed"
    \/ packager = "deb" /\ pkg = "replaced" /\ pkg' = "upgraded"
    \/ packager = "rpm" /\ pkg = "upgrading" /\ pkg' = "configured"

ConfigureStartsFirst ==                    \* Configure: start before cp
    /\ Configured
    /\ script' = tree
    /\ IF script /\ tree THEN Launch ELSE UNCHANGED proc
    /\ UNCHANGED <<status, forkFailed, serving, commands, stop, tree, packager, troubles>>

\* postinst configure and %post: cp the init script out of the tree, then
\* start. postrm left none behind, so without the tree there is none to start.
Configure ==
    /\ Configured
    /\ script' = tree
    /\ IF tree THEN Launch ELSE UNCHANGED proc
    /\ UNCHANGED <<status, forkFailed, serving, commands, stop, tree, packager, troubles>>

\* The package's files are erased before postrm or %postun is called.
Remove ==
    /\ pkg = "installed"
    /\ pkg' = "removing" /\ tree' = FALSE
    /\ UNCHANGED <<boot, commands, stop, script, packager, troubles>>

\* postrm: pidof, rm, kill.
PostrmLooks ==
    /\ packager = "deb" /\ pkg \in {"removing", "upgrading"} /\ caller = "none"
    /\ victims' = Pidof /\ caller' = "postrm"
    /\ UNCHANGED <<boot, commands, files, troubles>>

PostrmRemoves ==
    /\ caller = "postrm" /\ caller' = "kill"
    /\ tree' = FALSE /\ script' = FALSE
    /\ UNCHANGED <<boot, commands, victims, packager, pkg, troubles>>

PostrmKills ==
    /\ caller = "kill" /\ caller' = "none" /\ KillVictims
    /\ pkg' = IF pkg = "removing" THEN "removed" ELSE "replaced"
    /\ UNCHANGED <<status, forkFailed, commands, tree, script, packager, troubles>>

\* %postun: `service ladaemon stop', then rm.
PostunLooks ==
    /\ packager = "rpm" /\ pkg \in {"removing", "configured"} /\ caller = "none"
    /\ victims' = Pidof /\ caller' = "postun"
    /\ UNCHANGED <<boot, commands, files, troubles>>

PostunKills ==
    /\ caller = "postun" /\ caller' = "rm" /\ KillVictims
    /\ UNCHANGED <<status, forkFailed, commands, files, troubles>>

PostunRemoves ==
    /\ caller = "rm" /\ caller' = "none"
    /\ tree' = FALSE /\ script' = FALSE
    /\ pkg' = IF pkg = "removing" THEN "removed" ELSE "upgraded"
    /\ UNCHANGED <<boot, commands, victims, packager, troubles>>

Boot(i) == Fork1(i) \/ Fork2(i) \/ Bind(i)

Next ==
    \/ StartByHand \/ StopLooks \/ StopKills
    \/ Unpack \/ Configure \/ Remove \/ PostrmLooks \/ PostrmRemoves \/ PostrmKills
    \/ PostunLooks \/ PostunKills \/ PostunRemoves
    \/ \E i \in Starts : Boot(i) \/ Spawn(i) \/ CommandEnds(i) \/ Crash(i)

\* Processes are scheduled, and commands end.
Spec ==
    Init /\ [][Next]_vars /\ \A i \in Starts : WF_vars(Boot(i)) /\ WF_vars(CommandEnds(i))
-----------------------------------------------------------------------------
(***************************************************************************)
(* Properties.                                                             *)
(***************************************************************************)
\* However often the daemon is started and killed, the port has one reader: no
\* second daemon serves, and none serves beside a command of another daemon
\* that still has the socket.
OneReader == Cardinality(serving) <= 1 /\ (serving # {} => commands \subseteq serving)

\* A fresh installation ends with a daemon that serves, also if the service is
\* started by hand meanwhile, unless something goes wrong outside the scripts.
InstallServes ==
    pkg = "installed" ~> (serving # {} \/ troubles > 0 \/ pkg # "installed")

\* Its safe half: at no moment of that has the last process that could serve
\* given way to another, and no command without its daemon keeps the port from
\* them. (netutils.cpp:38-44, debian/postinst:19-40, daemon.spec:30-33)
InstallLeavesADaemon ==
    pkg = "installed" /\ troubles = 0 =>
        (\E i \in Starts : proc[i] \in Living) /\ (commands # {} => serving # {})

\* mscutils.cpp:24-25 mean to report a fork that fails.
ForkFailureIsReported == \A i \in Starts : forkFailed[i] => status[i] # "0"

\* An upgrade, for which postrm:9 says the old script is called, leaves the new
\* version in place.
UpgradeKeepsFiles == packager = "deb" /\ pkg = "upgraded" => tree /\ script
=============================================================================
