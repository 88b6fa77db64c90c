# lasync / ladaemon: a TLA+ verification project

The repository holds a small tool that keeps a group of hosts in step. An
administrator runs `lasync` on a controller. It exports a directory over NFS
and sends one UDP broadcast. On every host `ladaemon` receives it and, if it is
meant for this host, copies the directory, installs and removes packages,
updates the system and runs the scripts it finds. A second tree
(`src/mic/integration`) holds newer copies of the same library, with reports on
the hardware, and a collector of process information that stands alone.

Paths below are relative to `src/mic`: `ladaemon` is
`synctool/ladaemon-0.1`, `lasync` is `synctool/lasync-0.1`.

## 1. Inventory

| Component | State | Operations | Talks to |
|---|---|---|---|
| Receiver thread (`ladaemon/main.cpp`, `lib/lathread.cpp: parse_msg`) | the datagram in hand | recvfrom, lock, parse_command, signal, unlock | socket; shares queue and mutex with the executor |
| Executor thread (`lib/lathread.cpp: execute_commands`) | the command in hand | lock, first, execute, pop, delete, wait | the queue; child processes |
| Command queue (`lib/command.cpp: LACommandExecuter`) | a deque, a global object freed at exit | push, first, pop, parse_command | both threads |
| Message format (`*/lib/netutils.*`) | header and two strings in one buffer | build_msg, send_msg, extract_msg, create_daemon_socket | UDP |
| Package command (`lib/command.cpp`, `lib/strutils.cpp`) | two lists of names | read_pkg_list, verify_pkg_list, trim, execute | `pkg.lst`, the package manager |
| File synchronisation (`lib/command.cpp`, `lib/nfsutils.cpp`, `lib/fsutils.cpp`) | the mount table, directories under /tmp | is_nfs_mounted, create_temp_dir, mount_nfs, cp | NFS, the administrator |
| Update command (`lib/command.cpp`) | none | two shell commands | the package manager |
| Script command (`lib/scriptexecutor.cpp`, `lib/dirreader.cpp`) | a vector of names | read_dir, filter_scripts, execute_one, execute_all | the plugin directory, the scripts |
| Controller (`lasync`) | the request, `/etc/exports` | parse_args, export_nfs, build_msg, send_msg | NFS server, all hosts |
| Life cycle (`lib/mscutils.cpp`, `svcladaemon`, `debian/`, `daemon.spec`) | processes, the port, the installed files | start, fork twice, bind, stop, postinst, postrm | init, dpkg |
| Process collector (`integration/pic/main.cpp`) | a table, a private and a published file | scan_procs, parse_proc_stat, log_proc_info | /proc, readers of the file |
| Configuration parser (`*/lib/configparser.cpp`, in two versions) | lines, a map | create_instance, read_config, read_all, read_value | a file |
| Logging (`*/lib/logutils.cpp`) | static buffers, the name given to openlog | info_log, error_log, log | syslog; both threads |
| Integration library (`integration/lib`) | a command queue that is never emptied | parse_command, execute_all, is_nfs_mounted, umount_nfs; trim, split, in_list | clients of one thread, its unit tests among them |
| Hardware information (`integration/lib/sysutils.cpp`) | the process's file descriptors | getcpuinfo, getmeminfo, getworkloadinfo | /proc |

Where it is hard, and what must hold:

* **Two threads, one queue.** Commands run with the mutex held, so the receiver
  is shut out for as long as a package upgrade takes. The signal may be sent
  while nobody waits. `exit()` in one thread frees the queue while the other
  runs on. A command is looked at, run and popped in separate steps. Required:
  exclusion, no lost wakeup, no lost, doubled or overtaken command, no use
  after free, no rest while there is work.
* **A request is a batch.** Files before packages before the update before the
  scripts, each request whole, requests in the order they arrived.
* **Lengths on the wire.** A 16-byte header, two strings with one NUL, a
  receive buffer of 256 bytes, a length found by subtraction.
* **A text file becomes a shell command.** Lines are trimmed by an unanchored
  expression and concatenated; the file may vanish between two looks at it.
* **Mounts found by grep.** The table is read twice, a look that fails counts as
  "not mounted", results are ignored, directories are never removed. Required:
  the right share is copied; mounts pile up only if looking for them fails.
* **Fire and forget.** A broadcast is not acknowledged; what it names is read
  later, when the files may have changed. Required: what is carried out was
  asked of this host, and what the request's own copy brought is of the right
  directory and not older than the request. (`cp -r` removes nothing: what it did
  not bring is an older request's.)
* **Shared system files.** `/etc/exports` is appended to by overlapping runs
  whose writes and reloads may fail.
* **Processes.** Children inherit the socket, `pidof` and `kill` are two steps,
  `fork` fails, dpkg calls the old script in the middle of an upgrade.
* **Files read twice, devices asked twice.** A file that exists may be gone when
  it is opened, and then its reader loops for ever. Address and broadcast
  address come from two calls. Required: a request that says what the file says
  once and names the network it goes to.
* **Static buffers.** The receiver logs once without the mutex. Required: all
  other log lines are whole.
* **Resources that are not given back.** One report keeps a descriptor, the
  library's queue keeps its commands. Required: nothing hangs before the
  descriptors are spent, unless its file vanishes when it is opened, and what is
  run again is run with the right files.
* **Publishing a file.** Unlink, then rename, possibly by two collectors, while
  the processes listed come and go and the disk may be full.

`PROJECT.json` lists every hazard at its line with the properties that cover it.

## 2. Modules

| Module | Models | Abstract view, composition |
|---|---|---|
| `CommandService` | what a daemon promises: batches in, commands run in order, death | abstract specification |
| `Daemon` | both threads, statement by statement; exit, abort, kill | implements `CommandService` |
| `DaemonProofs` | theorems about `Daemon` | |
| `WireFormat` | one request from build_msg to extract_msg | |
| `ConfigParser` | the parser of ladaemon and lasync, as operators on lines | extended by `Controller` and `ScriptExecutor` |
| `Controller` | one run of lasync, from the file to the datagram | extends `WireFormat`, `ConfigParser`; its runs are shown to be `WireFormat`'s |
| `ControllerProofs` | theorems about `WireFormat`, `ConfigParser` and `Controller` | |
| `StrUtils` | trim as an operator on strings | used by `PkgCommand` |
| `PkgCommand` | the package command | |
| `PkgCommandProofs` | theorems about `StrUtils` and `PkgCommand` | |
| `FileSync` | the file synchronisation command | extended by `MicLibrary` |
| `MicStrings`, `MicConfig`, `HwInfo` | trim, split, in_list; the newer parser; the hardware reports | each extends the one before |
| `MicLibrary` | the integration library under one client | extends `FileSync`, `HwInfo` |
| `MicLibraryProofs` | theorems about `FileSync`, `MicStrings`, `MicConfig` and `MicLibrary` | |
| `ScriptExecutor` | the script command | |
| `Logging` | info_log, error_log and log, statement by statement | |
| `ScriptCommand` | the executor thread in a script command, the receiver beside it | extends `ScriptExecutor`, `Logging` |
| `ScriptCommandProofs` | theorems about `Logging`, `ScriptExecutor` and `ScriptCommand` | |
| `NfsExport` | export_nfs in several runs of lasync | extended by `SyncSystem` |
| `SyncSystem` | runs of lasync, the network, hosts | extends `NfsExport`; each host is an instance of `CommandService` |
| `SyncSystemProofs` | theorems about `NfsExport` and `SyncSystem` | |
| `Lifecycle`, `LifecycleProofs` | start, stop, fork, bind, package scripts | |
| `PicPublisher`, `PicPublisherProofs` | the process collector | |

`MC*` modules hold the sets and command lines that the configurations need.

How state and actions correspond to the code:

* **Daemon.** A program counter per thread (`mpc`, `epc`) names the next
  statement; one action per statement that touches shared state. `queue`,
  `mutex`, `executer` are the globals of the same names. `MainAccept`,
  `MainSkip`, `MainExit`, `MainAbort` and `MainSpin` are the outcomes of
  `parse_command`: commands to push, a request for others, `exit(1)`, an uncaught
  exception, and no return, when the configuration vanishes before it is opened.
  `accepted` and `done` are history. `ExecDone` stands for the whole of
  `execute()`, whose parts are the command modules; its result is looked at by
  nobody. An early `exit` in a script command is `ExecExit`, an exception `ExecAbort`, the
  loop over a file that vanished `ExecSpin`; whoever loops keeps the mutex. `LocalIps` has
  both the right address and `0.0.0.0`, which is what remains if the ioctl fails.
* **WireFormat.** Strings are sequences of characters with the sizes of the
  code (16 and 256). `Receive` cuts the datagram and puts unknown heap bytes
  behind it; `Extract` and `Crash` are the two results of the subtraction.
* **ConfigParser, Controller.** A line is a sequence of tokens, as fine as the
  regular expression of `read_all` tells them apart: blanks, `=`, the quote, `#`,
  words. `KeyPlaces` says where an unanchored match can begin. In `Controller`
  the variables `device`, `syncdir`, `ip` and `broadcast` are those of `main`;
  `GetIp` and `GetBroadcast` are the two ioctls. `Build`, `Send`, `Receive` are
  those of `WireFormat`, so the run ends where the daemon has read the request.
* **PkgCommand.** One action per line read. `AddToRemove` is what
  `remove_list += " " + remove_list += line` does, not what it seems to say.
  The package manager gets the words the shell makes of the string and either
  does all of it or fails.
* **FileSync.** One action per external command: the two `mount | grep`,
  `mktemp` and `mkdir`, `mount`, `cp`. The relation `Found` is grep's
  substring match. A `grep` whose shell fails is "not mounted" (`lookup` is then
  "failed", and what is mounted is mounted `by` "blind"). `AwkStale` is the buffer
  that fgets did not fill (`lookup` is "stale").
* **ScriptExecutor.** A name is its rank in the order of names; what
  `startswith` and `endswith` say of it are sets. The directory may change from
  the moment it is read, the configuration may be removed; `spin` is the loop of
  `read_config` on a stream that did not open. `Sorted` says what `std::sort`
  makes: the same elements in ascending order.
* **Logging, ScriptCommand.** A text has two halves, so that a torn line can be
  seen; `vsprintf` writes them one by one. `ScriptCommand` adds the mutex, the
  executor thread behind its script command and the receiver with the log calls
  of `main` and `parse_command` in their places.
* **MicStrings, MicConfig, HwInfo, MicLibrary.** The helpers are operators on
  token sequences and keep the boundary behaviour (`index > 0`). A report is
  described by its outcome: returned, thrown or hung, and how many descriptors
  it keeps. `MicLibrary` runs the queue with the actions of `FileSync`; `it` is
  execute_all's iterator. A call that fails for want of a descriptor fails the
  way its code does: silently (a shell), with an exception (fopen), or by never
  returning (a stream); a stream also never ends if its file vanished (`Hang`).
  `pkglst` says whose package list is in `./syncdir`: a copy need not bring one.
* **NfsExport, SyncSystem.** `Check`, `Config`, `Reload` are the three steps of
  `export_nfs`; a send follows whatever their result. A host takes a request
  whole and finishes one command at a time, which is what `Daemon` is shown to
  implement. A file synchronisation merges into `./syncdir` some of what the
  directory holds (`cp -r` may fail half way and removes nothing): `files` has an
  origin and a version for every name. Each finished command records what its
  copy brought and the files it met.
* **Lifecycle.** A start is three processes in turn. `victims` is what `pidof`
  printed, so a process that forks before the `kill` gets away. `Configure`,
  `PostrmLooks`, `PostrmRemoves` and `PostrmKills` are the Debian maintainer
  scripts in dpkg's order; with `packager = "rpm"`, `Configure` is %post, and
  `PostunLooks`, `PostunKills`, `PostunRemoves` are %postun (stop, then rm).
* **PicPublisher.** A row's fields are represented by the process they were
  read from, so a stale field is visible as another process's number. `Fclose`
  leaves the whole table or, on a full disk, the first rows of it (`Cut`).

**Faults.** Several modules hold variants of a definition with a plausible bug
(`MainLockMissing`, `AwkAnyLine`, `ConfigTruncates`, ...), marked with the name
they can take the place of. Nothing uses them. `PROJECT.json` pairs each
checked property with one; with it in place TLC must report that property.

## 3. Runs

Eight runs check that properties hold, four are expected to find a violation
and give the findings of section 4.

| Run | Bounds | States | Shows |
|---|---|---|---|
| `daemon` | 3 requests, 1 datagram in the socket, 1 spurious wakeup, 3 kinds of request, 4 destination lists | 408 k | `MutexDiscipline`, `NoUseAfterFree`, `NoLostWakeup`, `NothingLost`, `RestsOnlyWhenIdle`; `ServiceSpec` (refinement); `DeliveredIsRun` (liveness) |
| `wire_format` | real sizes; list and directory lengths at and around every boundary; files of every shape, 2 devices, 2 networks, 2 changes | 86 k | `RoundTrip`, `ListSurvives`, `SourceMatchesTarget`, `OneLineDecides` |
| `wire_long_list` | the same lengths | - | violates `NodeListArrives` |
| `pkg_lists` | every file of up to 3 lines out of 8 | 10 k | `InstallsWhatIsMeant`, `RemovalWins`, `OthersStayInstalled`, `EndsUnlessVanished` (liveness) |
| `pkg_remove_lines` | the same | - | violates `RemovesWhatIsMeant` |
| `mic_library` | 2 requests of 9 kinds, 3 synchronisations or lookups, 2 passes or lookups, 2 administrator steps, 2 temporary names, 2 descriptors, 2 reports | 3.8 M | `OneMountPerShare`, `OwnMountPoints`, `CopiesTheShare`, `HangsAreExplained`, `TakenAsListed`, `PackagesFollowFiles`, `UnmountsTheShare`, `ReportsAreTrue` |
| `process_table` | 2 collectors, 4 processes, a table of 3, 2 process changes | 2.8 M | `NeverHalfWritten`, `AbsentOnlyInBetween`, `LongLivedAreListed`, `RowsAreOwn` |
| `scripts` | 5 names, every directory and order, 4 configurations, 2 changes; 3 datagrams beside one script | 58 k | `RunInTurn`, `AllAreRun` (liveness), `DamageIsRaced` |
| `sync_system` | 2 runs, 2 directories, 1 host, 3 command lines, 1 administrator step, 2 versions of the files, 1 file name | 3.0 M | `OnlyWhatWasAsked`, `PackagesUseItsFiles`, `ExportHolds`, `LinesAreExcused`, `HostsAreServices` |
| `life_cycle` | 3 starts, 2 troubles, both packagers | 274 k | `OneReader`, `InstallLeavesADaemon`, `InstallServes` (liveness) |
| `fork_failure` | the same | - | violates `ForkFailureIsReported` |
| `package_upgrade` | the same | - | violates `UpgradeKeepsFiles` |

`process_table` also checks the type invariant of its module, which says that the
table is never overrun. The type invariant of `Daemon`, with the bound of the
socket's buffer, is proved and checked by no run of its own.

Why the bounds are enough:

* `daemon`: three requests are one running, one in hand and one in the socket,
  so that a further one is dropped; the code has no counter or state that a
  fourth would reach. One spurious wakeup puts the executor thread where a
  signal finds it not waiting. The theorems of section 5 hold without bounds.
* `wire_format`: the sizes are those of the code, and only the lengths of the
  strings matter; they are taken on both sides of 16 + list = 256 and
  16 + list + directory + 1 = 256. The files are as shipped, lack a key, repeat
  one, or have one in a comment that begins in the first column, or later. Two
  changes take an address away and bring one back.
* `pkg_lists`: what one line adds depends on the lists so far only through
  concatenation; three lines give an empty, a single and a repeated addition.
* `mic_library`: the queue is run twice, so that a synchronisation comes when all
  temporary names are used, and finds a mount of its own or the administrator's.
  `sync` is a prefix of `sync2`, `host1` of `host10`. A shell needs both
  descriptors, a stream one, so one report makes shells fail and two make
  streams hang. The machine matters to the reports alone and the configuration
  to what is taken and to the scripts; each unusual one goes with what is usual
  elsewhere (`MCInit`, `Focus`). A lookup fails before the first report, or for
  want of descriptors after it; three synchronisations are enough for one that
  mounts, one that cannot see that mount, and one that finds the first of the two.
* `scripts`: of the five names one is hidden, one of neither kind, and three must
  be kept in order, so unwanted ones occur first, last, next to each other and
  alone.
  Two datagrams are one that meets the result of the scripts and one that meets
  the command the other queued; the third finds both threads elsewhere. The
  receiver runs beside one script only (`MCInit`): the scripts' order does not
  depend on it.
* `process_table`: two entries fill the table, so a third process is cut off;
  one process has a blank in its name, one belongs to init's group. A collector
  scans once, since a scan starts by clearing everything but the published
  file, and the second collector stands for the next scan. A full disk cuts a
  file after any number of rows.
* `sync_system`: hosts share nothing and only read the controller's state, so
  one host shows what any of them can see, and `h2` occurs in lists. The first
  run's directory is fixed (`MCSpec`), the two being interchangeable; it starts
  with a package list, the other without, and the owner may add and remove one.
  Files of different names do not touch each other, so one name is enough.
* `life_cycle`: a start, one that collides with it, and one after a kill.

`CHECK_DEADLOCK FALSE` is set everywhere because each of these systems may
stop: a process exits or is killed, a command is over, arrivals are bounded.
Where stopping would be a fault it is a property: `RestsOnlyWhenIdle` for the
threads, and the liveness properties.

**Fairness.** `Daemon`: weak fairness of each thread, of the atexit handler and
of the end of the process: the kernel schedules threads that can run, and
what a command starts in a shell ends. That `execute()` itself returns is shown,
not assumed, for two of the commands (`EndsUnlessVanished`, `AllAreRun`), except
when a file vanishes under them; then `Daemon` has the loop as an outcome, and
`DeliveredIsRun` and `RestsOnlyWhenIdle` name it as the exception (`Spins`).
Nothing stronger is assumed of the mutex: arrivals are bounded, so a thread is
not passed over for ever. `PkgCommand` and `ScriptExecutor`: weak fairness of
the one thread that runs. `Lifecycle`: weak fairness of each start, which is a
scheduled process, and of the end of its commands. `ScriptCommand` assumes of
its threads no more than `ScriptExecutor` does of its own. Arrivals, failures, the
administrator and changes of files are never fair. The other modules have no
fairness and no liveness property.

## 4. Findings

* **A long node list crashes every daemon** (`wire_long_list`). The daemon keeps
  256 bytes. With more than 240 characters in the list,
  `strlen - host_list_len` (`ladaemon/lib/netutils.cpp:67`) is negative. The
  usage text of `-m` (`lasync/lib/cmdutils.cpp:47`) sets no limit.
* **Two removal lines spoil the removal** (`pkg_remove_lines`).
  `ladaemon/lib/command.cpp:124` appends the old list again and joins its last
  name to the new one; the package manager refuses the whole command. The
  shipped `syncdir/pkg.lst` has two removal lines.
* **A failed fork looks like success** (`fork_failure`).
  `if(pid=fork())` takes -1 for the parent's branch (`mscutils.cpp:17`).
* **An upgrade removes the new version** (`package_upgrade`). `debian/postrm`
  deletes `/opt/ladaemon` when called as the old script of an upgrade, after
  the new files have been unpacked.

Seen while modelling, without a run of their own: trim's expression is not
anchored, so `#+pkg` is taken for `+pkg` (`strutils.cpp:60`); a share whose
location contains that of another is taken for it (`nfsutils.cpp:20`); a request
that comes while the socket's buffer is full is lost without a trace; the three
load averages are read into fields whose comments name other periods
(`integration/lib/sysutils.cpp:153`, `sysutils.h:30-32`); `get_ip_by_hostname`
never assigns the address it is to return (`integration/lib/netutils.cpp:232`);
the newer parser keeps the quotes of a value, so the shipped `device = 'eth0'`
names no device there; `execute_all` leaves what it ran in the queue; an indented
comment counts as a setting, and decides if no other line has its key
(`lasync/lib/configparser.cpp:96`); a lookup whose shell fails says "not mounted",
and the share is mounted once more (`nfsutils.cpp:23-27`); a package list that a
directory lacks is taken from an older request, since `cp -r` removes nothing
(`command.cpp:46-48`); on a full disk a process table with rows missing is
published (`pic/main.cpp:184-203`); a configuration or package list that vanishes
between the check and the opening leaves the daemon in a loop with the mutex held
(`configparser.cpp:75`, `command.cpp:102`).

## 5. Proofs

All proofs are checked by TLAPS with its SMT, Zenon and LS4 backends. Every
theorem is for all values of the constants; `TLC` evaluates the assumptions on
the instances of section 3. The safety properties are seldom inductive: for each
module the parts that have to be added are named below, and each candidate was
checked by TLC before it was proved.

**DaemonProofs**, for any numbers of messages, socket places and wakeups, any
destination lists and addresses (`SignalsAssumption`, `BoundsAssumption`):
`TypeCorrect`, `MutexCorrect`, `FreedIsUnused`, `WakeupsAreKept`,
`NoDeadlock`, `MutexComesBack`, `CommandsAreConserved`, `DaemonImplementsService`.

* `TypeOK` and `HeldMutex`: who holds the mutex stands between its lock
  and its unlock;
* `InHand`: what a thread has in hand is what its program counter says, and
  the executor thread's command is the head of the queue until it is popped;
* `ExitPath`: the shared object is freed only by a thread that is in `exit()`
  and keeps the mutex for ever, which is why the other thread cannot reach a
  statement that uses it;
* `Asleep`: a waiting executor thread either has an empty queue or the receiver
  is between its push and its signal.

Each part is preserved by each action (one lemma per part, one step per
action). For conservation and refinement the lemma `StepKinds` sorts all steps
into three kinds: one accepts a batch, one finishes the head of what is
unfinished, the others change neither. `NothingLost` follows by associativity of
concatenation, and each kind maps to `Accept`, `Run`, `Die` or a stutter of
`CommandService`.

`MutexComesBack` is the rest of what can be said of deadlock without fairness.
Each step of the thread that holds the mutex releases it, ends the process, enters
one of the two loops over a file that vanished, or lowers a well-founded order: for the receiver, the statement and then the
commands it has yet to push; for the executor thread, the length of the queue
and then the statement. No step of anybody else changes what the order looks at.

**SyncSystemProofs**, for any finite number of runs (`RunsAssumption`: an
administrator starts finitely many), any hosts, directories and command lines:
`LinesStayExcused`, `FilesStayExported`, `HostsDoWhatIsAsked`,
`OwnFilesFirst`, `HostsServe`, `SystemImplementsExport`. What `NfsExport`
guarantees is proved of its own steps and carried to the whole tool by
`ExportStep` (a step of the tool is a step of `export_nfs` or leaves it alone).

* `Debts` counts: the lines of a directory and the runs that are about to write
  one are excused, and while it is not exported and nobody is about to write
  there is room for one more. Without the second half a run that finds nothing
  exported could not be let through.
* `Standing`: while the administrator keeps out, a line stays once written, and
  what a reload exported stays exported.
* `SentInv`, `InboxInv`: a datagram leaves when the export is over; those in a
  socket are of different runs, and no command of theirs is in the trace yet, so
  a new batch mixes with no other.
* `AskedInv`, `InOrder`, `Copies`: over the trace of a host (done, then pending),
  all was asked of it; the commands of a request stand together, its
  synchronisation first; each file that was copied is there, with its origin, until
  another copy brings one of its name.
* `Excused` ties what a host met to the export.

Whatever one step does to a host is one of `Listens`, `Takes` and `Works`, which
are also the stutter, `Accept` and `Run` of `CommandService`.

**PkgCommandProofs**, for lists of any number of lines of any length, any
distribution and any host: `MeantIsInstalled`, `RemovedAtTheEnd`, `OthersAreKept`.
Their hypothesis `FilesWellFormed` is the format that the comments above
`verify_pkg_list` give (a sign first, names between spaces), with the blanks, comments
and lines without a sign that do no harm. The hypothesis is needed: a line
`#+pkg` installs what nobody meant. TLC evaluates it for the files of the runs.
`KnownAssumption` is the limit named in section 6, `NamesAssumption` keeps
the names apart from the other characters.

* What `trim` returns begins at the last sign or name that blanks lead to
  (`TrimFromStart`), which on a well-formed line is its first visible character
  (`MarkedBySign`), and the words after a sign are the names (`ListWords`).
* `WordsOfJoin`: two lists with a space between them have the words of both,
  which is why appending is right for the "+" lines.
* `Collected(k)` says what is right for the two strings after k lines: all of
  the words of the first; of the second only its characters once there are two
  "-" lines, since the second spoils the words. That is enough for `OthersAreKept`,
  since the package manager refuses names it does not know.
* `ReadSoFar` and `Host` relate them to the phase and to what was installed.
* `CommandComesToAnEnd` asks less of the files, that they have lines
  (`FilesHaveLines`): each step of the command lowers the statement or the number
  of lines left, and `spin` is reached only if the file vanished.

**MicLibraryProofs**, for any shares and whatever grep takes for them, any
requests, configurations and machines, any number of descriptors, names of mktemp
and administrator steps: `SharesMountedOnce`, `MountsStayApart`,
`RightShareCopied`, `RightShareUnmounted`, `HangsExplained`, `FilesBeforePackages`,
`TakenByTheListed`, `ReportsTellTheTruth`. `FileSyncAssumption` says that grep finds a string in itself
and that the administrator mounts on a directory mktemp does not make;
`LibraryAssumption` that a shell needs at least one descriptor and not more than
there are; `HostnameAssumption` that a host's name is not empty and has no comma.

* `MountInv`: `NotOurs` (who is about to mount after a lookup that did not fail has
  no mount of that share) and `FreshDir` (the directory is new) make the mount
  safe; `Shows` says what is about to be copied. A mount after a failed lookup is
  marked as made `by` "blind", and is the later one of any two of a share.
* `FdsInv`: free descriptors and loads that were read add up, and a call hangs with
  none left or after a file vanished.
* `UmountInv`: there is no result while a call is under way.
* `QueueInv`: a package command stands behind its own synchronisation in the
  queue, which keeps that on every pass, since nothing is taken out.
* `split` is a recursive function: `SplitUnfolds` solves its equation, and
  `SplitIsPieces` shows what its places hold by looking at the last place where
  that would be wrong.
* `ReportsTellTheTruth` has the hypothesis `ProcIsTidy`, the form of the files in
  /proc: no blanks around a line, and what is said of any processor is said of
  the first. TLC evaluates it for the files of the run. Without it trim may keep
  blanks inside a value, and a report could mix two processors. What `trim` returns is the
  text without some of the blanks around it (`TrimCuts`), so a line that is a
  setting is its key, blanks with one colon, and its value (`SettingSays`); the
  first line with a key comes before the end of the first processor
  (`SettingsSay`, `TrueOfCpu`), and what a call returns is copied from such settings
  (`ReportCopies`, `WorkloadCopies`).

**PicPublisherProofs**, for any collectors and processes and any size of the
table (`PicAssumption`: ids are positive numbers, the table has two places or
more): `TableFits`, `WholeOrNone`, `GapsAreShort`, `LongLivedShown`,
`RowsShowTheirOwn`. `Scanned` says of a scan under way that the rows are in order
and that who lived so far and was passed by readdir has one; `Written` that the
private file holds what a scan left, or the rows of it that the disk took, and is
closed before the rename; `Shown` the
same of the published file.

**ScriptCommandProofs**, for any scripts, configurations and numbers of datagrams
(`CommandAssumption`: the daemon has its two threads and these two levels;
`ScriptAssumption`: names are numbers, and there are finitely many):
`OnlyRacesDamage`, `ScriptsRunInTurn`, `ScriptsAdvance`.

* For the log: `HeldMutex` ties the mutex to the statements, `Alone` marks any two
  calls that meet, `Faithful` says that an unmarked call finds in the static
  buffers what it wrote.
* `CommandRunsScripts`: a step of `ScriptCommand` is a step of `ScriptExecutor` or
  leaves it alone, so what is proved of the second holds in the first.
* `ScriptInv` is what `RunInTurn` needs: the loop that erases keeps each wanted
  name once and none of another kind before `it` (`Filtering`), and while scripts
  run the vector is `Wanted` in ascending order, those before `it` having run
  (`Running`). `ListedOnce` says that a listing repeats nothing, `SortedDistinct`
  that sorting it gives a strictly ascending sequence of the same names.
* `ScriptsAdvance`: the variant is the statement and the elements left in the
  loop. That the executor is never stuck (`NotStuck`) needs that a finite
  directory can be listed and a sequence sorted; `CanBeSorted` is an induction
  over length, put as a shortest sequence that has no sorted rearrangement
  (`Smallest`), whose tail then has one, where its head fits (`InsertInOrder`).

**ControllerProofs**, for any header and buffer size and any strings
(`WireAssumption`): `FittingRequestsRoundTrip` and `FittingListsSurvive`. The
invariant `Layout` says what the packet and the memory are in each phase; two
lemmas say where the first NUL is and what a cut leaves. Then, for any
configuration files, devices, networks and changes of them: `RunSendsAMessage`
(a run of lasync is a behaviour of `WireFormat`), from which
`BuiltRequestsRoundTrip` and `BuiltListsSurvive`; and `SourceInTheNetwork`, where
`AddressInv` says what the two calls have found so far. `ControllerAssumption`
keeps the names of networks apart from the special addresses. Last,
`RequestsAreUnambiguous`, under the hypothesis `OneSettingALine`, the limit named in
section 6, which TLC evaluates for the files of the run: the regular expression
takes a setting from a line exactly if the line has the form of one
(`QuotedIsKeyPlace`, `KeyPlaceIsQuoted`) and then gives the whole of its value
(`ValuesAreValueOf`); after `ReadConf` no key is set twice, and `main`'s two
variables hold the values of the lines with their keys (`ConfInv`, `ValueOfKey`).

**LifecycleProofs**, for any starts and troubles: `PortHasOneReader`,
`InstallationLeavesADaemon`. A daemon that serves is alone with its commands
(`Alone`), which is what `bind` sees. Before the package is configured nobody can
have started anything (`Fresh`), and while it is installed and nothing went
wrong no stop is under way (`Calm`); then only a process that finds the port
taken goes, and whoever has taken it lives.

Only model-checked:

* `Daemon!RestsOnlyWhenIdle`, which uses ENABLED: not in reach of the prover
  (`NoDeadlock` has its conclusion for threads at the statements that block; that
  no other statement does is left to TLC);
* liveness. What is left to TLC is the step from fairness to "eventually"; what
  that step rests on is proved. For `AllAreRun`: `ScriptsAdvance` and
  `ScriptsRunInTurn`. For `EndsUnlessVanished`: `CommandComesToAnEnd`. For
  `InstallServes`: `InstallationLeavesADaemon`, its safe half. For
  `DeliveredIsRun`: `NoDeadlock`, `WakeupsAreKept`, `MutexComesBack` and
  `CommandsAreConserved`;
* the runs that are expected to find a violation.

## 6. Not modelled, and limits of the model

* `parse_msg` is declared `int` and returns nothing. That is undefined; the
  Makefile compiles without optimisation, where the function returns, and that
  build is modelled.
* The integration library's `lathread.cpp`, `build_msg` and `extract_msg` are
  ladaemon's and lasync's text again. Its `main.cpp` prints what it receives and
  starts no command thread, so nothing of the library runs in it. `endswith` is
  `startswith` of the reversed texts. `get_ip_by_hostname`, `dump`, `getdiskinfo`,
  `getpciinfo` and `getvgainfo` only print.
* `Controller`: the test for root, the options (in `SyncSystem`) and the export
  (in `NfsExport`) are left out; no line has two settings in it. An indented
  comment is a line like any other, as in the code: `OneLineDecides` says that it
  contradicts no setting, not that it decides nothing.
* `NfsExport`: a line of `/etc/exports` ends with a newline, so what is appended
  joins no other; a write that fails leaves no part of the line.
* `Logging`: vsprintf is two writes. That a text with a `%` in it is formatted
  again by `log`, and texts longer than the buffers, are left out.
* `MicLibrary`: the administrator acts while the mount table is being read; what
  the package manager does is in `PkgCommand`. Exceptions other than the
  reports' end the client.
* `PkgCommand`: no package has a name that is two names of the list joined.
  What an update does to the host is outside the code.
* `SyncSystem`: a lost broadcast is not noticed by the code, and no property
  says that requests arrive. Directories do not contain each other's location;
  that case is in `FileSync`. The early exits of lasync are in `Controller`.
* `Lifecycle`: a stop by hand and a package's do not overlap; ports and paths of
  other programs are not considered.
* `PicPublisher`: a blank in a name is followed by a word, not by a digit. A full
  disk stays full until the file is closed, and a last line cut in the middle
  counts as no row.

## 7. Plan

Done, in this order: `Daemon` and `CommandService`, their proofs; `WireFormat`
and its proofs; `PkgCommand`, `FileSync`; `ScriptExecutor`, `NfsExport`,
`SyncSystem`; `Lifecycle`; `PicPublisher`; `ConfigParser` and `Controller`;
`MicStrings`, `MicConfig`, `HwInfo`, `MicLibrary`; `Logging` and `ScriptCommand`;
rpm in `Lifecycle`.

Proved since: `SyncSystem` with `NfsExport`, `PkgCommand`, `MicLibrary` with
`FileSync`, `PicPublisher`, `ScriptCommand` with `Logging` and `ScriptExecutor`,
`Controller`, `Lifecycle`.

To extend: `SyncSystem` with `FileSync` and `PkgCommand` as the commands of a
host instead of their outcomes.
