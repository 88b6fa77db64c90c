------------------------------- MODULE Daemon -------------------------------
(***************************************************************************)
(* The running ladaemon: the main thread receives datagrams and turns them *)
(* into queued commands (main.cpp:97-125, LAThread::parse_msg), the        *)
(* executor thread runs them (LAThread::execute_commands). Both share the  *)
(* LACommandExecuter object, guarded by g_mutex and g_cond. A thread's     *)
(* program counter names the statement it executes next.                   *)
(*                                                                         *)
(* Commands run with the mutex held, so the main thread cannot take        *)
(* another message while one runs; the kernel keeps SockCap datagrams and  *)
(* drops the rest. Either thread may leave the process through exit(),     *)
(* which runs the atexit handler cleanup() while the other thread goes on. *)
(***************************************************************************)
EXTENDS Naturals, Sequences

CONSTANTS
    Signals,      \* what lasync puts in LAMsg.cmd: sets of "file","pkg","update"
    Dests,        \* destination lists, as sets of words; {} is a broadcast
    HostName,     \* what gethostname returns on this host
    LocalIps,     \* what get_nic_info may return ("0.0.0.0" if the ioctl fails)
    MaxMsgs,      \* bound: datagrams that reach the host
    SockCap,      \* datagrams the socket's receive buffer holds
    MaxSpurious   \* bound: spurious returns from pthread_cond_wait

ASSUME SignalsAssumption == Signals \subseteq SUBSET {"file", "pkg", "update"}
ASSUME BoundsAssumption ==
    MaxMsgs \in Nat /\ SockCap \in Nat \ {0} /\ MaxSpurious \in Nat

VARIABLES
    sock,       \* datagrams in the socket's receive buffer
    arrived,    \* how many datagrams reached the host (history)
    mpc,        \* main thread: its program counter
    msg,        \* main thread: the datagram in hand
    todo,       \* main thread: commands parse_command has yet to push
    epc,        \* executor thread: its program counter
    cur,        \* executor thread: the command in hand
    mutex,      \* g_mutex: "free" or the thread that holds it
    queue,      \* executer->command_queue
    executer,   \* the shared object: "live", or "freed" by cleanup()
    proc,       \* the process: "up", "exiting" (inside exit()), "down"
    accepted,   \* history: every batch parse_command decided to queue
    done,       \* history: commands whose execute() returned
    spurious    \* how many spurious wakeups happened

mainVars == <<mpc, msg, todo>>
execVars == <<epc, cur>>
shared   == <<mutex, queue, executer, proc>>
history  == <<arrived, accepted, done, spurious>>
vars == <<sock, mainVars, execVars, shared, history>>

Kinds   == {"file", "pkg", "update", "script"}
Msg     == [id : 1..MaxMsgs, sig : Signals, dest : Dests]
Command == [id : 1..MaxMsgs, kind : Kinds]

Running == proc # "down"

(***************************************************************************)
(* Faults: variants of the definitions below with a plausible bug each.    *)
(* Nothing uses them; a run in which one takes the place of its original   *)
(* must violate the property that guards against it.                       *)
(***************************************************************************)
MainLockMissing ==                           \* MainLock: no pthread_mutex_lock
    /\ Running
    /\ mpc = "lock"
    /\ mpc' = "parse"
    /\ UNCHANGED <<sock, msg, todo, execVars, shared, history>>

MainPushFront ==                             \* MainPush: push_front
    /\ Running
    /\ mpc = "push" /\ todo # <<>>
    /\ queue' = <<Head(todo)>> \o queue
    /\ todo' = Tail(todo)
    /\ UNCHANGED <<sock, mpc, msg, execVars, mutex, executer, proc, history>>

MainSignalMissing ==                         \* MainSignal: no pthread_cond_signal
    /\ Running
    /\ mpc = "signal"
    /\ mpc' = "unlock"
    /\ UNCHANGED <<sock, msg, todo, execVars, shared, history>>

ExecWaitHolding ==                           \* ExecWait: sleeps with the mutex
    /\ Running
    /\ epc = "check" /\ queue = <<>>
    /\ epc' = "waiting"
    /\ UNCHANGED <<sock, mainVars, cur, shared, history>>

ExecPopBack ==                               \* ExecPop: pop_back
    /\ Running
    /\ epc = "pop"
    /\ queue' = SubSeq(queue, 1, Len(queue) - 1)
    /\ epc' = "delete"
    /\ UNCHANGED <<sock, mainVars, cur, mutex, executer, proc, history>>

ExecReacquireMissing ==                      \* ExecReacquire: wakes without it
    /\ Running
    /\ epc = "woken"
    /\ epc' = "unlock"
    /\ UNCHANGED <<sock, mainVars, cur, shared, history>>

\* The commands parse_command queues for a message, in the order it pushes
\* them: one per signal bit, lowest bit first, then always the scripts.
BatchOf(m) ==
    LET If(bit) == IF bit \in m.sig THEN <<[id |-> m.id, kind |-> bit]>> ELSE <<>>
    IN  If("file") \o If("pkg") \o If("update") \o <<[id |-> m.id, kind |-> "script"]>>

\* The destination check: a broadcast, or a list with this host's IP or name.
ForMe(dest, ip) == dest = {} \/ ip \in dest \/ HostName \in dest

Init ==
    /\ sock = <<>> /\ arrived = 0
    /\ mpc = "recv" /\ msg = <<>> /\ todo = <<>>
    /\ epc = "lock" /\ cur = <<>>
    /\ mutex = "free" /\ queue = <<>> /\ executer = "live" /\ proc = "up"
    /\ accepted = <<>> /\ done = <<>> /\ spurious = 0

(***************************************************************************)
(* The environment: datagrams, spurious wakeups, and kill -9 from the init *)
(* script.                                                                 *)
(***************************************************************************)
Arrive ==
    /\ Running
    /\ arrived < MaxMsgs
    /\ arrived' = arrived + 1
    /\ \/ /\ Len(sock) < SockCap
          /\ \E s \in Signals, d \in Dests :
                sock' = Append(sock, [id |-> arrived + 1, sig |-> s, dest |-> d])
       \/ /\ Len(sock) >= SockCap
          /\ UNCHANGED sock
    /\ UNCHANGED <<mainVars, execVars, shared, accepted, done, spurious>>

SpuriousWakeup ==
    /\ Running
    /\ epc = "waiting"
    /\ spurious < MaxSpurious
    /\ epc' = "woken"
    /\ spurious' = spurious + 1
    /\ UNCHANGED <<sock, mainVars, cur, shared, arrived, accepted, done>>

Kill ==
    /\ Running
    /\ proc' = "down"
    /\ UNCHANGED <<sock, mainVars, execVars, mutex, queue, executer, history>>

(***************************************************************************)
(* The main thread.                                                        *)
(***************************************************************************)
\* recvfrom: blocks until a datagram is there.
MainRecv ==
    /\ Running
    /\ mpc = "recv" /\ sock # <<>>
    /\ msg' = Head(sock)
    /\ sock' = Tail(sock)
    /\ mpc' = "lock"
    /\ UNCHANGED <<todo, execVars, shared, history>>

MainLock ==
    /\ Running
    /\ mpc = "lock" /\ mutex = "free"
    /\ mutex' = "main"
    /\ mpc' = "parse"
    /\ UNCHANGED <<sock, msg, todo, execVars, queue, executer, proc, history>>

\* parse_command up to its pushes, when the message is for this host.
MainAccept ==
    /\ Running
    /\ mpc = "parse"
    /\ \E ip \in LocalIps : ForMe(msg.dest, ip)
    /\ todo' = BatchOf(msg)
    /\ accepted' = accepted \o BatchOf(msg)
    /\ mpc' = "push"
    /\ UNCHANGED <<sock, msg, execVars, shared, arrived, done, spurious>>

\* The message is for other hosts: parse_command returns NULL.
MainSkip ==
    /\ Running
    /\ mpc = "parse"
    /\ \E ip \in LocalIps : ~ForMe(msg.dest, ip)
    /\ mpc' = "signal"
    /\ UNCHANGED <<sock, msg, todo, execVars, shared, history>>

\* gethostname or the socket() of get_nic_info fails: exit(1), mutex held.
MainExit ==
    /\ Running
    /\ mpc = "parse"
    /\ mpc' = "exit"
    /\ proc' = "exiting"
    /\ UNCHANGED <<sock, msg, todo, execVars, mutex, queue, executer, history>>

\* etc/ladaemon.conf is missing or repeats a key: the exception leaves
\* create_instance, which is outside the try block, and the process aborts.
MainAbort ==
    /\ Running
    /\ mpc = "parse"
    /\ proc' = "down"
    /\ UNCHANGED <<sock, mainVars, execVars, mutex, queue, executer, history>>

\* etc/ladaemon.conf goes between isfile() and the stream: read_config loops at
\* eof() for ever, mutex held.
MainSpin ==
    /\ Running
    /\ mpc = "parse"
    /\ mpc' = "spin"
    /\ UNCHANGED <<sock, msg, todo, execVars, shared, history>>

MainPush ==
    /\ Running
    /\ mpc = "push" /\ todo # <<>>
    /\ queue' = Append(queue, Head(todo))
    /\ todo' = Tail(todo)
    /\ UNCHANGED <<sock, mpc, msg, execVars, mutex, executer, proc, history>>

MainPushed ==
    /\ Running
    /\ mpc = "push" /\ todo = <<>>
    /\ mpc' = "signal"
    /\ UNCHANGED <<sock, msg, todo, execVars, shared, history>>

\* pthread_cond_signal wakes the executor thread if it waits, else is lost.
MainSignal ==
    /\ Running
    /\ mpc = "signal"
    /\ epc' = IF epc = "waiting" THEN "woken" ELSE epc
    /\ mpc' = "unlock"
    /\ UNCHANGED <<sock, msg, todo, cur, shared, history>>

MainUnlock ==
    /\ Running
    /\ mpc = "unlock"
    /\ mutex' = "free"
    /\ mpc' = "recv"
    /\ UNCHANGED <<sock, msg, todo, execVars, queue, executer, proc, history>>

Main == \/ MainRecv \/ MainLock \/ MainAccept \/ MainSkip \/ MainExit \/ MainAbort \/ MainSpin
        \/ MainPush \/ MainPushed \/ MainSignal \/ MainUnlock

(***************************************************************************)
(* The executor thread.                                                    *)
(***************************************************************************)
ExecLock ==
    /\ Running
    /\ epc = "lock" /\ mutex = "free"
    /\ mutex' = "exec"
    /\ epc' = "check"
    /\ UNCHANGED <<sock, mainVars, cur, queue, executer, proc, history>>

\* is_queue_empty is false: get_first_command, and execute() starts.
ExecFirst ==
    /\ Running
    /\ epc = "check" /\ queue # <<>>
    /\ cur' = Head(queue)
    /\ epc' = "execute"
    /\ UNCHANGED <<sock, mainVars, shared, history>>

\* is_queue_empty is true: pthread_cond_wait releases the mutex.
ExecWait ==
    /\ Running
    /\ epc = "check" /\ queue = <<>>
    /\ mutex' = "free"
    /\ epc' = "waiting"
    /\ UNCHANGED <<sock, mainVars, cur, queue, executer, proc, history>>

\* execute() returns, whatever its result: nobody looks at it.
ExecDone ==
    /\ Running
    /\ epc = "execute"
    /\ done' = Append(done, cur)
    /\ epc' = "pop"
    /\ UNCHANGED <<sock, mainVars, cur, shared, arrived, accepted, spurious>>

\* LAScriptExecutor::init finds no "plugindir" key: exit(1), mutex held.
ExecExit ==
    /\ Running
    /\ epc = "execute" /\ cur.kind = "script"
    /\ epc' = "exit"
    /\ proc' = "exiting"
    /\ UNCHANGED <<sock, mainVars, cur, mutex, queue, executer, history>>

\* LAScriptExecutor::init: unreadable configuration or plugin directory, an
\* exception nobody catches.
ExecAbort ==
    /\ Running
    /\ epc = "execute" /\ cur.kind = "script"
    /\ proc' = "down"
    /\ UNCHANGED <<sock, mainVars, execVars, mutex, queue, executer, history>>

\* read_pkg_list, or read_config for a script command: the file goes between
\* isfile() and the stream, and execute() does not return, mutex held.
ExecSpin ==
    /\ Running
    /\ epc = "execute" /\ cur.kind \in {"pkg", "script"}
    /\ epc' = "spin"
    /\ UNCHANGED <<sock, mainVars, cur, shared, history>>

ExecPop ==
    /\ Running
    /\ epc = "pop"
    /\ queue' = Tail(queue)
    /\ epc' = "delete"
    /\ UNCHANGED <<sock, mainVars, cur, mutex, executer, proc, history>>

ExecDelete ==
    /\ Running
    /\ epc = "delete"
    /\ cur' = <<>>
    /\ epc' = "check"
    /\ UNCHANGED <<sock, mainVars, shared, history>>

\* pthread_cond_wait returns with the mutex held.
ExecReacquire ==
    /\ Running
    /\ epc = "woken" /\ mutex = "free"
    /\ mutex' = "exec"
    /\ epc' = "unlock"
    /\ UNCHANGED <<sock, mainVars, cur, queue, executer, proc, history>>

ExecUnlock ==
    /\ Running
    /\ epc = "unlock"
    /\ mutex' = "free"
    /\ epc' = "lock"
    /\ UNCHANGED <<sock, mainVars, cur, queue, executer, proc, history>>

Exec == \/ ExecLock \/ ExecFirst \/ ExecWait \/ ExecDone \/ ExecExit \/ ExecAbort \/ ExecSpin
        \/ ExecPop \/ ExecDelete \/ ExecReacquire \/ ExecUnlock

(***************************************************************************)
(* exit(): the atexit handler cleanup() deletes the executer, the other    *)
(* thread still running, then the process ends.                            *)
(***************************************************************************)
InExit == mpc = "exit" \/ epc = "exit"

Cleanup ==
    /\ Running
    /\ InExit /\ executer = "live"
    /\ executer' = "freed"
    /\ UNCHANGED <<sock, mainVars, execVars, mutex, queue, proc, history>>

Terminate ==
    /\ Running
    /\ InExit /\ executer = "freed"
    /\ proc' = "down"
    /\ UNCHANGED <<sock, mainVars, execVars, mutex, queue, executer, history>>

Next == Arrive \/ SpuriousWakeup \/ Kill \/ Main \/ Exec \/ Cleanup \/ Terminate

\* Both threads are scheduled as long as they can run, and what a command starts
\* in a shell ends.
Fairness == WF_vars(Main) /\ WF_vars(Exec) /\ WF_vars(Cleanup) /\ WF_vars(Terminate)

Spec == Init /\ [][Next]_vars /\ Fairness
-----------------------------------------------------------------------------
(***************************************************************************)
(* Properties.                                                             *)
(***************************************************************************)
MainPCs == {"recv", "lock", "parse", "push", "signal", "unlock", "exit", "spin"}
ExecPCs == {"lock", "check", "execute", "pop", "delete",
            "waiting", "woken", "unlock", "exit", "spin"}
MainHolds == {"parse", "push", "signal", "unlock", "exit", "spin"}
ExecHolds == {"check", "execute", "pop", "delete", "unlock", "exit", "spin"}

\* Every variable has its type; the receive buffer (main.cpp:104 reads from
\* it) never holds more than the kernel lets it.
TypeOK ==
    /\ sock \in Seq(Msg) /\ Len(sock) <= SockCap
    /\ arrived \in 0..MaxMsgs
    /\ mpc \in MainPCs
    /\ msg \in Msg \cup {<<>>}
    /\ todo \in Seq(Command)
    /\ epc \in ExecPCs
    /\ cur \in Command \cup {<<>>}
    /\ mutex \in {"free", "main", "exec"}
    /\ queue \in Seq(Command)
    /\ executer \in {"live", "freed"}
    /\ proc \in {"up", "exiting", "down"}
    /\ accepted \in Seq(Command)
    /\ done \in Seq(Command)
    /\ spurious \in 0..MaxSpurious

\* Each thread is between its lock and its unlock exactly when g_mutex says so,
\* also after a wait that had to take the mutex back.
HeldMutex ==
    /\ (mutex = "main") <=> (mpc \in MainHolds)
    /\ (mutex = "exec") <=> (epc \in ExecHolds)

\* The two threads never touch the shared executer at once (lathread.cpp:17-20
\* and 27-40), and so the executor thread sees a message's commands all or not
\* at all: while it looks at the queue, parse_command has nothing left to push.
MutexDiscipline ==
    /\ HeldMutex
    /\ epc \in {"check", "execute", "pop", "delete"} => todo = <<>>

\* Once cleanup() has deleted the executer, no thread stands at a statement
\* that dereferences it, though the other thread runs until the process ends
\* (main.cpp:38-45; every exit() after startup happens with g_mutex held).
NoUseAfterFree ==
    executer = "freed" =>
        /\ mpc \notin {"parse", "push"}
        /\ epc \notin {"check", "execute", "pop"}

\* The executor thread never sleeps on work: when it waits and the mutex is
\* free, the queue is empty (lathread.cpp:28-39). The signal at line 19 may be
\* sent while it is anywhere in its loop.
NoLostWakeup ==
    epc = "waiting" /\ mutex = "free" => queue = <<>>

\* What has finished, then what is queued and not finished, then what is
\* still to be pushed, is exactly what was accepted: no command is lost, run
\* twice or overtaken (command.cpp:305-328, lathread.cpp:32-35).
Unfinished == (IF epc = "pop" THEN Tail(queue) ELSE queue) \o todo
NothingLost == done \o Unfinished = accepted

\* A thread is in a loop that waits for the end of a stream that did not open.
Spins == mpc = "spin" \/ epc = "spin"

\* The daemon comes to rest only when it has nothing to do: if no step is
\* possible, the process is gone, or a thread loops over a file that vanished
\* with the mutex in its hand.  (Kill is always possible while it runs.)
QuietStep == Main \/ Exec \/ Cleanup \/ Terminate
RestsOnlyWhenIdle ==
    Running /\ ~Spins /\ ~ENABLED QuietStep =>
        /\ mpc = "recv" /\ sock = <<>>
        /\ epc = "waiting" /\ queue = <<>> /\ todo = <<>>

\* A request in the socket's buffer that is addressed to this host is carried
\* out, its last command included, unless the process ends first: the main
\* thread comes back to recvfrom however long commands hold the mutex
\* (main.cpp:104), and no signal that comes too early leaves a command queued.
\* Only a file removed between isfile() and its stream (configparser.cpp:73-75,
\* command.cpp:94-102) leaves a thread in its loop, and the request undone.
DeliveredIsRun ==
    \A i \in 1..MaxMsgs :
        LET Delivered == \E n \in 1..Len(sock) :
                sock[n].id = i /\ (sock[n].dest = {} \/ HostName \in sock[n].dest)
            Carried == \E n \in 1..Len(done) : done[n] = [id |-> i, kind |-> "script"]
        IN  Delivered ~> (Carried \/ ~Running \/ Spins)

\* The daemon implements the service: a batch is accepted when parse_command
\* decides on it, and a command has run when its execute() returns.
Service == INSTANCE CommandService WITH
    Batches <- {BatchOf(m) : m \in Msg},
    pending <- Unfinished,
    done    <- done,
    alive   <- (proc = "up")

ServiceSpec == Service!Spec
=============================================================================
