----------------------------- MODULE PkgCommand -----------------------------
(***************************************************************************)
(* LAPkgCommand: execute() reads ./syncdir/pkg.lst, collects the packages  *)
(* of its "+" lines and of its "-" lines in two strings, and hands each    *)
(* string to the package manager, first to install, then to remove.        *)
(*                                                                         *)
(* The package manager is external: it gets words, refuses a command that  *)
(* names a package it does not know, and may fail for its own reasons. The *)
(* list file may be removed at any time (an administrator, or a controller *)
(* whose directory no longer has it).                                      *)
(***************************************************************************)
EXTENDS StrUtils

CONSTANTS
    Files,      \* the contents pkg.lst may have: sequences of lines
    Known,      \* the packages of the distribution, each a word
    Initially   \* what is installed before the command

\* A name is one symbol: no package's name is that of two packages joined.
ASSUME KnownAssumption == Known \subseteq {<<c>> : c \in Names}

VARIABLES
    lines,      \* the contents of pkg.lst
    present,    \* whether pkg.lst exists
    vanished,   \* history: it was removed after isfile() had seen it
    rest,       \* the lines not yet read
    install,    \* LAPkgCommand::install_list
    remove,     \* LAPkgCommand::remove_list
    phase,      \* "isfile", "open", "read", "install", "remove", "done", "spin"
    ran,        \* history: the package manager's commands, [op, words, ok]
    installed   \* the packages on this host

vars == <<lines, present, vanished, rest, install, remove, phase, ran, installed>>

Init ==
    /\ lines \in Files /\ present \in BOOLEAN /\ vanished = FALSE
    /\ rest = <<>> /\ install = <<>> /\ remove = <<>>
    /\ phase = "isfile" /\ ran = <<>> /\ installed = Initially

Vanish ==
    /\ present /\ phase \in {"isfile", "open"}
    /\ present' = FALSE
    /\ vanished' = (phase = "open")
    /\ UNCHANGED <<lines, rest, install, remove, phase, ran, installed>>

(***************************************************************************)
(* read_pkg_list. A fault comes before the definition it can replace.      *)
(***************************************************************************)
IsFileUnchecked ==                          \* IsFile: goes on without the file
    /\ phase = "isfile"
    /\ phase' = "open"
    /\ UNCHANGED <<lines, present, vanished, rest, install, remove, ran, installed>>

\* Without the file both lists stay empty; execute() ignores the result.
IsFile ==
    /\ phase = "isfile"
    /\ phase' = IF present THEN "open" ELSE "install"
    /\ UNCHANGED <<lines, present, vanished, rest, install, remove, ran, installed>>

\* If the stream does not open, eof() is never true: the loop does not end.
Open ==
    /\ phase = "open"
    /\ IF present THEN phase' = "read" /\ rest' = lines
                  ELSE phase' = "spin" /\ UNCHANGED rest
    /\ UNCHANGED <<lines, present, vanished, install, remove, ran, installed>>

\* install_list += " " + line
AddToInstall(list, text) == list \o <<"sp">> \o text

\* remove_list += " " + remove_list += line: the right += happens on the
\* temporary " " + remove_list, whose value is then appended to the list.
AddToRemove(list, text) == list \o <<"sp">> \o list \o text

\* verify_pkg_list on a line that is not empty, "+" or "-" cut off after it.
Marked(line, sign) == line # <<>> /\ TrimMatches(line) /\ StartsWith(Trim(line), sign)

ReadLineSwapped ==                          \* ReadLine: the flag reversed
    /\ phase = "read" /\ rest # <<>>
    /\ rest' = Tail(rest)
    /\ LET line == Head(rest)
       IN  /\ install' = IF Marked(line, "-") THEN AddToInstall(install, Tail(Trim(line))) ELSE install
           /\ remove'  = IF Marked(line, "+") THEN AddToRemove(remove, Tail(Trim(line))) ELSE remove
    /\ UNCHANGED <<lines, present, vanished, phase, ran, installed>>

ReadLine ==
    /\ phase = "read" /\ rest # <<>>
    /\ rest' = Tail(rest)
    /\ LET line == Head(rest)
       IN  /\ install' = IF Marked(line, "+") THEN AddToInstall(install, Tail(Trim(line))) ELSE install
           /\ remove'  = IF Marked(line, "-") THEN AddToRemove(remove, Tail(Trim(line))) ELSE remove
    /\ UNCHANGED <<lines, present, vanished, phase, ran, installed>>

EndOfFile ==
    /\ phase = "read" /\ rest = <<>>
    /\ phase' = "install"
    /\ UNCHANGED <<lines, present, vanished, rest, install, remove, ran, installed>>

(***************************************************************************)
(* execute, after read_pkg_list.                                           *)
(***************************************************************************)
\* The words the shell makes of a list: what lies between spaces.
WordsOf(list) ==
    LET IsWord(i, j) ==
            /\ i <= j /\ \A k \in i..j : list[k] # "sp"
            /\ i = 1 \/ list[i - 1] = "sp"
            /\ j = Len(list) \/ list[j + 1] = "sp"
    IN  {SubSeq(list, p[1], p[2]) :
            p \in {q \in (1..Len(list)) \X (1..Len(list)) : IsWord(q[1], q[2])}}

\* One command of the package manager: it succeeds, if it knows every word,
\* with `after` installed, or it fails and changes nothing.
PackageManager(op, words, after) ==
    \/ /\ words \subseteq Known
       /\ ran' = Append(ran, [op |-> op, words |-> words, ok |-> TRUE])
       /\ installed' = after
    \/ /\ ran' = Append(ran, [op |-> op, words |-> words, ok |-> FALSE])
       /\ UNCHANGED installed

\* An empty list means no command at all.
Skip == UNCHANGED <<ran, installed>>

Install ==
    /\ phase = "install"
    /\ \/ install = <<>> /\ Skip
       \/ /\ install # <<>>
          /\ PackageManager("install", WordsOf(install), installed \cup WordsOf(install))
    /\ phase' = "remove"
    /\ UNCHANGED <<lines, present, vanished, rest, install, remove>>

\* The removal runs whether or not the installation succeeded.
Remove ==
    /\ phase = "remove"
    /\ \/ remove = <<>> /\ Skip
       \/ /\ remove # <<>>
          /\ PackageManager("remove", WordsOf(remove), installed \ WordsOf(remove))
    /\ phase' = "done"
    /\ UNCHANGED <<lines, present, vanished, rest, install, remove>>

Command == IsFile \/ Open \/ ReadLine \/ EndOfFile \/ Install \/ Remove
Next == Vanish \/ Command

\* The executor thread is scheduled, and the package manager ends.
Spec == Init /\ [][Next]_vars /\ WF_vars(Command)
-----------------------------------------------------------------------------
(***************************************************************************)
(* Properties.                                                             *)
(***************************************************************************)
\* What the file's author meant (comment above verify_pkg_list: "valid add
\* package line +pkg1 pkg2 pkg3", "valid remove package line -pkg1 pkg2
\* pkg3"): the names on the lines that begin with the sign, blanks aside.
SignOf(line) ==
    LET visible == {i \in 1..Len(line) : line[i] \notin Blank}
    IN  IF visible = {} THEN "none" ELSE line[Min(visible)]
LinesWith(sign) == {n \in 1..Len(lines) : SignOf(lines[n]) = sign}
NamesIn(line) == {<<line[i]>> : i \in {j \in 1..Len(line) : line[j] \in Names}}
Meant(sign) == UNION {NamesIn(lines[n]) : n \in LinesWith(sign)}

\* What the comments above verify_pkg_list call a valid line, and what else does
\* no harm: what is first to be seen is a sign, and names between spaces follow
\* it; or it is a name; or a comment, if a space comes before it (trim takes
\* "#+pkg" for "+pkg"). At the end of a line with a sign there may be blanks.
First(line, f) == line[f] \notin Blank /\ \A k \in 1..(f - 1) : line[k] \in Blank
ListUpTo(line, f, e) ==
    /\ \A k \in (f + 1)..e : line[k] \in Names \cup {"sp"}
    /\ \A k \in (f + 1)..(e - 1) : "sp" \in {line[k], line[k + 1]}
    /\ \A k \in (e + 1)..Len(line) : line[k] \in Blank
    /\ e = Len(line) \/ line[e + 1] = "tab"
WellFormed(line) ==
    /\ line \in Seq(Chars)
    /\ \A f \in 1..Len(line) : First(line, f) =>
          \/ line[f] \in {"+", "-"} /\ \E e \in f..Len(line) : ListUpTo(line, f, e)
          \/ line[f] \in Names
          \/ line[f] = "hash" /\ \E k \in 1..(f - 1) : line[k] = "sp"
FilesWellFormed ==
    \A file \in Files : file \in Seq(Seq(Chars)) /\ \A n \in DOMAIN file : WellFormed(file[n])

Ran(op) == {i \in 1..Len(ran) : ran[i].op = op}
AllRanWell == phase = "done" /\ \A i \in 1..Len(ran) : ran[i].ok

\* The install command names exactly the packages of the "+" lines, over any
\* number of lines and with any blanks around them (command.cpp:117-121).
InstallsWhatIsMeant ==
    \A i \in Ran("install") : ran[i].words = Meant("+")

\* The same for "-" lines (command.cpp:122-125).
RemovesWhatIsMeant ==
    \A i \in Ran("remove") : ran[i].words = Meant("-")

\* A package on a "+" and on a "-" line ends up removed, whatever the order
\* of the lines, when both commands succeed: the lists are handled as a
\* whole, installation first (command.cpp:145-161).
RemovalWins ==
    AllRanWell /\ present /\ Cardinality(LinesWith("-")) <= 1 =>
        /\ Meant("-") \cap installed = {}
        /\ Meant("+") \ Meant("-") \subseteq installed

\* Whatever fails, a package that no "-" line names is not removed, as long
\* as no package has a name that is made of two names of the file.
OthersStayInstalled == Initially \ Meant("-") \subseteq installed

\* The command ends, and releases g_mutex with it, whatever fails, unless the
\* list file goes away between isfile() and the opening of the stream
\* (command.cpp:94-102): then read_pkg_list loops for ever.
EndsUnlessVanished == <>(phase = "done" \/ (phase = "spin" /\ vanished))
=============================================================================
