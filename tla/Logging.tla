------------------------------ MODULE Logging ------------------------------
(***************************************************************************)
(* LALogUtils (ladaemon lib/logutils.cpp), used by several threads. A call *)
(* of info_log or error_log formats its text into a static buffer of that  *)
(* function, log formats that buffer into a static one of its own, and     *)
(* syslog gets the latter between openlog and closelog, which give and     *)
(* take the name "laworks". A text is two halves, written one by one.      *)
(***************************************************************************)
EXTENDS Naturals

CONSTANTS Threads, Levels      \* who logs, and "info" and "error"

ASSUME LogAssumption == "log" \notin Levels

VARIABLES
    call,       \* per thread, the call under way: [at, level, text, locked, raced]
    buff,       \* the static buffers, of each level's function and of log
    opened,     \* between openlog and closelog
    line        \* what syslog was last given

logVars == <<call, buff, opened, line>>

NoCall == [at |-> "none"]
Active(t) == call[t].at # "none"

LogInit ==
    /\ call = [t \in Threads |-> NoCall]
    /\ buff = [b \in Levels \cup {"log"} |-> <<"", "">>]
    /\ opened = FALSE
    /\ line = [text |-> <<"", "">>, named |-> TRUE, meant |-> "", raced |-> FALSE]

\* A call begins: `locked` if its thread holds g_mutex. History: calls of which
\* one is not locked have met.
LogCall(t, level, text, locked) ==
    LET met == {u \in Threads \ {t} : Active(u) /\ ~(locked /\ call[u].locked)}
        new == [at |-> "format", half |-> 1, level |-> level, text |-> text,
                locked |-> locked, raced |-> met # {}]
    IN  /\ ~Active(t)
        /\ call' = [u \in Threads |-> IF u = t THEN new
                        ELSE IF u \in met THEN [call[u] EXCEPT !.raced = TRUE] ELSE call[u]]
        /\ UNCHANGED <<buff, opened, line>>

\* The next half, or the next statement.
Moved(t, next) == [call EXCEPT ![t] =
    IF @.half = 1 THEN [@ EXCEPT !.half = 2] ELSE [@ EXCEPT !.half = 1, !.at = next]]

\* info_log and error_log: vsprintf into the function's own buffer.
Format(t) ==
    /\ call[t].at = "format"
    /\ buff' = [buff EXCEPT ![call[t].level][call[t].half] = call[t].text]
    /\ call' = Moved(t, "copy")
    /\ UNCHANGED <<opened, line>>

\* log: vsprintf with that buffer as its format.
CopyText(t) ==
    /\ call[t].at = "copy"
    /\ buff' = [buff EXCEPT !["log"][call[t].half] = buff[call[t].level][call[t].half]]
    /\ call' = Moved(t, "open")
    /\ UNCHANGED <<opened, line>>

OpenLog(t) ==
    /\ call[t].at = "open"
    /\ opened' = TRUE /\ call' = [call EXCEPT ![t].at = "syslog"]
    /\ UNCHANGED <<buff, line>>

Syslog(t) ==
    /\ call[t].at = "syslog"
    /\ line' = [text |-> buff["log"], named |-> opened,
                 meant |-> call[t].text, raced |-> call[t].raced]
    /\ call' = [call EXCEPT ![t].at = "close"]
    /\ UNCHANGED <<buff, opened>>

CloseLog(t) ==
    /\ call[t].at = "close"
    /\ opened' = FALSE /\ call' = [call EXCEPT ![t] = NoCall]
    /\ UNCHANGED <<buff, line>>

LogStep(t) == Format(t) \/ CopyText(t) \/ OpenLog(t) \/ Syslog(t) \/ CloseLog(t)
-----------------------------------------------------------------------------
\* A line that is torn, another call's, or without the program's name comes from
\* a call that met one made without the mutex.
Whole == line.text = <<line.meant, line.meant>> /\ line.named
DamageIsRaced == Whole \/ line.raced
=============================================================================
