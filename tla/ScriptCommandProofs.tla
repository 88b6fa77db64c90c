------------------------ MODULE ScriptCommandProofs ------------------------
(***************************************************************************)
(* Proofs about ScriptCommand, for any scripts and configurations, any     *)
(* number of changes of the directory and of datagrams: what the log calls *)
(* of the two threads do to each other, which scripts run, and that the    *)
(* executor comes to an end.                                               *)
(***************************************************************************)
EXTENDS ScriptCommand, TLAPS, FiniteSetTheorems, SequenceTheorems, WellFoundedInduction

-----------------------------------------------------------------------------
(***************************************************************************)
(* The inductive invariant:                                                *)
(*   HeldMutex  which statement holds g_mutex, and which log calls are     *)
(*              made with it;                                              *)
(*   Alone      calls that meet know of it: the mutex keeps two calls that *)
(*              hold it apart, and any other pair is marked;               *)
(*   Faithful   so a call that is not marked finds in the buffers what it  *)
(*              wrote there.                                               *)
(***************************************************************************)
Texts == {"", "script command", "other command", "datagram", "parse", "device", "local", "dest"}
Calls == [at : {"format", "copy", "open", "syslog", "close"}, half : {1, 2}, level : Levels,
          text : Texts, locked : BOOLEAN, raced : BOOLEAN]

LogTypeOK ==
    /\ DOMAIN call = Threads /\ \A t \in Threads : call[t] = NoCall \/ call[t] \in Calls
    /\ buff \in [Levels \cup {"log"} -> [1..2 -> Texts]]

InParse == {"parse", "device", "local", "dest", "push", "unlock"}

HeldMutex ==
    /\ mutex = "exec" <=> exec \in {"scripts", "release"}
    /\ mutex = "main" <=> main \in InParse
    /\ Active("exec") => call["exec"].locked /\ exec = "release"
    /\ Active("main") => IF call["main"].locked THEN main \in InParse ELSE main = "lock"

Alone == \A t, u \in Threads : t # u /\ Active(t) /\ Active(u) => call[t].raced

\* The halves before this one hold the text.
Carries(b, text, half) == \A h \in 1..2 : h < half => buff[b][h] = text

Faithful(t) ==
    Active(t) /\ ~call[t].raced =>
        /\ call[t].at = "format" => Carries(call[t].level, call[t].text, call[t].half)
        /\ call[t].at = "copy" => /\ Carries(call[t].level, call[t].text, 3)
                                  /\ Carries("log", call[t].text, call[t].half)
        /\ call[t].at \in {"open", "syslog"} => Carries("log", call[t].text, 3)
        /\ call[t].at = "syslog" => opened

LogInv ==
    /\ LogTypeOK /\ HeldMutex /\ Alone /\ DamageIsRaced
    /\ \A t \in Threads : Faithful(t)

LEMMA CallFields ==
    /\ ~(NoCall \in Calls) /\ NoCall.at = "none"
    /\ \A c \in Calls : /\ c.at # "none" /\ c.level \in Levels /\ c.level # "log" /\ c.text \in Texts
                        /\ c.half \in {1, 2} /\ c.raced \in BOOLEAN /\ c.locked \in BOOLEAN
  <1>1. NoCall.at = "none"
    BY DEF NoCall
  <1>2. \A c \in Calls : c.at # "none" /\ c.level \in Levels /\ c.text \in Texts /\ c.half \in {1, 2}
    BY DEF Calls
  <1>3. \A c \in Calls : c.raced \in BOOLEAN /\ c.locked \in BOOLEAN
    BY Zenon DEF Calls
  <1>4. \A c \in Calls : c.level # "log"
    BY <1>2, LogAssumption
  <1> QED BY <1>1, <1>2, <1>3, <1>4

\* A statement of a call changes only where its thread is.
LEMMA StepOfCall ==
    ASSUME LogTypeOK, NEW t \in Threads, LogStep(t)
    PROVE  /\ DOMAIN call' = Threads
           /\ \A u \in Threads : u # t => call'[u] = call[u]
           /\ call[t] \in Calls
           /\ \/ call'[t] = NoCall
              \/ /\ call'[t] \in Calls /\ call'[t].level = call[t].level
                 /\ call'[t].text = call[t].text
                 /\ call'[t].locked = call[t].locked /\ call'[t].raced = call[t].raced
  <1> DEFINE c == call[t]
  <1>1. c \in Calls
    BY CallFields DEF LogStep, Format, CopyText, OpenLog, Syslog, CloseLog, LogTypeOK
  <1>2. PICK d : call' = [call EXCEPT ![t] = d]
                 /\ \/ d = NoCall
                    \/ d = [c EXCEPT !.half = 2]
                    \/ \E n \in {"copy", "open"} : d = [c EXCEPT !.half = 1, !.at = n]
                    \/ \E n \in {"syslog", "close"} : d = [c EXCEPT !.at = n]
    <2>1. CASE Format(t) \/ CopyText(t)
      <3>1. PICK n \in {"copy", "open"} : call' = Moved(t, n)
        BY <2>1 DEF Format, CopyText
      <3>2. call' = [call EXCEPT ![t] = IF c.half = 1 THEN [c EXCEPT !.half = 2]
                                                    ELSE [c EXCEPT !.half = 1, !.at = n]]
        BY <3>1 DEF Moved
      <3> QED BY <3>2
    <2>2. CASE OpenLog(t) \/ Syslog(t)
      <3>1. PICK n \in {"syslog", "close"} : call' = [call EXCEPT ![t].at = n]
        BY <2>2 DEF OpenLog, Syslog
      <3> QED BY <3>1
    <2>3. CASE CloseLog(t)
      BY <2>3 DEF CloseLog
    <2> QED BY <2>1, <2>2, <2>3 DEF LogStep
  <1>3. DOMAIN call' = Threads /\ call'[t] = d /\ \A u \in Threads : u # t => call'[u] = call[u]
    BY <1>2 DEF LogTypeOK
  <1> HIDE DEF c
  <1>4. d = NoCall \/ (d \in Calls /\ d.level = c.level /\ d.text = c.text
                       /\ d.locked = c.locked /\ d.raced = c.raced)
    <2>1. ASSUME d = [c EXCEPT !.half = 2]
          PROVE  d \in Calls /\ d.level = c.level /\ d.text = c.text /\ d.locked = c.locked /\ d.raced = c.raced
      BY <1>1, <2>1, Zenon DEF Calls
    <2>2. ASSUME NEW n \in {"copy", "open"}, d = [c EXCEPT !.half = 1, !.at = n]
          PROVE  d \in Calls /\ d.level = c.level /\ d.text = c.text /\ d.locked = c.locked /\ d.raced = c.raced
      BY <1>1, <2>2, Zenon DEF Calls
    <2>3. ASSUME NEW n \in {"syslog", "close"}, d = [c EXCEPT !.at = n]
          PROVE  d \in Calls /\ d.level = c.level /\ d.text = c.text /\ d.locked = c.locked /\ d.raced = c.raced
      BY <1>1, <2>3, Zenon DEF Calls
    <2> QED BY <1>2, <2>1, <2>2, <2>3
  <1> QED BY <1>1, <1>3, <1>4 DEF c

\* Writing one half, in either buffer.
LEMMA HalfWritten ==
    ASSUME LogTypeOK, NEW b \in Levels \cup {"log"}, NEW h \in 1..2, NEW text \in Texts,
           buff' = [buff EXCEPT ![b][h] = text]
    PROVE  /\ buff' \in [Levels \cup {"log"} -> [1..2 -> Texts]]
           /\ buff'[b][h] = text
           /\ \A k \in 1..2 : k # h => buff'[b][k] = buff[b][k]
           /\ \A d \in Levels \cup {"log"} : d # b => buff'[d] = buff[d]
  <1> DEFINE old == buff[b]
             new == [old EXCEPT ![h] = text]
  <1>1. old \in [1..2 -> Texts] /\ buff \in [Levels \cup {"log"} -> [1..2 -> Texts]]
    BY DEF LogTypeOK
  <1>2. buff' = [buff EXCEPT ![b] = new]
    OBVIOUS
  <1> HIDE DEF old
  <1>3. new \in [1..2 -> Texts] /\ new[h] = text /\ \A k \in 1..2 : k # h => new[k] = old[k]
    BY <1>1
  <1> HIDE DEF new
  <1>4. buff'[b] = new /\ buff' \in [Levels \cup {"log"} -> [1..2 -> Texts]]
    BY <1>1, <1>2, <1>3
  <1>5. \A d \in Levels \cup {"log"} : d # b => buff'[d] = buff[d]
    BY <1>1, <1>2
  <1> QED BY <1>3, <1>4, <1>5 DEF old

\* What a call has in its buffers, as long as it is alone.
LEMMA StepStaysFaithful ==
    ASSUME LogTypeOK, NEW t \in Threads, LogStep(t), Faithful(t), DamageIsRaced
    PROVE  Faithful(t)' /\ DamageIsRaced' /\ buff' \in [Levels \cup {"log"} -> [1..2 -> Texts]]
  <1> DEFINE c == call[t]
             l == c.level
             text == c.text
  <1>1. c \in Calls /\ t \in DOMAIN call /\ (call'[t] # NoCall => call'[t].raced = c.raced)
    BY StepOfCall DEF LogTypeOK
  <1>2. l \in Levels /\ l # "log" /\ text \in Texts /\ c.half \in 1..2
    <2>1. c.half \in {1, 2}
      BY <1>1, CallFields
    <2> QED BY <1>1, <2>1, CallFields
  <1>3. Active(t)
    BY <1>1, CallFields DEF Active
  <1>4. ASSUME NEW n, call' = Moved(t, n)
        PROVE  /\ c.half = 1 => call'[t].half = 2 /\ call'[t].at = c.at
               /\ c.half = 2 => call'[t].half = 1 /\ call'[t].at = n
               /\ call'[t].level = l /\ call'[t].text = text /\ call'[t].raced = c.raced
    <2>1. call'[t] = IF c.half = 1 THEN [c EXCEPT !.half = 2] ELSE [c EXCEPT !.half = 1, !.at = n]
      BY <1>1, <1>4 DEF Moved
    <2> HIDE DEF c
    <2> QED BY <1>1, <2>1 DEF Calls, l, text
  <1>5. CASE Format(t)
    <2>1. c.at = "format" /\ call' = Moved(t, "copy") /\ opened' = opened /\ line' = line
          /\ buff' = [buff EXCEPT ![l][c.half] = text]
      BY <1>5 DEF Format
    <2>2. /\ buff' \in [Levels \cup {"log"} -> [1..2 -> Texts]]
          /\ buff'[l][c.half] = text
          /\ \A k \in 1..2 : k # c.half => buff'[l][k] = buff[l][k]
      <3> DEFINE h == c.half
      <3>1. h \in 1..2 /\ l \in Levels \cup {"log"} /\ buff' = [buff EXCEPT ![l][h] = text]
        BY <1>2, <2>1
      <3> HIDE DEF h, l, text
      <3>2. text \in Texts
        BY <1>2
      <3> QED BY <3>1, <3>2, HalfWritten DEF h
    <2>3. DamageIsRaced'
      BY <2>1 DEF DamageIsRaced, Whole
    <2>4. ASSUME ~c.raced PROVE Faithful(t)'
      <3>1. \A h \in 1..2 : h < c.half => buff[l][h] = text
        BY <1>3, <2>1, <2>4 DEF Faithful, Carries
      <3>2. CASE c.half = 1
        <4>1. call'[t].half = 2 /\ call'[t].at = "format" /\ call'[t].level = l /\ call'[t].text = text
          BY <1>4, <2>1, <3>2
        <4>2. \A h \in 1..2 : h < 2 => buff'[l][h] = text
          BY <2>2, <3>2
        <4> HIDE DEF l, text, c
        <4> QED BY <4>1, <4>2 DEF Faithful, Carries
      <3>3. CASE c.half = 2
        <4>1. call'[t].half = 1 /\ call'[t].at = "copy" /\ call'[t].level = l /\ call'[t].text = text
          BY <1>4, <2>1, <3>3
        <4>2. \A h \in 1..2 : h < 3 => buff'[l][h] = text
          BY <2>2, <3>1, <3>3
        <4> HIDE DEF l, text, c
        <4> QED BY <4>1, <4>2 DEF Faithful, Carries
      <3> QED BY <1>2, <3>2, <3>3
    <2>5. c.raced => Faithful(t)'
      BY <1>4, <2>1 DEF Faithful
    <2> QED BY <2>2, <2>3, <2>4, <2>5
  <1>6. CASE CopyText(t)
    <2>1. c.at = "copy" /\ call' = Moved(t, "open") /\ opened' = opened /\ line' = line
          /\ buff' = [buff EXCEPT !["log"][c.half] = buff[l][c.half]]
      BY <1>6 DEF CopyText
    <2>2. /\ buff' \in [Levels \cup {"log"} -> [1..2 -> Texts]]
          /\ buff'["log"][c.half] = buff[l][c.half]
          /\ \A k \in 1..2 : k # c.half => buff'["log"][k] = buff["log"][k]
          /\ buff'[l] = buff[l]
      <3> DEFINE h == c.half
                 x == buff[l][h]
      <3>1. h \in 1..2 /\ buff' = [buff EXCEPT !["log"][h] = x]
        BY <1>2, <2>1
      <3>2. x \in Texts
        BY <1>2, <3>1 DEF LogTypeOK
      <3>3. "log" \in Levels \cup {"log"} /\ l \in Levels \cup {"log"} /\ l # "log"
        BY <1>2
      <3> HIDE DEF h, x, l
      <3>4. /\ buff' \in [Levels \cup {"log"} -> [1..2 -> Texts]]
            /\ buff'["log"][h] = x
            /\ \A k \in 1..2 : k # h => buff'["log"][k] = buff["log"][k]
            /\ \A d \in Levels \cup {"log"} : d # "log" => buff'[d] = buff[d]
        BY <3>1, <3>2, <3>3, HalfWritten
      <3> QED BY <3>3, <3>4 DEF h, x
    <2>3. DamageIsRaced'
      BY <2>1 DEF DamageIsRaced, Whole
    <2>4. ASSUME ~c.raced PROVE Faithful(t)'
      <3>1. /\ \A h \in 1..2 : h < 3 => buff[l][h] = text
            /\ \A h \in 1..2 : h < c.half => buff["log"][h] = text
        BY <1>3, <2>1, <2>4 DEF Faithful, Carries
      <3>2. buff[l][c.half] = text
        BY <1>2, <3>1
      <3>3. CASE c.half = 1
        <4>1. call'[t].half = 2 /\ call'[t].at = "copy" /\ call'[t].level = l /\ call'[t].text = text
          BY <1>4, <2>1, <3>3
        <4>2. \A h \in 1..2 : h < 2 => buff'["log"][h] = text
          BY <2>2, <3>2, <3>3
        <4>3. \A h \in 1..2 : h < 3 => buff'[l][h] = text
          BY <2>2, <3>1
        <4> HIDE DEF l, text, c
        <4> QED BY <4>1, <4>2, <4>3 DEF Faithful, Carries
      <3>4. CASE c.half = 2
        <4>1. call'[t].half = 1 /\ call'[t].at = "open" /\ call'[t].level = l /\ call'[t].text = text
          BY <1>4, <2>1, <3>4
        <4>2. \A h \in 1..2 : h < 3 => buff'["log"][h] = text
          BY <2>2, <3>1, <3>2, <3>4
        <4> HIDE DEF l, text, c
        <4> QED BY <4>1, <4>2 DEF Faithful, Carries
      <3> QED BY <1>2, <3>3, <3>4
    <2>5. c.raced => Faithful(t)'
      BY <1>4, <2>1 DEF Faithful
    <2> QED BY <2>2, <2>3, <2>4, <2>5
  <1>7. CASE OpenLog(t)
    <2>1. c.at = "open" /\ opened' = TRUE /\ buff' = buff /\ line' = line
          /\ call'[t] = [c EXCEPT !.at = "syslog"]
      BY <1>1, <1>7 DEF OpenLog
    <2>2. call'[t].at = "syslog" /\ call'[t].text = text /\ call'[t].raced = c.raced
      <3> HIDE DEF c
      <3> QED BY <1>1, <2>1 DEF Calls, text
    <2>3. DamageIsRaced' /\ buff' \in [Levels \cup {"log"} -> [1..2 -> Texts]]
      BY <2>1 DEF DamageIsRaced, Whole, LogTypeOK
    <2>4. ~c.raced => Carries("log", text, 3)
      BY <1>3, <2>1 DEF Faithful
    <2>5. Faithful(t)'
      BY <2>1, <2>2, <2>4 DEF Faithful, Carries
    <2> QED BY <2>3, <2>5
  <1>8. CASE Syslog(t)
    <2>1. /\ c.at = "syslog" /\ opened' = opened /\ buff' = buff
          /\ call'[t] = [c EXCEPT !.at = "close"]
          /\ line' = [text |-> buff["log"], named |-> opened, meant |-> text, raced |-> c.raced]
      BY <1>1, <1>8 DEF Syslog
    <2>2. call'[t].at = "close"
      <3> HIDE DEF c
      <3> QED BY <1>1, <2>1 DEF Calls
    <2>3. Faithful(t)'
      BY <2>2 DEF Faithful
    <2>4. ASSUME ~c.raced PROVE Whole'
      <3>1. Carries("log", text, 3) /\ opened
        BY <1>3, <2>1, <2>4 DEF Faithful
      <3>2. buff["log"] \in [1..2 -> Texts]
        BY DEF LogTypeOK
      <3>3. buff["log"][1] = text /\ buff["log"][2] = text
        BY <3>1 DEF Carries
      <3>4. buff["log"] = <<text, text>>
        BY <3>2, <3>3
      <3> HIDE DEF text, c
      <3>5. line'.text = <<text, text>> /\ line'.meant = text /\ line'.named = opened
        BY <2>1, <3>4
      <3> QED BY <3>1, <3>5, Zenon DEF Whole
    <2>5. line'.raced = c.raced
      BY <2>1
    <2>6. DamageIsRaced'
      BY <2>4, <2>5, Zenon DEF DamageIsRaced
    <2> QED BY <2>1, <2>3, <2>6 DEF LogTypeOK
  <1>9. CASE CloseLog(t)
    <2>1. call'[t] = NoCall /\ buff' = buff /\ line' = line
      BY <1>1, <1>9 DEF CloseLog
    <2> QED BY <2>1, CallFields DEF Faithful, Active, DamageIsRaced, Whole, LogTypeOK
  <1> QED BY <1>5, <1>6, <1>7, <1>8, <1>9 DEF LogStep

\* A statement of a call, with the threads where they are.
LEMMA LogStepKeeps ==
    ASSUME LogInv, NEW t \in Threads, LogStep(t), UNCHANGED <<mutex, exec, main>>
    PROVE  LogInv'
  <1>1. /\ DOMAIN call' = Threads
        /\ \A u \in Threads : u # t => call'[u] = call[u]
        /\ call[t] \in Calls
        /\ call'[t] = NoCall \/ call'[t] \in Calls
        /\ call'[t] # NoCall => call'[t].locked = call[t].locked /\ call'[t].raced = call[t].raced
    BY StepOfCall DEF LogInv
  <1>2. \A u \in Threads : Active(u)' =>
            /\ Active(u)
            /\ call'[u].locked = call[u].locked /\ call'[u].raced = call[u].raced
    BY <1>1, CallFields DEF Active
  <1>3. Faithful(t)' /\ DamageIsRaced' /\ buff' \in [Levels \cup {"log"} -> [1..2 -> Texts]]
    BY StepStaysFaithful DEF LogInv
  <1>4. LogTypeOK'
    BY <1>1, <1>3 DEF LogInv, LogTypeOK
  <1>5. HeldMutex'
    BY <1>2, CommandAssumption DEF LogInv, HeldMutex
  <1>6. Alone'
    BY <1>2 DEF LogInv, Alone
  <1>7. ASSUME NEW u \in Threads, u # t PROVE Faithful(u)'
    <2>1. Active(t)
      BY <1>1, CallFields DEF Active
    <2>2. Active(u)' => call'[u].raced
      BY <1>2, <1>7, <2>1 DEF LogInv, Alone
    <2> QED BY <2>2 DEF Faithful
  <1> QED BY <1>3, <1>4, <1>5, <1>6, <1>7 DEF LogInv

\* A call begins. No two that hold the mutex meet, so all that meet are marked.
LEMMA LogCallKeeps ==
    ASSUME LogInv, NEW t \in Threads, NEW level \in Levels, NEW text \in Texts,
           NEW locked \in BOOLEAN, LogCall(t, level, text, locked),
           \A u \in Threads : u # t /\ Active(u) => ~(locked /\ call[u].locked)
    PROVE  /\ LogTypeOK' /\ Alone' /\ DamageIsRaced' /\ \A u \in Threads : Faithful(u)'
           /\ call'[t].locked = locked
           /\ \A u \in Threads : u # t /\ Active(u)' => Active(u) /\ call'[u].locked = call[u].locked
  <1> DEFINE met == {u \in Threads \ {t} : Active(u) /\ ~(locked /\ call[u].locked)}
             mark == met # {}
             new == [at |-> "format", half |-> 1, level |-> level, text |-> text,
                     locked |-> locked, raced |-> mark]
             next(u) == IF u = t THEN new
                        ELSE IF u \in met THEN [call[u] EXCEPT !.raced = TRUE] ELSE call[u]
  <1>1. call' = [u \in Threads |-> next(u)] /\ UNCHANGED <<buff, opened, line>>
    BY DEF LogCall
  <1>2. \A u \in Threads : u \in met <=> u # t /\ Active(u)
    OBVIOUS
  <1>3. mark \in BOOLEAN /\ (mark <=> \E u \in Threads : u # t /\ Active(u))
    BY <1>2
  <1> HIDE DEF met, mark
  <1>4. new \in Calls /\ new.at = "format" /\ new.half = 1 /\ new.locked = locked /\ new.raced = mark
    <2>1. new \in Calls
      BY <1>3, Zenon DEF Calls
    <2> QED BY <2>1
  <1>5. ASSUME NEW u \in Threads, u # t, Active(u)
        PROVE  call[u] \in Calls
    BY <1>5, CallFields DEF Active, LogInv, LogTypeOK
  <1>6. ASSUME NEW c \in Calls
        PROVE  LET d == [c EXCEPT !.raced = TRUE]
               IN  d \in Calls /\ d.raced = TRUE /\ d.locked = c.locked
    BY <1>6, Zenon DEF Calls
  <1> HIDE DEF new
  <1>7. DOMAIN call' = Threads /\ call'[t] = new
    BY <1>1
  <1>8. ASSUME NEW u \in Threads, u # t
        PROVE  /\ Active(u) => call'[u] \in Calls /\ call'[u].raced = TRUE /\ call'[u].locked = call[u].locked
               /\ ~Active(u) => call'[u] = call[u]
    <2>1. CASE Active(u)
      <3>1. call'[u] = [call[u] EXCEPT !.raced = TRUE]
        BY <1>1, <1>2, <1>8, <2>1
      <3>2. call[u] \in Calls
        BY <1>5, <1>8, <2>1
      <3> QED BY <1>6, <2>1, <3>1, <3>2
    <2>2. CASE ~Active(u)
      BY <1>1, <1>2, <1>8, <2>2
    <2> QED BY <2>1, <2>2
  <1>9. \A u \in Threads : u # t /\ Active(u)' => Active(u) /\ call'[u].locked = call[u].locked
    BY <1>8 DEF Active
  <1>10. LogTypeOK'
    BY <1>1, <1>4, <1>7, <1>8 DEF LogInv, LogTypeOK
  <1>11. Alone'
    <2> SUFFICES ASSUME NEW a \in Threads, NEW b \in Threads, a # b, Active(a)', Active(b)'
                 PROVE  call'[a].raced
      BY DEF Alone
    <2>1. CASE a = t
      <3>1. mark
        BY <1>3, <1>9, <2>1
      <3> QED BY <1>4, <1>7, <2>1, <3>1
    <2>2. CASE a # t
      <3>1. call'[a].raced = TRUE
        BY <1>8, <1>9, <2>2
      <3> QED BY <3>1
    <2> QED BY <2>1, <2>2
  <1>12. DamageIsRaced'
    BY <1>1 DEF LogInv, DamageIsRaced, Whole
  <1>13. ASSUME NEW u \in Threads PROVE Faithful(u)'
    <2>1. CASE u = t
      BY <1>4, <1>7, <2>1 DEF Faithful, Carries
    <2>2. CASE u # t
      <3>1. Active(u)' => call'[u].raced
        BY <1>8, <1>9, <2>2
      <3> QED BY <3>1 DEF Faithful
    <2> QED BY <2>1, <2>2
  <1> QED BY <1>4, <1>7, <1>9, <1>10, <1>11, <1>12, <1>13

-----------------------------------------------------------------------------
(***************************************************************************)
(* The threads.                                                            *)
(***************************************************************************)
\* Steps that make no log call.
LEMMA QuietStep ==
    ASSUME LogInv, UNCHANGED logVars, HeldMutex'
    PROVE  LogInv'
  BY DEF LogInv, logVars, LogTypeOK, Alone, Active, DamageIsRaced, Whole, Faithful, Carries

\* The executor thread logs with the mutex.
LEMMA ExecutorLogs ==
    ASSUME LogInv, mutex = "exec", NEW text \in Texts, LogCall("exec", "info", text, TRUE),
           exec' = "release", UNCHANGED <<mutex, main>>
    PROVE  LogInv'
  <1>1. "exec" \in Threads /\ "info" \in Levels /\ Threads = {"exec", "main"}
    BY CommandAssumption
  <1>2. \A u \in Threads : u # "exec" /\ Active(u) => ~(TRUE /\ call[u].locked)
    BY <1>1 DEF LogInv, HeldMutex
  <1>3. /\ LogTypeOK' /\ Alone' /\ DamageIsRaced' /\ \A u \in Threads : Faithful(u)'
        /\ call'["exec"].locked = TRUE
        /\ \A u \in Threads : u # "exec" /\ Active(u)' => Active(u) /\ call'[u].locked = call[u].locked
    BY <1>1, <1>2, LogCallKeeps
  <1>4. HeldMutex'
    BY <1>1, <1>3 DEF LogInv, HeldMutex
  <1> QED BY <1>3, <1>4 DEF LogInv

\* The receiver logs in parse_command with the mutex, and a datagram without.
LEMMA ReceiverLogs ==
    ASSUME LogInv, NEW level \in {"info", "error"}, NEW text \in Texts, NEW locked \in BOOLEAN,
           LogCall("main", level, text, locked), UNCHANGED <<mutex, exec>>,
           IF locked THEN main \in InParse /\ main' \in InParse
                     ELSE main = "recv" /\ main' = "lock"
    PROVE  LogInv'
  <1>1. "main" \in Threads /\ level \in Levels /\ Threads = {"exec", "main"}
    BY CommandAssumption
  <1>2. \A u \in Threads : u # "main" /\ Active(u) => ~(locked /\ call[u].locked)
    BY <1>1 DEF LogInv, HeldMutex
  <1>3. /\ LogTypeOK' /\ Alone' /\ DamageIsRaced' /\ \A u \in Threads : Faithful(u)'
        /\ call'["main"].locked = locked
        /\ \A u \in Threads : u # "main" /\ Active(u)' => Active(u) /\ call'[u].locked = call[u].locked
    BY <1>1, <1>2, LogCallKeeps
  <1>4. HeldMutex'
    <2>1. CASE locked
      BY <1>1, <1>3, <2>1 DEF LogInv, HeldMutex
    <2>2. CASE ~locked
      <3>1. main = "recv" /\ main' = "lock" /\ call'["main"].locked = FALSE
        BY <1>3, <2>2
      <3>2. "recv" \notin InParse /\ "lock" \notin InParse
        BY DEF InParse
      <3> QED BY <1>1, <1>3, <3>1, <3>2 DEF LogInv, HeldMutex
    <2> QED BY <2>1, <2>2
  <1> QED BY <1>3, <1>4 DEF LogInv

LEMMA CommandInit == CmdInit => LogInv
  <1> SUFFICES ASSUME CmdInit PROVE LogInv
    OBVIOUS
  <1>1. /\ call = [t \in Threads |-> NoCall] /\ mutex = "exec" /\ exec = "scripts" /\ main = "recv"
        /\ buff = [b \in Levels \cup {"log"} |-> <<"", "">>]
        /\ line = [text |-> <<"", "">>, named |-> TRUE, meant |-> "", raced |-> FALSE]
    BY DEF CmdInit, LogInit
  <1>2. \A t \in Threads : ~Active(t) /\ call[t] = NoCall
    BY <1>1, CallFields DEF Active
  <1>3. LogTypeOK
    <2>1. <<"", "">> \in [1..2 -> Texts]
      <3>1. "" \in Texts
        BY DEF Texts
      <3>2. ASSUME NEW x \in Texts PROVE <<x, x>> \in [1..2 -> Texts]
        OBVIOUS
      <3> QED BY <3>1, <3>2
    <2>2. buff \in [Levels \cup {"log"} -> [1..2 -> Texts]]
      BY <1>1, <2>1
    <2> QED BY <1>1, <1>2, <2>2 DEF LogTypeOK
  <1>4. HeldMutex
    BY <1>1, <1>2, CommandAssumption DEF HeldMutex, InParse
  <1>5. Alone /\ \A t \in Threads : Faithful(t)
    BY <1>2 DEF Alone, Faithful
  <1>6. DamageIsRaced
    BY <1>1 DEF DamageIsRaced, Whole
  <1> QED BY <1>3, <1>4, <1>5, <1>6 DEF LogInv

LEMMA CommandNext == LogInv /\ [CmdNext]_allVars => LogInv'
  <1> SUFFICES ASSUME LogInv, [CmdNext]_allVars PROVE LogInv'
    OBVIOUS
  <1>1. CASE (Edit \/ RemoveConf) /\ UNCHANGED <<logVars, cmdVars>>
    BY <1>1, QuietStep DEF LogInv, HeldMutex, cmdVars, logVars, Active
  <1>2. CASE RunScripts \/ UNCHANGED allVars
    BY <1>2, QuietStep DEF RunScripts, allVars, LogInv, HeldMutex, cmdVars, logVars, Active
  <1>3. CASE LogResult
    <2>1. mutex = "exec" /\ "script command" \in Texts
      BY <1>3 DEF LogResult, LogInv, HeldMutex, Texts
    <2> QED BY <1>3, <2>1, ExecutorLogs DEF LogResult
  <1>4. CASE NextCommand
    <2>1. mutex = "exec" /\ "other command" \in Texts
      BY <1>4 DEF NextCommand, LogInv, HeldMutex, Texts
    <2> QED BY <1>4, <2>1, ExecutorLogs DEF NextCommand
  <1>5. CASE Wait \/ Wake
    <2>1. HeldMutex' /\ UNCHANGED logVars
      BY <1>5 DEF Wait, Wake, Goes, LogInv, HeldMutex, logVars, Active
    <2> QED BY <2>1, QuietStep
  <1>6. CASE Lock \/ Push \/ Unlock
    <2>1. HeldMutex' /\ UNCHANGED logVars
      BY <1>6 DEF Lock, Push, Unlock, Goes, LogInv, HeldMutex, logVars, Active, InParse
    <2> QED BY <2>1, QuietStep
  <1>7. CASE Receive
    <2>1. "info" \in {"info", "error"} /\ "datagram" \in Texts /\ FALSE \in BOOLEAN
      BY DEF Texts
    <2> QED BY <1>7, <2>1, ReceiverLogs DEF Receive
  <1>8. CASE ParseCommand
    <2> DEFINE level == IF main = "device" THEN "error" ELSE "info"
    <2>1. level \in {"info", "error"} /\ TRUE \in BOOLEAN
      OBVIOUS
    <2>2. /\ main \in {"parse", "device", "local", "dest"}
          /\ main' \in {"device", "local", "dest", "push", "unlock"}
          /\ LogCall("main", level, main, TRUE) /\ UNCHANGED <<mutex, exec>>
      BY <1>8, Zenon DEF ParseCommand
    <2>3. main \in Texts /\ main \in InParse /\ main' \in InParse
      BY <2>2 DEF Texts, InParse
    <2> HIDE DEF level
    <2> QED BY <2>1, <2>2, <2>3, ReceiverLogs
  <1>9. CASE Log
    <2>1. PICK t \in Threads : LogStep(t) /\ UNCHANGED cmdVars
      BY <1>9 DEF Log
    <2> QED BY <2>1, LogStepKeeps DEF cmdVars
  <1> QED BY <1>1, <1>2, <1>3, <1>4, <1>5, <1>6, <1>7, <1>8, <1>9 DEF CmdNext

\* However calls interleave, over any number of datagrams: a line that is torn,
\* is another call's or lacks the name is from a call that met an unlocked one,
\* and no two calls that hold g_mutex spoil each other's (logutils.cpp:11-45,
\* main.cpp:119).
THEOREM OnlyRacesDamage == CmdSpec => []DamageIsRaced
  <1>1. LogInv => DamageIsRaced
    BY DEF LogInv
  <1> QED BY <1>1, CommandInit, CommandNext, PTL DEF CmdSpec

-----------------------------------------------------------------------------
(***************************************************************************)
(* The scripts. RunInTurn is inductive with these:                         *)
(*   Filtering  while the vector is filtered it holds names of the         *)
(*              directory once, all that should run among them, and before *)
(*              the iterator no other;                                     *)
(*   Running    then exactly these, in order, and behind the iterator      *)
(*              those that were run;                                       *)
(*   NoneYet    until then none was.                                       *)
(***************************************************************************)
HasAll(s, S) == \A n \in S : \E i \in 1..Len(s) : s[i] = n
Distinct(s) == \A i, j \in 1..Len(s) : s[i] = s[j] => i = j

ScriptTypeOK ==
    /\ dir \subseteq Names /\ listed \subseteq Names /\ scripts \in Seq(Names)
    /\ it \in 1..(Len(scripts) + 1)
    /\ ran \in Seq([name : Names, ok : BOOLEAN])

Filtering ==
    pc = "filter" =>
        /\ Distinct(scripts) /\ HasAll(scripts, Wanted)
        /\ \A i \in 1..Len(scripts) : scripts[i] \in listed
        /\ \A i \in 1..(it - 1) : ~Unwanted(scripts[i])

Running ==
    pc \in {"run", "done"} =>
        /\ \A i, j \in 1..Len(scripts) : i < j => scripts[i] < scripts[j]
        /\ \A i \in 1..Len(scripts) : scripts[i] \in Wanted
        /\ HasAll(scripts, Wanted)
        /\ Len(ran) = it - 1 /\ \A i \in 1..(it - 1) : ran[i].name = scripts[i]
        /\ pc = "done" => it = Len(scripts) + 1

NoneYet == pc \notin {"run", "done"} => ran = <<>>
ResultOK == ret = 0 <=> \A i \in 1..Len(ran) : ran[i].ok

ScriptInv == ScriptTypeOK /\ Filtering /\ Running /\ NoneYet /\ ResultOK

\* vector::erase.
LEMMA RemoveAtElements ==
    ASSUME NEW D, NEW s \in Seq(D), NEW k \in DOMAIN s
    PROVE  /\ RemoveAt(s, k) \in Seq(D)
           /\ Len(RemoveAt(s, k)) = Len(s) - 1
           /\ \A i \in 1..(Len(s) - 1) :
                 RemoveAt(s, k)[i] = IF i < k THEN s[i] ELSE s[i + 1]
  <1>1. Len(s) \in Nat /\ k \in 1..Len(s)
    BY LenProperties
  <1>2. \A i \in 1..Len(s) : s[i] \in D
    BY ElementOfSeq
  <1> DEFINE a == SubSeq(s, 1, k - 1)
             b == SubSeq(s, k + 1, Len(s))
  <1>3. a \in Seq(D) /\ Len(a) = k - 1 /\ \A i \in 1..(k - 1) : a[i] = s[i]
    BY <1>1, <1>2, SubSeqProperties
  <1>4. b \in Seq(D) /\ Len(b) = Len(s) - k /\ \A i \in 1..(Len(s) - k) : b[i] = s[k + i]
    BY <1>1, <1>2, SubSeqProperties
  <1> HIDE DEF a, b
  <1>5. a \o b \in Seq(D) /\ Len(a \o b) = Len(s) - 1
    BY <1>1, <1>3, <1>4, ConcatProperties
  <1>6. ASSUME NEW i \in 1..(Len(s) - 1)
        PROVE  (a \o b)[i] = IF i < k THEN s[i] ELSE s[i + 1]
    <2>0. Len(a) + Len(b) = Len(s) - 1
      BY <1>1, <1>3, <1>4
    <2>1. i \in 1..(Len(a) + Len(b))
      BY <2>0
    <2>2. (a \o b)[i] = IF i <= Len(a) THEN a[i] ELSE b[i - Len(a)]
      BY <1>3, <1>4, <2>1, ConcatProperties
    <2>3. CASE i < k
      <3>1. i \in 1..(k - 1) /\ i <= Len(a)
        BY <1>1, <1>3, <2>3
      <3> QED BY <1>3, <2>2, <2>3, <3>1
    <2>4. CASE ~(i < k)
      <3>1. /\ i - (k - 1) \in 1..(Len(s) - k) /\ k + (i - (k - 1)) = i + 1
            /\ ~(i <= k - 1)
        BY <1>1, <2>4
      <3>2. b[i - (k - 1)] = s[i + 1]
        BY <1>4, <3>1
      <3> QED BY <1>3, <2>2, <2>4, <3>1, <3>2
    <2> QED BY <2>3, <2>4
  <1> QED BY <1>5, <1>6 DEF RemoveAt, a, b

\* readdir gives each entry of a directory once.
LEMMA ListedOnce ==
    ASSUME NEW S \in SUBSET Names, NEW s \in SetToSeqs(S)
    PROVE  s \in Seq(S) /\ Distinct(s) /\ HasAll(s, S)
  <1> DEFINE n == Cardinality(S)
  <1>1. IsFiniteSet(S) /\ n \in Nat
    BY ScriptAssumption, FS_Subset, FS_CardinalityType
  <1> HIDE DEF n
  <1>2. s \in [1..n -> S] /\ \A i, j \in 1..n : i # j => s[i] # s[j]
    BY DEF SetToSeqs, n
  <1>3. s \in Seq(S) /\ Len(s) = n
    BY <1>1, <1>2
  <1>4. s \in Injection(1..n, S)
    BY <1>2 DEF Injection, IsInjective
  <1>5. Cardinality(1..n) = n
    BY <1>1, FS_Interval
  <1>6. s \in Surjection(1..n, S)
    BY <1>1, <1>4, <1>5, FS_Injection DEF n
  <1> QED BY <1>2, <1>3, <1>6 DEF Distinct, HasAll, Surjection

\* Sorting loses nothing, adds nothing, and orders distinct elements strictly.
LEMMA SortedDistinct ==
    ASSUME NEW s \in Seq(Names), Distinct(s), NEW r \in Sorted(s)
    PROVE  /\ r \in Seq(Names) /\ Len(r) = Len(s)
           /\ \A i, j \in 1..Len(r) : i < j => r[i] < r[j]
           /\ \A i \in 1..Len(r) : \E k \in 1..Len(s) : r[i] = s[k]
           /\ \A k \in 1..Len(s) : \E i \in 1..Len(r) : r[i] = s[k]
  <1> DEFINE n == Len(s)
  <1>1. n \in Nat /\ DOMAIN s = 1..n /\ \A i \in 1..n : s[i] \in Names
    BY LenProperties, ElementOfSeq
  <1>2. PICK p \in Bijection(1..n, 1..n) : r = [i \in 1..n |-> s[p[i]]]
    BY <1>1 DEF Sorted
  <1>3. \A i, j \in 1..n : i < j => r[i] <= r[j]
    BY <1>1 DEF Sorted
  <1>4. /\ p \in [1..n -> 1..n]
        /\ \A i, j \in 1..n : p[i] = p[j] => i = j
        /\ \A k \in 1..n : \E i \in 1..n : p[i] = k
    BY <1>2 DEF Bijection, Injection, IsInjective, Surjection
  <1>5. Distinct(s) => \A i, j \in 1..n : s[i] = s[j] => i = j
    BY DEF Distinct
  <1> HIDE DEF n
  <1>6. \A i \in 1..n : r[i] = s[p[i]] /\ r[i] \in Names
    BY <1>1, <1>2, <1>4
  <1>7. r \in Seq(Names) /\ Len(r) = n
    BY <1>1, <1>2, <1>6
  <1>8. ASSUME NEW i \in 1..n, NEW j \in 1..n, i < j PROVE r[i] < r[j]
    <2>1. r[i] # r[j]
      <3>1. p[i] \in 1..n /\ p[j] \in 1..n /\ p[i] # p[j]
        BY <1>1, <1>4, <1>8
      <3>2. s[p[i]] # s[p[j]]
        BY <1>5, <3>1
      <3> QED BY <1>6, <3>2
    <2>2. r[i] \in Nat /\ r[j] \in Nat
      BY <1>6, ScriptAssumption
    <2> QED BY <1>3, <1>8, <2>1, <2>2
  <1>9. \A i \in 1..n : \E k \in 1..n : r[i] = s[k]
    BY <1>4, <1>6
  <1>10. \A k \in 1..n : \E i \in 1..n : r[i] = s[k]
    BY <1>4, <1>6
  <1> QED BY <1>7, <1>8, <1>9, <1>10 DEF n

LEMMA ScriptsInit == Init => ScriptInv
  BY DEF Init, ScriptInv, ScriptTypeOK, Filtering, Running, NoneYet, ResultOK

\* Steps that leave the scripts alone.
LEMMA OtherSteps ==
    ASSUME ScriptInv, dir' \subseteq Names, UNCHANGED <<listed, scripts, it, ran, ret>>,
           pc' = pc \/ (pc \notin {"filter", "run", "done"} /\ pc' \notin {"filter", "run", "done"})
    PROVE  ScriptInv'
  BY DEF ScriptInv, ScriptTypeOK, Filtering, Running, NoneYet, ResultOK, Wanted, Distinct, HasAll

LEMMA ReadDirKeeps == ScriptInv /\ ReadDir => ScriptInv'
  <1> SUFFICES ASSUME ScriptInv, ReadDir PROVE ScriptInv'
    OBVIOUS
  <1>1. /\ pc = "read" /\ pc' = "filter" /\ listed' = dir /\ dir' = dir /\ it' = 1
        /\ ran' = ran /\ ret' = ret /\ ran = <<>> /\ dir \subseteq Names
    BY DEF ReadDir, ScriptInv, NoneYet, ScriptTypeOK
  <1>2. scripts' \in Seq(dir) /\ Distinct(scripts') /\ HasAll(scripts', dir)
    BY <1>1, ListedOnce DEF ReadDir
  <1>3. scripts' \in Seq(Names) /\ \A i \in 1..Len(scripts') : scripts'[i] \in dir
    BY <1>1, <1>2, ElementOfSeq
  <1>4. ScriptTypeOK' /\ ResultOK'
    BY <1>1, <1>3 DEF ScriptInv, ScriptTypeOK, ResultOK
  <1>5. Filtering'
    <2>1. Wanted' \subseteq dir
      BY <1>1 DEF Wanted
    <2>2. HasAll(scripts', Wanted')
      BY <1>2, <2>1 DEF HasAll
    <2>3. \A i \in 1..(it' - 1) : ~Unwanted(scripts'[i])
      BY <1>1
    <2> QED BY <1>1, <1>2, <1>3, <2>2, <2>3 DEF Filtering, Distinct, HasAll, Unwanted
  <1> QED BY <1>1, <1>4, <1>5 DEF ScriptInv, Running, NoneYet

LEMMA EraseKeeps == ScriptInv /\ Erase => ScriptInv'
  <1> SUFFICES ASSUME ScriptInv, Erase PROVE ScriptInv'
    OBVIOUS
  <1> DEFINE n == Len(scripts)
  <1>1. /\ pc = "filter" /\ pc' = pc /\ it \in DOMAIN scripts /\ Unwanted(scripts[it])
        /\ scripts' = RemoveAt(scripts, it) /\ listed' = listed /\ dir' = dir /\ it' = it
        /\ ran' = ran /\ ret' = ret
    BY DEF Erase
  <1>2. /\ scripts \in Seq(Names) /\ n \in Nat /\ it \in 1..n
        /\ Distinct(scripts) /\ HasAll(scripts, Wanted)
        /\ \A i \in 1..n : scripts[i] \in listed
        /\ \A i \in 1..(it - 1) : ~Unwanted(scripts[i])
    BY <1>1, LenProperties DEF ScriptInv, ScriptTypeOK, Filtering
  <1>3. /\ scripts' \in Seq(Names) /\ Len(scripts') = n - 1
        /\ \A i \in 1..(n - 1) : scripts'[i] = IF i < it THEN scripts[i] ELSE scripts[i + 1]
    BY <1>1, <1>2, RemoveAtElements
  <1>4. Distinct(scripts')
    <2>0. \A i, j \in 1..n : scripts[i] = scripts[j] => i = j
      BY <1>2 DEF Distinct
    <2> HIDE DEF n
    <2>1. ASSUME NEW i \in 1..(n - 1), NEW j \in 1..(n - 1), scripts'[i] = scripts'[j] PROVE i = j
      <3> DEFINE a == IF i < it THEN i ELSE i + 1
                 b == IF j < it THEN j ELSE j + 1
      <3>1. a \in 1..n /\ b \in 1..n /\ (a = b => i = j)
        BY <1>2
      <3>2. scripts'[i] = scripts[a] /\ scripts'[j] = scripts[b]
        BY <1>3
      <3> HIDE DEF a, b
      <3> QED BY <2>0, <2>1, <3>1, <3>2
    <2> QED BY <1>3, <2>1 DEF Distinct
  <1>5. HasAll(scripts', Wanted)
    <2> SUFFICES ASSUME NEW m \in Wanted PROVE \E i \in 1..(n - 1) : scripts'[i] = m
      BY <1>3 DEF HasAll
    <2>1. PICK k \in 1..n : scripts[k] = m
      BY <1>2 DEF HasAll
    <2>2. k # it
      BY <1>1, <2>1 DEF Unwanted, Wanted
    <2> HIDE DEF n
    <2>3. CASE k < it
      BY <1>2, <1>3, <2>1, <2>3
    <2>4. CASE k > it
      <3>1. k - 1 \in 1..(n - 1) /\ ~(k - 1 < it) /\ (k - 1) + 1 = k
        BY <1>2, <2>4
      <3> QED BY <1>3, <2>1, <3>1
    <2> QED BY <1>2, <2>2, <2>3, <2>4
  <1>6. \A i \in 1..(n - 1) : scripts'[i] \in listed
    <2> HIDE DEF n
    <2> QED BY <1>2, <1>3
  <1>7. ASSUME NEW i \in 1..(it - 1) PROVE ~Unwanted(scripts'[i])
    <2>1. i \in 1..(n - 1) /\ i < it
      BY <1>2
    <2> QED BY <1>2, <1>3, <2>1
  <1>8. ScriptTypeOK' /\ ResultOK'
    <2>1. it' \in 1..(Len(scripts') + 1)
      BY <1>1, <1>2, <1>3
    <2> QED BY <1>1, <1>3, <2>1 DEF ScriptInv, ScriptTypeOK, ResultOK
  <1>9. Filtering'
    <2>1. Wanted' = Wanted
      BY <1>1 DEF Wanted
    <2> QED BY <1>1, <1>3, <1>4, <1>5, <1>6, <1>7, <2>1 DEF Filtering, Distinct, HasAll, Unwanted
  <1> QED BY <1>1, <1>8, <1>9 DEF ScriptInv, Running, NoneYet

LEMMA KeepKeeps == ScriptInv /\ Keep => ScriptInv'
  <1> SUFFICES ASSUME ScriptInv, Keep PROVE ScriptInv'
    OBVIOUS
  <1>1. /\ pc = "filter" /\ pc' = pc /\ it \in DOMAIN scripts /\ ~Unwanted(scripts[it])
        /\ scripts' = scripts /\ listed' = listed /\ dir' = dir /\ it' = it + 1
        /\ ran' = ran /\ ret' = ret
    BY DEF Keep
  <1>2. scripts \in Seq(Names) /\ Len(scripts) \in Nat /\ it \in 1..Len(scripts)
    BY <1>1, LenProperties DEF ScriptInv, ScriptTypeOK
  <1>3. ScriptTypeOK' /\ ResultOK'
    BY <1>1, <1>2 DEF ScriptInv, ScriptTypeOK, ResultOK
  <1>4. ASSUME NEW i \in 1..(it' - 1) PROVE ~Unwanted(scripts[i])
    <2>1. i = it \/ i \in 1..(it - 1)
      BY <1>1, <1>2
    <2> QED BY <1>1, <2>1 DEF ScriptInv, Filtering
  <1>5. Filtering'
    BY <1>1, <1>4 DEF ScriptInv, Filtering, Wanted, Distinct, HasAll, Unwanted
  <1> QED BY <1>1, <1>3, <1>5 DEF ScriptInv, Running, NoneYet

LEMMA SortKeeps == ScriptInv /\ SortScripts => ScriptInv'
  <1> SUFFICES ASSUME ScriptInv, SortScripts PROVE ScriptInv'
    OBVIOUS
  <1> DEFINE n == Len(scripts)
  <1>1. /\ pc = "filter" /\ pc' = "run" /\ it \notin DOMAIN scripts /\ scripts' \in Sorted(scripts)
        /\ listed' = listed /\ dir' = dir /\ it' = 1 /\ ran' = ran /\ ret' = ret
    BY DEF SortScripts
  <1>2. /\ scripts \in Seq(Names) /\ n \in Nat /\ it = n + 1 /\ ran = <<>>
        /\ Distinct(scripts) /\ HasAll(scripts, Wanted)
        /\ \A i \in 1..n : scripts[i] \in listed
        /\ \A i \in 1..(it - 1) : ~Unwanted(scripts[i])
    <2>1. scripts \in Seq(Names) /\ n \in Nat /\ DOMAIN scripts = 1..n /\ it \in 1..(n + 1)
      BY LenProperties DEF ScriptInv, ScriptTypeOK
    <2> QED BY <1>1, <2>1 DEF ScriptInv, Filtering, NoneYet
  <1>3. /\ scripts' \in Seq(Names) /\ Len(scripts') = n
        /\ \A i, j \in 1..Len(scripts') : i < j => scripts'[i] < scripts'[j]
        /\ \A i \in 1..Len(scripts') : \E k \in 1..n : scripts'[i] = scripts[k]
        /\ \A k \in 1..n : \E i \in 1..Len(scripts') : scripts'[i] = scripts[k]
    BY <1>1, <1>2, SortedDistinct
  <1> HIDE DEF n
  <1>4. \A k \in 1..n : scripts[k] \in Wanted
    BY <1>2 DEF Wanted, Unwanted
  <1>5. Wanted' = Wanted
    BY <1>1 DEF Wanted
  <1>6. \A i \in 1..Len(scripts') : scripts'[i] \in Wanted
    BY <1>3, <1>4
  <1>7. HasAll(scripts', Wanted)
    BY <1>2, <1>3 DEF HasAll, n
  <1>8. ScriptTypeOK' /\ ResultOK'
    BY <1>1, <1>2, <1>3 DEF ScriptInv, ScriptTypeOK, ResultOK
  <1>9. Running'
    <2>1. Len(ran') = 0 /\ it' - 1 = 0
      BY <1>1, <1>2
    <2> QED BY <1>1, <1>3, <1>5, <1>6, <1>7, <2>1 DEF Running, HasAll
  <1> QED BY <1>1, <1>8, <1>9 DEF ScriptInv, Filtering, NoneYet

LEMMA ExecuteOneKeeps == ScriptInv /\ ExecuteOne => ScriptInv'
  <1> SUFFICES ASSUME ScriptInv, ExecuteOne PROVE ScriptInv'
    OBVIOUS
  <1> DEFINE Result == [name : Names, ok : BOOLEAN]
  <1>1. PICK ok \in BOOLEAN : /\ ran' = Append(ran, [name |-> scripts[it], ok |-> ok])
                              /\ ret' = IF ok THEN ret ELSE 1
    BY DEF ExecuteOne
  <1> DEFINE new == [name |-> scripts[it], ok |-> ok]
             m == Len(ran)
  <1>2. /\ pc = "run" /\ pc' = pc /\ it \in DOMAIN scripts /\ scripts' = scripts
        /\ listed' = listed /\ dir' = dir /\ it' = it + 1
    BY DEF ExecuteOne
  <1>3. /\ scripts \in Seq(Names) /\ Len(scripts) \in Nat /\ it \in 1..Len(scripts)
        /\ ran \in Seq(Result) /\ m \in Nat /\ m = it - 1
        /\ \A i \in 1..m : ran[i].name = scripts[i]
        /\ ret = 0 <=> \A i \in 1..m : ran[i].ok
    <2>1. scripts \in Seq(Names) /\ ran \in Seq(Result)
      BY DEF ScriptInv, ScriptTypeOK
    <2>2. m = it - 1 /\ (\A i \in 1..m : ran[i].name = scripts[i]) /\ (ret = 0 <=> \A i \in 1..m : ran[i].ok)
      BY <1>2 DEF ScriptInv, Running, ResultOK
    <2> QED BY <1>2, <2>1, <2>2, LenProperties
  <1>4. new \in Result /\ new.name = scripts[it] /\ new.ok = ok
    <2>1. scripts[it] \in Names
      BY <1>3, ElementOfSeq
    <2> QED BY <2>1
  <1> HIDE DEF new, Result
  <1>5. /\ ran' \in Seq(Result) /\ Len(ran') = m + 1 /\ ran'[m + 1] = new
        /\ \A i \in 1..m : ran'[i] = ran[i]
    BY <1>1, <1>3, <1>4, AppendProperties DEF new
  <1> HIDE DEF m
  <1>6. ScriptTypeOK'
    BY <1>2, <1>3, <1>5 DEF ScriptInv, ScriptTypeOK, Result
  <1>7. \A i \in 1..(m + 1) : i = m + 1 \/ i \in 1..m
    BY <1>3
  <1>8. ResultOK'
    <2>1. (\A i \in 1..(m + 1) : ran'[i].ok) <=> (ok /\ \A i \in 1..m : ran[i].ok)
      BY <1>3, <1>4, <1>5, <1>7
    <2>2. ret' = 0 <=> ok /\ ret = 0
      BY <1>1
    <2> QED BY <1>3, <1>5, <2>1, <2>2 DEF ResultOK
  <1>9. \A i \in 1..(it' - 1) : ran'[i].name = scripts[i]
    <2>1. it' - 1 = m + 1 /\ it = m + 1
      BY <1>2, <1>3
    <2> QED BY <1>3, <1>4, <1>5, <1>7, <2>1
  <1>10. Running'
    <2>1. Len(ran') = it' - 1
      BY <1>2, <1>3, <1>5
    <2> QED BY <1>2, <1>9, <2>1 DEF ScriptInv, Running, HasAll, Wanted
  <1> QED BY <1>2, <1>6, <1>8, <1>10 DEF ScriptInv, Filtering, NoneYet

LEMMA ReturnKeeps == ScriptInv /\ Return => ScriptInv'
  <1> SUFFICES ASSUME ScriptInv, Return PROVE ScriptInv'
    OBVIOUS
  <1>1. it = Len(scripts) + 1
    <2>1. scripts \in Seq(Names) /\ it \in 1..(Len(scripts) + 1) /\ it \notin DOMAIN scripts
      BY DEF ScriptInv, ScriptTypeOK, Return
    <2> QED BY <2>1, LenProperties
  <1> QED BY <1>1 DEF Return, ScriptInv, ScriptTypeOK, Filtering, Running, NoneYet, ResultOK, Wanted, HasAll

LEMMA ScriptsNext == ScriptInv /\ [Next]_vars => ScriptInv'
  <1> SUFFICES ASSUME ScriptInv, [Next]_vars PROVE ScriptInv'
    OBVIOUS
  <1>0. dir \subseteq Names
    BY DEF ScriptInv, ScriptTypeOK
  <1>1. CASE Edit
    <2>1. dir' \subseteq Names
      BY <1>0, <1>1 DEF Edit
    <2> QED BY <1>1, <2>1, OtherSteps DEF Edit
  <1>2. CASE RemoveConf
    BY <1>0, <1>2, OtherSteps DEF RemoveConf
  <1>3. CASE IsFile \/ ReadConfig \/ CannotReadDir
    BY <1>0, <1>3, OtherSteps DEF IsFile, ReadConfig, CannotReadDir
  <1>4. CASE UNCHANGED vars
    BY <1>0, <1>4, OtherSteps DEF vars
  <1> QED BY <1>1, <1>2, <1>3, <1>4, ReadDirKeeps, EraseKeeps, KeepKeeps, SortKeeps,
             ExecuteOneKeeps, ReturnKeeps DEF Next, Execute

LEMMA InTurn == ScriptInv => RunInTurn
  <1> SUFFICES ASSUME ScriptInv PROVE RunInTurn
    OBVIOUS
  <1> DEFINE m == Len(ran)
  <1>1. m \in Nat /\ DOMAIN ran = 1..m /\ Len(scripts) \in Nat
    BY LenProperties DEF ScriptInv, ScriptTypeOK
  <1>2. CASE pc \notin {"run", "done"}
    <2>1. ran = <<>> /\ m = 0
      BY <1>2 DEF ScriptInv, NoneYet
    <2> QED BY <1>1, <1>2, <2>1 DEF ScriptInv, ResultOK, RunInTurn
  <1>3. CASE pc \in {"run", "done"}
    <2>1. /\ m = it - 1 /\ it \in 1..(Len(scripts) + 1)
          /\ \A i \in 1..m : ran[i].name = scripts[i]
          /\ \A i, j \in 1..Len(scripts) : i < j => scripts[i] < scripts[j]
          /\ \A i \in 1..Len(scripts) : scripts[i] \in Wanted
          /\ \A n \in Wanted : \E i \in 1..Len(scripts) : scripts[i] = n
          /\ pc = "done" => m = Len(scripts)
      BY <1>1, <1>3 DEF ScriptInv, ScriptTypeOK, Running, HasAll
    <2>2. \A i \in 1..Len(scripts) : scripts[i] \in Nat
      BY <2>1, ScriptAssumption DEF ScriptInv, ScriptTypeOK, Wanted
    <2> HIDE DEF m
    <2>3. m <= Len(scripts) /\ \A i \in 1..m : i \in 1..Len(scripts)
      BY <1>1, <2>1
    <2>4. ASSUME NEW i \in 1..m, NEW n \in Wanted
          PROVE  n < ran[i].name <=> \E j \in 1..(i - 1) : ran[j].name = n
      <3>1. PICK k \in 1..Len(scripts) : scripts[k] = n
        BY <2>1
      <3>2. i \in 1..Len(scripts) /\ ran[i].name = scripts[i]
        BY <2>1, <2>3
      <3>3. n < scripts[i] <=> k < i
        <4>1. CASE k < i BY <2>1, <2>2, <3>1, <3>2, <4>1
        <4>2. CASE i < k
          <5>1. scripts[i] < scripts[k]
            BY <2>1, <3>2, <4>2
          <5> QED BY <1>1, <2>2, <3>1, <3>2, <4>2, <5>1
        <4>3. CASE k = i BY <2>2, <3>1, <3>2, <4>3
        <4> QED BY <1>1, <3>2, <4>1, <4>2, <4>3
      <3>4. k < i => \E j \in 1..(i - 1) : ran[j].name = n
        <4>1. k < i => k \in 1..(i - 1) /\ k \in 1..m
          BY <1>1, <2>3
        <4> QED BY <2>1, <3>1, <4>1
      <3>5. ASSUME NEW j \in 1..(i - 1), ran[j].name = n PROVE n < scripts[i]
        <4>1. j \in 1..m /\ j < i
          BY <1>1
        <4>2. scripts[j] = n /\ j \in 1..Len(scripts)
          BY <2>1, <2>3, <3>5, <4>1
        <4> QED BY <2>1, <3>2, <4>1, <4>2
      <3> QED BY <3>2, <3>3, <3>4, <3>5
    <2>5. \A i \in 1..m : ran[i].name \in Wanted
      BY <2>1, <2>3
    <2>6. pc = "done" => \A n \in Wanted : \E i \in 1..m : ran[i].name = n
      BY <2>1
    <2>7. ret = 0 <=> \A i \in 1..m : ran[i].ok
      BY DEF ScriptInv, ResultOK, m
    <2> QED BY <1>1, <2>4, <2>5, <2>6, <2>7, Zenon DEF RunInTurn
  <1> QED BY <1>2, <1>3

\* Whatever the receiver and the log do beside it, the executor's steps are its
\* own: ScriptCommand implements ScriptExecutor.
LEMMA CommandRunsScripts == [CmdNext]_allVars => [Next]_vars
  BY DEF CmdNext, allVars, Next, RunScripts, LogResult, NextCommand, Wait, Wake, Receive,
         Lock, ParseCommand, Push, Unlock, Log

\* For any directory, any configuration and any changes of the directory while
\* scripts run: what has run is always the first of what should run, in the order
\* of the names, and all of it when execute_all returns (scriptexecutor.cpp:66-92,
\* 134-146).
THEOREM ScriptsRunInTurn == CmdSpec => []RunInTurn
  <1>1. CmdInit => Init
    BY DEF CmdInit
  <1> QED BY <1>1, ScriptsInit, ScriptsNext, InTurn, CommandRunsScripts, PTL DEF CmdSpec

-----------------------------------------------------------------------------
(***************************************************************************)
(* The executor is not stuck. That Sorted and SetToSeqs give something, so *)
(* that SortScripts and ReadDir can be taken, is a matter of finite sets:  *)
(* a shortest vector that cannot be sorted would have a first part that    *)
(* can, into which its last element is put where it belongs.               *)
(***************************************************************************)
Arranges(p, n, t) ==
    /\ p \in Bijection(1..n, 1..n)
    /\ \A i, j \in 1..n : i < j => t[p[i]] <= t[p[j]]

LEMMA Bijections ==
    ASSUME NEW S, NEW p
    PROVE  p \in Bijection(S, S) <=> /\ p \in [S -> S]
                                     /\ \A i, j \in S : p[i] = p[j] => i = j
                                     /\ \A k \in S : \E i \in S : p[i] = k
  BY DEF Bijection, Injection, IsInjective, Surjection

\* Any set of positions has a first one.
LEMMA Smallest ==
    ASSUME NEW S \in SUBSET Nat, S # {}
    PROVE  \E x \in S : \A y \in S : x <= y
  <1>1. PICK x \in S : \A y \in S : ~(<<y, x>> \in OpToRel(<, Nat))
    BY NatLessThanWellFounded, WFMin
  <1>2. ASSUME NEW y \in S PROVE x <= y
    <2>1. ~(y < x)
      BY <1>1 DEF OpToRel
    <2> QED BY <2>1
  <1> QED BY <1>2

\* One more element is put before the first that is greater.
LEMMA InsertInOrder ==
    ASSUME NEW n \in Nat, NEW t \in [1..(n + 1) -> Nat], NEW p, Arranges(p, n, t)
    PROVE  \E q : Arranges(q, n + 1, t)
  <1> DEFINE x == t[n + 1]
             places == {i \in 1..n : t[p[i]] > x} \cup {n + 1}
  <1>1. /\ p \in [1..n -> 1..n]
        /\ \A i, j \in 1..n : p[i] = p[j] => i = j
        /\ \A k \in 1..n : \E i \in 1..n : p[i] = k
        /\ \A i, j \in 1..n : i < j => t[p[i]] <= t[p[j]]
    BY Bijections DEF Arranges
  <1>0. x \in Nat /\ \A i \in 1..n : p[i] \in 1..(n + 1) /\ t[p[i]] \in Nat
    <2>1. \A i \in 1..(n + 1) : t[i] \in Nat
      OBVIOUS
    <2>2. n + 1 \in 1..(n + 1) /\ \A i \in 1..n : i \in 1..(n + 1)
      OBVIOUS
    <2>3. \A i \in 1..n : p[i] \in 1..n
      BY <1>1
    <2> QED BY <2>1, <2>2, <2>3
  <1>2. PICK k \in places : \A i \in places : k <= i
    <2>1. places \subseteq Nat /\ places # {}
      OBVIOUS
    <2> HIDE DEF places
    <2> QED BY <2>1, Smallest
  <1>3. /\ k \in 1..(n + 1) /\ (k = n + 1 \/ t[p[k]] > x)
        /\ \A i \in 1..n : i < k => t[p[i]] <= x
    <2>1. k \in 1..(n + 1) /\ (k = n + 1 \/ t[p[k]] > x)
      <3> HIDE DEF x
      <3> QED OBVIOUS
    <2>2. ASSUME NEW i \in 1..n, i < k PROVE t[p[i]] <= x
      <3>1. i \notin places
        BY <1>2, <2>1, <2>2
      <3>2. ~(t[p[i]] > x)
        BY <3>1
      <3> HIDE DEF x
      <3> QED BY <1>0, <3>2
    <2> QED BY <2>1, <2>2
  <1> HIDE DEF places
  <1> DEFINE q == [i \in 1..(n + 1) |-> IF i < k THEN p[i] ELSE IF i = k THEN n + 1 ELSE p[i - 1]]
  <1>4. /\ \A i \in 1..(n + 1) : i < k => i \in 1..n /\ q[i] = p[i]
        /\ \A i \in 1..(n + 1) : i > k => i - 1 \in 1..n /\ q[i] = p[i - 1]
        /\ q[k] = n + 1
    <2>1. ASSUME NEW i \in 1..(n + 1), i < k PROVE i \in 1..n /\ q[i] = p[i]
      BY <1>3, <2>1
    <2>2. ASSUME NEW i \in 1..(n + 1), i > k PROVE i - 1 \in 1..n /\ q[i] = p[i - 1]
      <3>1. i - 1 \in 1..n /\ ~(i < k) /\ i # k
        BY <1>3, <2>2
      <3> QED BY <3>1
    <2>3. q[k] = n + 1
      BY <1>3
    <2> QED BY <2>1, <2>2, <2>3
  <1>5. q \in [1..(n + 1) -> 1..(n + 1)]
    <2>1. ASSUME NEW i \in 1..(n + 1) PROVE q[i] \in 1..(n + 1)
      <3> HIDE DEF q
      <3>1. i < k \/ i = k \/ i > k
        BY <1>3
      <3>2. \A a \in 1..n : p[a] \in 1..(n + 1)
        BY <1>0
      <3>3. n + 1 \in 1..(n + 1)
        OBVIOUS
      <3> QED BY <1>4, <3>1, <3>2, <3>3
    <2>2. q = [i \in 1..(n + 1) |-> q[i]]
      OBVIOUS
    <2> HIDE DEF q
    <2> QED BY <2>1, <2>2
  <1> HIDE DEF q
  <1>a. \A i \in 1..(n + 1) : (i < k \/ i > k) => q[i] \in 1..n
    <2>1. \A i \in 1..n : p[i] \in 1..n
      BY <1>1
    <2> QED BY <1>4, <2>1
  <1>6. ASSUME NEW i \in 1..(n + 1), NEW j \in 1..(n + 1), q[i] = q[j] PROVE i = j
    <2>1. CASE i = k \/ j = k
      BY <1>3, <1>4, <1>6, <1>a, <2>1
    <2>2. CASE i # k /\ j # k
      <3> DEFINE a == IF i < k THEN i ELSE i - 1
                 b == IF j < k THEN j ELSE j - 1
      <3>1. a \in 1..n /\ b \in 1..n /\ q[i] = p[a] /\ q[j] = p[b]
        BY <1>3, <1>4, <2>2
      <3>2. a = b => i = j
        BY <1>3, <2>2
      <3> HIDE DEF a, b
      <3> QED BY <1>1, <1>6, <3>1, <3>2
    <2> QED BY <2>1, <2>2
  <1>7. ASSUME NEW m \in 1..(n + 1) PROVE \E i \in 1..(n + 1) : q[i] = m
    <2>1. CASE m = n + 1
      BY <1>3, <1>4, <2>1
    <2>2. CASE m \in 1..n
      <3>1. PICK a \in 1..n : p[a] = m
        BY <1>1, <2>2
      <3>2. CASE a < k
        <4>1. a \in 1..(n + 1)
          OBVIOUS
        <4> QED BY <1>4, <3>1, <3>2, <4>1
      <3>3. CASE ~(a < k)
        <4>1. a + 1 \in 1..(n + 1) /\ a + 1 > k /\ (a + 1) - 1 = a
          BY <1>3, <3>3
        <4> QED BY <1>4, <3>1, <4>1
      <3> QED BY <3>2, <3>3
    <2> QED BY <2>1, <2>2
  <1>8. ASSUME NEW i \in 1..(n + 1), NEW j \in 1..(n + 1), i < j PROVE t[q[i]] <= t[q[j]]
    <2>0. x = t[n + 1]
      OBVIOUS
    <2> HIDE DEF x
    <2>1. CASE j < k
      <3>1. i \in 1..n /\ j \in 1..n /\ q[i] = p[i] /\ q[j] = p[j]
        BY <1>3, <1>4, <1>8, <2>1
      <3> QED BY <1>1, <1>8, <3>1, Zenon
    <2>2. CASE j = k
      <3>1. i \in 1..n /\ q[i] = p[i] /\ q[j] = n + 1
        BY <1>3, <1>4, <1>8, <2>2
      <3> QED BY <1>3, <1>8, <2>0, <2>2, <3>1
    <2>3. CASE j > k /\ i < k
      <3> DEFINE b == j - 1
      <3>1. i \in 1..n /\ b \in 1..n /\ i < b /\ q[i] = p[i] /\ q[j] = p[b]
        BY <1>3, <1>4, <1>8, <2>3
      <3> HIDE DEF b
      <3>2. t[p[i]] <= t[p[b]]
        BY <1>1, <3>1
      <3> QED BY <3>1, <3>2
    <2>4. CASE j > k /\ i > k
      <3> DEFINE a == i - 1
                 b == j - 1
      <3>1. a \in 1..n /\ b \in 1..n /\ a < b /\ q[i] = p[a] /\ q[j] = p[b]
        BY <1>3, <1>4, <1>8, <2>4
      <3> HIDE DEF a, b
      <3>2. t[p[a]] <= t[p[b]]
        BY <1>1, <3>1
      <3> QED BY <3>1, <3>2
    <2>5. CASE j > k /\ i = k
      <3>1. j - 1 \in 1..n /\ q[j] = p[j - 1] /\ q[i] = n + 1 /\ k \in 1..n /\ (k = j - 1 \/ k < j - 1)
        BY <1>3, <1>4, <1>8, <2>5
      <3>2. t[p[k]] > x
        BY <1>3, <3>1
      <3>3. t[p[k]] \in Nat /\ t[p[j - 1]] \in Nat /\ x \in Nat
        BY <1>0, <3>1
      <3>4. t[p[k]] <= t[p[j - 1]]
        <4>1. CASE k = j - 1
          BY <3>3, <4>1
        <4>2. CASE k < j - 1
          BY <1>1, <3>1, <4>2
        <4> QED BY <3>1, <4>1, <4>2
      <3>5. t[q[i]] = x /\ t[q[j]] = t[p[j - 1]]
        BY <2>0, <3>1
      <3> QED BY <3>2, <3>3, <3>4, <3>5
    <2> QED BY <1>3, <1>8, <2>1, <2>2, <2>3, <2>4, <2>5
  <1> QED BY <1>5, <1>6, <1>7, <1>8, Bijections DEF Arranges

\* sort() has a result for every vector.
LEMMA CanBeSorted ==
    ASSUME NEW s \in Seq(Nat)
    PROVE  Sorted(s) # {}
  <1> DEFINE Never == {n \in Nat : \E t \in [1..n -> Nat] : ~ \E p : Arranges(p, n, t)}
  <1>1. Never = {}
    <2> SUFFICES ASSUME Never # {} PROVE FALSE
      OBVIOUS
    <2>0. Never \in SUBSET Nat
      OBVIOUS
    <2>1. PICK m \in Never : \A n \in Never : m <= n
      <3> HIDE DEF Never
      <3> QED BY <2>0, Smallest
    <2>2. m \in Nat /\ \A n \in Nat : n < m => n \notin Never
      <3>1. m \in Nat
        BY <2>0
      <3> HIDE DEF Never
      <3> QED BY <2>1, <3>1
    <2>3. PICK t \in [1..m -> Nat] : ~ \E p : Arranges(p, m, t)
      OBVIOUS
    <2>4. CASE m = 0
      <3>1. Arranges(<<>>, 0, t)
        <4>1. 1..0 = {}
          OBVIOUS
        <4>2. <<>> \in [{} -> {}]
          OBVIOUS
        <4> QED BY <4>1, <4>2, Bijections DEF Arranges
      <3> QED BY <2>3, <2>4, <3>1
    <2>5. CASE m # 0
      <3> DEFINE n == m - 1
                 u == [i \in 1..n |-> t[i]]
      <3>1. n \in Nat /\ m = n + 1 /\ n < m
        BY <2>2, <2>5
      <3>2. u \in [1..n -> Nat]
        BY <3>1
      <3>3. PICK p : Arranges(p, n, u)
        <4>1. n \notin Never
          BY <2>2, <3>1
        <4> HIDE DEF n, u
        <4> QED BY <3>1, <3>2, <4>1
      <3>4. Arranges(p, n, t)
        <4> HIDE DEF n
        <4>0. p \in Bijection(1..n, 1..n) /\ \A i, j \in 1..n : i < j => u[p[i]] <= u[p[j]]
          BY <3>3 DEF Arranges
        <4>1. p \in [1..n -> 1..n]
          BY <4>0, Bijections
        <4>2. \A i \in 1..n : u[p[i]] = t[p[i]]
          BY <4>1
        <4> HIDE DEF u
        <4> QED BY <4>0, <4>2 DEF Arranges
      <3> HIDE DEF n
      <3> QED BY <2>3, <3>1, <3>4, InsertInOrder
    <2> QED BY <2>4, <2>5
  <1> DEFINE n == Len(s)
  <1>2. n \in Nat /\ DOMAIN s = 1..n /\ s \in [1..n -> Nat]
    BY LenProperties
  <1>3. n \notin Never
    BY <1>1
  <1> HIDE DEF n
  <1>4. PICK p : Arranges(p, n, s)
    BY <1>2, <1>3
  <1> DEFINE r == [i \in 1..n |-> s[p[i]]]
  <1>5. r \in Sorted(s)
    <2>1. \A i, j \in 1..n : i < j => r[i] <= r[j]
      BY <1>4 DEF Arranges
    <2>2. p \in Bijection(1..n, 1..n)
      BY <1>4 DEF Arranges
    <2> HIDE DEF r
    <2>3. r \in {[i \in 1..n |-> s[q[i]]] : q \in Bijection(1..n, 1..n)}
      BY <2>2 DEF r
    <2> QED BY <1>2, <2>1, <2>3 DEF Sorted
  <1> QED BY <1>5

\* And readdir for every directory.
LEMMA CanBeListed ==
    ASSUME NEW S \in SUBSET Names
    PROVE  SetToSeqs(S) # {}
  <1> DEFINE n == Cardinality(S)
  <1>1. PICK f : f \in Bijection(1..n, S)
    BY ScriptAssumption, FS_Subset, FS_CardinalityType DEF ExistsBijection
  <1>2. f \in [1..n -> S] /\ \A i, j \in 1..n : f[i] = f[j] => i = j
    BY <1>1 DEF Bijection, Injection, IsInjective
  <1>3. f \in SetToSeqs(S)
    BY <1>2 DEF SetToSeqs
  <1> QED BY <1>3

\* How far the executor is: the statement, and in a loop the elements left.
Stage == [isfile |-> 5, open |-> 4, read |-> 3, filter |-> 2, run |-> 1,
          done |-> 0, aborted |-> 0, exited |-> 0, spin |-> 0]
Left == Len(scripts) + 1 - it

Advances ==
    \/ Stage[pc'] < Stage[pc]
    \/ pc' = pc /\ pc \in {"filter", "run"} /\ Left' < Left

\* What the guards of Execute's actions ask for.
CanAdvance ==
    \/ pc \in {"isfile", "open", "run"}
    \/ pc = "read" /\ SetToSeqs(dir) # {}
    \/ pc = "filter" /\ (it \in DOMAIN scripts \/ Sorted(scripts) # {})

NotStuck == Left \in Nat /\ (CanAdvance \/ Stage[pc] = 0)

\* How it has ended, unless with RunInTurn's last part.
EndsClean ==
    /\ pc \in {"aborted", "exited"} => ran = <<>>
    /\ pc = "spin" => vanished

StageInv ==
    /\ ScriptInv /\ pc \in DOMAIN Stage
    /\ pc = "spin" \/ (pc = "open" /\ ~present) => vanished

LEMMA StagesNext == StageInv /\ [Next]_vars => StageInv'
  <1> SUFFICES ASSUME StageInv, [Next]_vars
               PROVE  /\ pc' \in DOMAIN Stage
                      /\ pc' = "spin" \/ (pc' = "open" /\ ~present') => vanished'
    BY ScriptsNext DEF StageInv
  <1> USE DEF StageInv, Stage, config
  <1>1. CASE Edit \/ RemoveConf \/ UNCHANGED vars
    BY <1>1 DEF Edit, RemoveConf, vars
  <1>2. CASE Execute
    BY <1>2 DEF Execute, IsFile, ReadConfig, CannotReadDir, ReadDir, Erase, Keep, SortScripts,
                ExecuteOne, Return
  <1> QED BY <1>1, <1>2 DEF Next

LEMMA StepsAdvance == StageInv /\ Execute => Advances
  <1> SUFFICES ASSUME StageInv, Execute PROVE Advances
    OBVIOUS
  <1>1. scripts \in Seq(Names) /\ Len(scripts) \in Nat /\ it \in 1..(Len(scripts) + 1)
    BY LenProperties DEF StageInv, ScriptInv, ScriptTypeOK
  <1>2. CASE IsFile \/ ReadConfig \/ CannotReadDir \/ ReadDir \/ SortScripts \/ Return
    BY <1>2 DEF IsFile, ReadConfig, CannotReadDir, ReadDir, SortScripts, Return, Advances, Stage
  <1>3. CASE Erase
    <2>1. Len(scripts') = Len(scripts) - 1 /\ it' = it /\ pc = "filter" /\ pc' = pc
      BY <1>1, <1>3, RemoveAtElements DEF Erase
    <2> QED BY <1>1, <2>1 DEF Advances, Left
  <1>4. CASE Keep \/ ExecuteOne
    <2>1. scripts' = scripts /\ it' = it + 1 /\ pc \in {"filter", "run"} /\ pc' = pc
      BY <1>4 DEF Keep, ExecuteOne
    <2> QED BY <1>1, <2>1 DEF Advances, Left
  <1> QED BY <1>2, <1>3, <1>4 DEF Execute

LEMMA StagesNotStuck == StageInv => NotStuck /\ EndsClean
  <1> SUFFICES ASSUME StageInv PROVE NotStuck
    BY DEF StageInv, ScriptInv, NoneYet, EndsClean
  <1>1. scripts \in Seq(Names) /\ dir \in SUBSET Names /\ it \in 1..(Len(scripts) + 1)
    BY DEF StageInv, ScriptInv, ScriptTypeOK
  <1>2. Left \in Nat
    BY <1>1, LenProperties DEF Left
  <1>3. scripts \in Seq(Nat)
    <2>1. Len(scripts) \in Nat /\ scripts \in [1..Len(scripts) -> Names] /\ Names \subseteq Nat
      BY <1>1, LenProperties, ScriptAssumption
    <2>2. scripts \in [1..Len(scripts) -> Nat]
      BY <2>1
    <2> QED BY <2>1, <2>2
  <1>4. SetToSeqs(dir) # {} /\ Sorted(scripts) # {}
    BY <1>1, <1>3, CanBeListed, CanBeSorted
  <1>5. pc \in {"isfile", "open", "read", "filter", "run", "done", "aborted", "exited", "spin"}
    BY DEF StageInv, Stage
  <1>6. CASE pc \in {"isfile", "open", "read", "filter", "run"}
    BY <1>2, <1>4, <1>6 DEF NotStuck, CanAdvance
  <1>7. CASE pc \in {"done", "aborted", "exited", "spin"}
    BY <1>2, <1>7 DEF NotStuck, Stage
  <1> QED BY <1>5, <1>6, <1>7

\* Neither loop goes round in vain, the one that erases from the vector it walks
\* (scriptexecutor.cpp:69-86) nor the one that runs the scripts: every step of the
\* executor passes to a later statement or leaves fewer elements, no other thread's
\* step takes that back, and until the executor has ended it has a step to take.
\* If it ends before all scripts have run then before the first of them, or because
\* the configuration was removed under read_config's eyes (configparser.cpp:75).
THEOREM ScriptsAdvance ==
    CmdSpec => /\ [](NotStuck /\ EndsClean)
               /\ [][IF Execute THEN Advances ELSE UNCHANGED <<pc, scripts, it>>]_vars
  <1>1. CmdInit => StageInv
    BY ScriptsInit DEF CmdInit, Init, StageInv, Stage
  <1>2. StageInv /\ [Next]_vars =>
            [IF Execute THEN Advances ELSE UNCHANGED <<pc, scripts, it>>]_vars
    BY StepsAdvance DEF Next, Edit, RemoveConf
  <1> QED BY <1>1, <1>2, StagesNext, StagesNotStuck, CommandRunsScripts, PTL DEF CmdSpec
=============================================================================
