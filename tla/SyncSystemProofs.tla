-------------------------- MODULE SyncSystemProofs --------------------------
(***************************************************************************)
(* Proofs about SyncSystem and the NfsExport in it: for any finite number  *)
(* of runs of lasync, any hosts, command lines and directories, and any    *)
(* behaviour of the administrator.                                         *)
(***************************************************************************)
EXTENDS SyncSystem, TLAPS, SequenceTheorems, FiniteSetTheorems

-----------------------------------------------------------------------------
(* How often a directory stands in a sequence of lines.                    *)

Places(s, d) == {i \in DOMAIN s : s[i] = d}

LEMMA PlacesFinite ==
    ASSUME NEW D, NEW s \in Seq(D), NEW d
    PROVE  IsFiniteSet(Places(s, d)) /\ Cardinality(Places(s, d)) \in Nat
  <1>1. Len(s) \in Nat /\ DOMAIN s = 1..Len(s)
    BY LenProperties
  <1>2. IsFiniteSet(1..Len(s))
    BY <1>1, FS_Interval
  <1>3. IsFiniteSet(Places(s, d))
    BY <1>1, <1>2, FS_Subset DEF Places
  <1> QED BY <1>3, FS_CardinalityType

LEMMA PlacesAppend ==
    ASSUME NEW D, NEW s \in Seq(D), NEW e \in D, NEW d
    PROVE  Cardinality(Places(Append(s, e), d)) =
              Cardinality(Places(s, d)) + (IF e = d THEN 1 ELSE 0)
  <1>1. /\ Len(s) \in Nat /\ DOMAIN s = 1..Len(s)
        /\ DOMAIN Append(s, e) = 1..(Len(s) + 1)
        /\ \A i \in 1..Len(s) : Append(s, e)[i] = s[i]
        /\ Append(s, e)[Len(s) + 1] = e
    BY LenProperties, AppendProperties
  <1>2. CASE e = d
    <2>1. Places(Append(s, e), d) = Places(s, d) \cup {Len(s) + 1}
      BY <1>1, <1>2 DEF Places
    <2>2. Len(s) + 1 \notin Places(s, d)
      BY <1>1 DEF Places
    <2> QED BY <1>2, <2>1, <2>2, PlacesFinite, FS_AddElement
  <1>3. CASE e # d
    <2>1. Places(Append(s, e), d) = Places(s, d)
      BY <1>1, <1>3 DEF Places
    <2> QED BY <1>3, <2>1, PlacesFinite
  <1> QED BY <1>2, <1>3

\* Taking a line away: what is left, and that no directory gains a line.
LEMMA RemoveAtType ==
    ASSUME NEW D, NEW s \in Seq(D), NEW k \in DOMAIN s
    PROVE  /\ RemoveAt(s, k) \in Seq(D)
           /\ Len(RemoveAt(s, k)) = Len(s) - 1
           /\ \A i \in 1..(Len(s) - 1) :
                 RemoveAt(s, k)[i] = IF i < k THEN s[i] ELSE s[i + 1]
  <1>1. Len(s) \in Nat /\ k \in 1..Len(s)
    BY LenProperties
  <1>2. \A i \in 1..Len(s) : s[i] \in D
    BY ElementOfSeq
  <1> DEFINE a == SubSeq(s, 1, k - 1)
             b == SubSeq(s, k + 1, Len(s))
  <1>3. a \in Seq(D) /\ Len(a) = k - 1 /\ \A i \in 1..(k - 1) : a[i] = s[i]
    BY <1>1, <1>2, SubSeqProperties
  <1>4. b \in Seq(D) /\ Len(b) = Len(s) - k /\ \A i \in 1..(Len(s) - k) : b[i] = s[k + i]
    BY <1>1, <1>2, SubSeqProperties
  <1> HIDE DEF a, b
  <1>5. a \o b \in Seq(D) /\ Len(a \o b) = Len(s) - 1
    BY <1>1, <1>3, <1>4, ConcatProperties
  <1>6. ASSUME NEW i \in 1..(Len(s) - 1)
        PROVE  (a \o b)[i] = IF i < k THEN s[i] ELSE s[i + 1]
    <2>0. Len(a) + Len(b) = Len(s) - 1
      BY <1>1, <1>3, <1>4
    <2>1. i \in 1..(Len(a) + Len(b))
      BY <2>0
    <2>2. (a \o b)[i] = IF i <= Len(a) THEN a[i] ELSE b[i - Len(a)]
      BY <1>3, <1>4, <2>1, ConcatProperties
    <2>3. CASE i < k
      <3>1. i \in 1..(k - 1) /\ i <= Len(a)
        BY <1>1, <1>3, <2>3
      <3> QED BY <1>3, <2>2, <2>3, <3>1
    <2>4. CASE ~(i < k)
      <3>1. /\ i - (k - 1) \in 1..(Len(s) - k) /\ k + (i - (k - 1)) = i + 1
            /\ ~(i <= k - 1)
        BY <1>1, <2>4
      <3>2. b[i - (k - 1)] = s[i + 1]
        BY <1>4, <3>1
      <3> QED BY <1>3, <2>2, <2>4, <3>1, <3>2
    <2> QED BY <2>3, <2>4
  <1> QED BY <1>5, <1>6 DEF RemoveAt, a, b

LEMMA PlacesRemove ==
    ASSUME NEW D, NEW s \in Seq(D), NEW k \in DOMAIN s, NEW d
    PROVE  Cardinality(Places(RemoveAt(s, k), d)) <= Cardinality(Places(s, d))
  <1> DEFINE t == RemoveAt(s, k)
             f == [i \in Places(t, d) |-> IF i < k THEN i ELSE i + 1]
  <1>1. Len(s) \in Nat /\ DOMAIN s = 1..Len(s) /\ k \in 1..Len(s)
    BY LenProperties
  <1>2. /\ t \in Seq(D) /\ DOMAIN t = 1..(Len(s) - 1)
        /\ \A i \in 1..(Len(s) - 1) : t[i] = IF i < k THEN s[i] ELSE s[i + 1]
    BY <1>1, RemoveAtType, LenProperties
  <1> HIDE DEF t
  <1>3. \A i \in Places(t, d) : f[i] \in Places(s, d)
    BY <1>1, <1>2 DEF Places
  <1>4. \A i, j \in Places(t, d) : f[i] = f[j] => i = j
    BY <1>1, <1>2 DEF Places
  <1>5. f \in Injection(Places(t, d), Places(s, d))
    BY <1>3, <1>4 DEF Injection, IsInjective
  <1> QED BY <1>5, PlacesFinite, FS_Injection DEF t

-----------------------------------------------------------------------------
(***************************************************************************)
(* The exports. A step of the tool is a step of NfsExport or leaves it     *)
(* alone, so what NfsExport guarantees holds in the whole tool.            *)
(*   Debts     what a directory may still cost: its lines and the runs     *)
(*             about to write one are excused, and if nobody is about to   *)
(*             and it is not exported, there is room for one more;         *)
(*   Standing  as long as the administrator keeps out, a line once written *)
(*             stays, and what it exports stays exported.                  *)
(***************************************************************************)
ExportNext == Admin \/ \E r \in Runs : Export(r)

ExportTypeOK ==
    /\ etc \in Seq(Dirs) /\ table \subseteq Dirs
    /\ step \in [Runs -> {"off", "config", "reload", "done"}]
    /\ dirOf \in [Runs -> Dirs]
    /\ result \in [Runs -> BOOLEAN] /\ unwritten \in [Runs -> BOOLEAN]
    /\ admin \in Nat /\ excuses \in Nat

Pending(d) == {r \in Runs : dirOf[r] = d /\ step[r] = "config"}

Lines(d) == Cardinality(Places(etc, d))
Due(d) == Cardinality(Pending(d))

Debt(d) ==
    /\ Lines(d) + Due(d) <= 1 + excuses
    /\ d \notin table /\ ~Busy(d) => Lines(d) <= excuses

Debts == \A d \in Dirs : Debt(d)

Standing ==
    admin = 0 =>
        /\ table \subseteq Range(etc)
        /\ \A r \in Runs : ~unwritten[r] =>
              /\ step[r] = "reload" => dirOf[r] \in Range(etc)
              /\ step[r] = "done" /\ result[r] => dirOf[r] \in table

LEMMA ExportStep == [Next]_vars => [ExportNext]_exportVars
  <1> SUFFICES ASSUME [Next]_vars PROVE [ExportNext]_exportVars
    OBVIOUS
  <1>1. CASE EditFiles BY <1>1 DEF EditFiles
  <1>2. CASE AdminStep BY <1>2 DEF AdminStep, ExportNext
  <1>3. ASSUME NEW r \in Runs, Parse(r) \/ ExportShare(r) \/ Send(r)
        PROVE  [ExportNext]_exportVars
    BY <1>3 DEF Parse, ExportShare, Send, SendTo, ExportNext
  <1>4. ASSUME NEW h \in Hosts, Accept(h) \/ Run(h) \/ Die(h)
        PROVE  [ExportNext]_exportVars
    BY <1>4 DEF Accept, Run, Die
  <1>5. CASE UNCHANGED vars BY <1>5 DEF vars
  <1> QED BY <1>1, <1>2, <1>3, <1>4, <1>5 DEF Next

\* The tool exports directories as NfsExport says, whatever the hosts do.
THEOREM SystemImplementsExport == Spec => ExportSpec
  <1>1. Init => ExportInit
    BY DEF Init
  <1> QED BY <1>1, ExportStep, PTL DEF Spec, ExportSpec, ExportNext

LEMMA BooleanExcept ==
    ASSUME NEW S, NEW f \in [S -> BOOLEAN], NEW x \in S, NEW b \in BOOLEAN
    PROVE  [f EXCEPT ![x] = b] \in [S -> BOOLEAN]
  BY Zenon

LEMMA ExportTypeInit == ExportInit => ExportTypeOK
  <1> SUFFICES ASSUME ExportInit PROVE ExportTypeOK
    OBVIOUS
  <1>1. etc \in Seq(Dirs)
    <2>1. \A d \in Dirs : <<d>> \in Seq(Dirs)
      OBVIOUS
    <2>2. etc = <<>> \/ \E d \in Dirs : etc = <<d>>
      BY DEF ExportInit
    <2> QED BY <2>1, <2>2, EmptySeq
  <1>2. table \subseteq Dirs
    BY <1>1, RangeOfSeq DEF ExportInit
  <1>3. result \in [Runs -> BOOLEAN] /\ unwritten \in [Runs -> BOOLEAN]
    BY Zenon DEF ExportInit
  <1>4. step \in [Runs -> {"off", "config", "reload", "done"}] /\ dirOf \in [Runs -> Dirs]
        /\ admin \in Nat /\ excuses \in Nat
    BY DEF ExportInit
  <1> QED BY <1>1, <1>2, <1>3, <1>4 DEF ExportTypeOK

LEMMA ExportTypeNext == ExportTypeOK /\ [ExportNext]_exportVars => ExportTypeOK'
  <1> SUFFICES ASSUME ExportTypeOK, [ExportNext]_exportVars PROVE ExportTypeOK'
    OBVIOUS
  <1> USE DEF ExportTypeOK
  <1>1. CASE AdminUnexport BY <1>1 DEF AdminUnexport
  <1>2. CASE AdminEdit BY <1>2, RemoveAtType DEF AdminEdit
  <1>3. CASE AdminReload BY <1>3, RangeOfSeq DEF AdminReload
  <1>4. ASSUME NEW r \in Runs, Check(r) PROVE ExportTypeOK'
    <2>1. result' \in [Runs -> BOOLEAN]
      BY <1>4, BooleanExcept DEF Check
    <2>2. step' \in [Runs -> {"off", "config", "reload", "done"}] /\ excuses' \in Nat
      BY <1>4 DEF Check
    <2> QED BY <1>4, <2>1, <2>2 DEF Check
  <1>5. ASSUME NEW r \in Runs, Config(r) PROVE ExportTypeOK'
    <2>1. unwritten' \in [Runs -> BOOLEAN]
      BY <1>5, BooleanExcept DEF Config
    <2>2. etc' \in Seq(Dirs)
      BY <1>5, AppendProperties DEF Config
    <2>3. step' \in [Runs -> {"off", "config", "reload", "done"}]
      BY <1>5 DEF Config
    <2> QED BY <1>5, <2>1, <2>2, <2>3 DEF Config
  <1>6. ASSUME NEW r \in Runs, Reload(r) PROVE ExportTypeOK'
    <2>1. PICK ok \in BOOLEAN :
            /\ table' = IF ok THEN Range(etc) ELSE table
            /\ result' = [result EXCEPT ![r] = ok]
            /\ excuses' = excuses + (IF ok THEN 0 ELSE 1)
      BY <1>6 DEF Reload
    <2>2. result' \in [Runs -> BOOLEAN]
      BY <2>1, BooleanExcept
    <2>3. table' \subseteq Dirs /\ excuses' \in Nat
      BY <2>1, RangeOfSeq
    <2>4. step' \in [Runs -> {"off", "config", "reload", "done"}]
      BY <1>6 DEF Reload
    <2> QED BY <1>6, <2>2, <2>3, <2>4 DEF Reload
  <1>7. CASE UNCHANGED exportVars BY <1>7 DEF exportVars
  <1> QED BY <1>1, <1>2, <1>3, <1>4, <1>5, <1>6, <1>7 DEF ExportNext, Admin, Export

LEMMA PendingFinite ==
    ASSUME NEW d
    PROVE  IsFiniteSet(Pending(d)) /\ Cardinality(Pending(d)) \in Nat
  <1>1. IsFiniteSet(Pending(d))
    BY RunsAssumption, FS_Subset DEF Pending
  <1> QED BY <1>1, FS_CardinalityType

LEMMA DebtType ==
    ASSUME ExportTypeOK, NEW d
    PROVE  Lines(d) \in Nat /\ Due(d) \in Nat /\ excuses \in Nat
  BY PlacesFinite, PendingFinite DEF ExportTypeOK, Lines, Due

\* A directory that does not stand in /etc/exports has no lines there.
LEMMA NoPlace ==
    ASSUME ExportTypeOK, NEW d, d \notin Range(etc)
    PROVE  Lines(d) = 0
  <1>1. Places(etc, d) = {}
    BY DEF Places, Range
  <1> QED BY <1>1, FS_EmptySet DEF Lines

LEMMA NoneDue ==
    ASSUME NEW d, ~Busy(d)
    PROVE  Due(d) = 0
  <1>1. Pending(d) = {}
    BY DEF Busy, Pending
  <1> QED BY <1>1, FS_EmptySet DEF Due

LEMMA DebtsInit == ExportInit => Debts
  <1> SUFFICES ASSUME ExportInit, NEW d \in Dirs PROVE Debt(d)
    BY DEF Debts
  <1>1. Due(d) = 0 /\ excuses = 0
    BY NoneDue DEF ExportInit, Busy
  <1>2. Lines(d) \in {0, 1} /\ (d \notin table => Lines(d) = 0)
    <2>1. CASE etc = <<>>
      <3>1. Places(etc, d) = {}
        BY <2>1 DEF Places
      <3> QED BY <3>1, FS_EmptySet DEF Lines
    <2>2. ASSUME NEW e \in Dirs, etc = <<e>>
          PROVE  Lines(d) \in {0, 1} /\ (d \notin table => Lines(d) = 0)
      <3>1. DOMAIN etc = {1} /\ etc[1] = e
        BY <2>2
      <3>2. Places(etc, d) = IF d = e THEN {1} ELSE {}
        BY <3>1 DEF Places
      <3>3. e \in table
        BY <3>1 DEF ExportInit, Range
      <3> QED BY <3>2, <3>3, FS_EmptySet, FS_Singleton DEF Lines
    <2> QED BY <2>1, <2>2 DEF ExportInit
  <1> QED BY <1>1, <1>2 DEF Debt

LEMMA DebtsNext == ExportTypeOK /\ Debts /\ [ExportNext]_exportVars => Debts'
  <1> SUFFICES ASSUME ExportTypeOK, Debts, [ExportNext]_exportVars, NEW d \in Dirs
               PROVE  Debt(d)'
    BY DEF Debts
  <1>0. Lines(d) \in Nat /\ Due(d) \in Nat /\ excuses \in Nat /\ Debt(d)
    BY DebtType DEF Debts
  \* Reloading the server withdraws only what has no line.
  <1>a. ASSUME table' = Range(etc), Lines(d)' = Lines(d), Due(d)' = Due(d), excuses' = excuses
        PROVE  Debt(d)'
    BY <1>0, <1>a, NoPlace DEF Debt
  <1>1. CASE AdminUnexport
    <2>1. Lines(d)' = Lines(d) /\ Due(d)' = Due(d) /\ excuses' = excuses + 1
      BY <1>1 DEF AdminUnexport, Lines, Due, Pending
    <2> QED BY <1>0, <2>1 DEF Debt
  <1>2. CASE AdminEdit
    <2>1. PICK k \in DOMAIN etc : etc' = RemoveAt(etc, k)
      BY <1>2 DEF AdminEdit
    <2>2. Lines(d)' \in Nat /\ Lines(d)' <= Lines(d)
      BY <2>1, RemoveAtType, PlacesFinite, PlacesRemove DEF Lines, ExportTypeOK
    <2>3. /\ Due(d)' = Due(d) /\ (Busy(d)' <=> Busy(d))
          /\ excuses' = excuses /\ table' = table
      BY <1>2 DEF AdminEdit, Due, Pending, Busy
    <2> QED BY <1>0, <2>2, <2>3 DEF Debt
  <1>3. CASE AdminReload
    BY <1>3, <1>a DEF AdminReload, Lines, Due, Pending
  <1>4. ASSUME NEW r \in Runs, Check(r) PROVE Debt(d)'
    <2>0. Lines(d)' = Lines(d) /\ table' = table /\ dirOf' = dirOf
      BY <1>4 DEF Check, Lines
    <2>1. CASE step'[r] = "done" \/ dirOf[r] # d
      <3>1. Pending(d)' = Pending(d)
        <4>1. CASE step'[r] = "done"
          BY <1>4, <4>1 DEF Check, Pending, ExportTypeOK
        <4>2. CASE dirOf[r] # d
          BY <1>4, <4>2 DEF Check, Pending, ExportTypeOK
        <4> QED BY <2>1, <4>1, <4>2
      <3>2. Due(d)' = Due(d)
        BY <3>1 DEF Due
      <3>3. Busy(d)' <=> Busy(d)
        <4>1. CASE step'[r] = "done"
          BY <1>4, <4>1 DEF Check, Busy, ExportTypeOK
        <4>2. CASE dirOf[r] # d
          BY <1>4, <4>2 DEF Check, Busy, ExportTypeOK
        <4> QED BY <2>1, <4>1, <4>2
      <3>4. excuses' = excuses \/ excuses' = excuses + 1
        BY <1>0, <1>4 DEF Check
      <3> QED BY <1>0, <2>0, <3>2, <3>3, <3>4 DEF Debt
    <2>2. CASE step'[r] = "config" /\ dirOf[r] = d
      <3>1. /\ step' = [step EXCEPT ![r] = "config"] /\ step[r] = "off"
            /\ excuses' = excuses + (IF d \in table \/ Busy(d) THEN 1 ELSE 0)
        BY <1>4, <2>2 DEF Check, ExportTypeOK
      <3>2. Pending(d)' = Pending(d) \cup {r} /\ r \notin Pending(d)
        BY <2>0, <2>2, <3>1 DEF Pending, ExportTypeOK
      <3>3. Due(d)' = Due(d) + 1
        BY <3>2, PendingFinite, FS_AddElement DEF Due
      <3>4. Busy(d)'
        BY <2>0, <2>2, <3>1 DEF Busy, ExportTypeOK
      <3>5. CASE d \in table \/ Busy(d)
        BY <1>0, <2>0, <3>1, <3>3, <3>4, <3>5 DEF Debt
      <3>6. CASE d \notin table /\ ~Busy(d)
        BY <1>0, <2>0, <2>2, <3>1, <3>3, <3>4, <3>6, NoneDue DEF Debt
      <3> QED BY <3>5, <3>6
    <2>3. step'[r] = "done" \/ step'[r] = "config"
      BY <1>4 DEF Check, ExportTypeOK
    <2> QED BY <2>1, <2>2, <2>3
  <1>5. ASSUME NEW r \in Runs, Config(r) PROVE Debt(d)'
    <2>1. /\ step' = [step EXCEPT ![r] = "reload"] /\ step[r] = "config"
          /\ etc' = Append(etc, dirOf[r]) \/ etc' = etc
          /\ table' = table /\ dirOf' = dirOf /\ excuses' = excuses
      BY <1>5 DEF Config
    <2>2. Busy(d)' <=> Busy(d)
      BY <2>1 DEF Busy, ExportTypeOK
    <2>3. CASE dirOf[r] = d
      <3>1. Pending(d)' = Pending(d) \ {r} /\ r \in Pending(d)
        BY <2>1, <2>3 DEF Pending, ExportTypeOK
      <3>2. Due(d)' = Due(d) - 1
        BY <3>1, PendingFinite, FS_RemoveElement DEF Due
      <3>3. Lines(d)' = Lines(d) \/ Lines(d)' = Lines(d) + 1
        <4>1. Cardinality(Places(Append(etc, dirOf[r]), d)) = Lines(d) + 1
          BY <2>3, PlacesAppend DEF Lines, ExportTypeOK
        <4>2. CASE etc' = Append(etc, dirOf[r]) BY <4>1, <4>2 DEF Lines
        <4>3. CASE etc' = etc BY <4>3 DEF Lines
        <4> QED BY <2>1, <4>2, <4>3
      <3>4. Busy(d)
        BY <2>1, <2>3 DEF Busy
      <3> QED BY <1>0, <2>1, <2>2, <3>2, <3>3, <3>4 DEF Debt
    <2>4. CASE dirOf[r] # d
      <3>1. Due(d)' = Due(d)
        <4>1. Pending(d)' = Pending(d)
          BY <2>1, <2>4 DEF Pending, ExportTypeOK
        <4> QED BY <4>1 DEF Due
      <3>2. Cardinality(Places(Append(etc, dirOf[r]), d)) = Lines(d) + 0
        BY <2>4, PlacesAppend DEF Lines, ExportTypeOK
      <3>3. Lines(d)' = Lines(d)
        <4>1. CASE etc' = Append(etc, dirOf[r]) BY <1>0, <3>2, <4>1 DEF Lines
        <4>2. CASE etc' = etc BY <4>2 DEF Lines
        <4> QED BY <2>1, <4>1, <4>2
      <3> QED BY <1>0, <2>1, <2>2, <3>1, <3>3 DEF Debt
    <2> QED BY <2>3, <2>4
  <1>6. ASSUME NEW r \in Runs, Reload(r) PROVE Debt(d)'
    <2>1. /\ step' = [step EXCEPT ![r] = "done"] /\ step[r] = "reload"
          /\ etc' = etc /\ dirOf' = dirOf
          /\ \/ table' = Range(etc) /\ excuses' = excuses
             \/ table' = table /\ excuses' = excuses + 1
      BY <1>0, <1>6 DEF Reload
    <2>2. Lines(d)' = Lines(d) /\ Due(d)' = Due(d)
      <3>1. Pending(d)' = Pending(d)
        BY <2>1 DEF Pending, ExportTypeOK
      <3> QED BY <2>1, <3>1 DEF Lines, Due
    <2>3. CASE table' = Range(etc) /\ excuses' = excuses
      BY <1>a, <2>2, <2>3
    <2>4. CASE table' = table /\ excuses' = excuses + 1
      BY <1>0, <2>2, <2>4 DEF Debt
    <2> QED BY <2>1, <2>3, <2>4
  <1>7. CASE UNCHANGED exportVars
    <2>1. /\ Lines(d)' = Lines(d) /\ Due(d)' = Due(d) /\ excuses' = excuses
          /\ table' = table /\ (Busy(d)' <=> Busy(d))
      BY <1>7 DEF exportVars, Lines, Due, Pending, Busy
    <2> QED BY <1>0, <2>1 DEF Debt
  <1> QED BY <1>1, <1>2, <1>3, <1>4, <1>5, <1>6, <1>7 DEF ExportNext, Admin, Export

LEMMA RangeAppend ==
    ASSUME NEW D, NEW s \in Seq(D), NEW e \in D
    PROVE  Range(Append(s, e)) = Range(s) \cup {e}
  <1>1. /\ Len(s) \in Nat /\ DOMAIN s = 1..Len(s)
        /\ DOMAIN Append(s, e) = 1..(Len(s) + 1)
        /\ \A i \in 1..Len(s) : Append(s, e)[i] = s[i]
        /\ Append(s, e)[Len(s) + 1] = e
    BY LenProperties, AppendProperties
  <1> QED BY <1>1 DEF Range

LEMMA StandingNext == ExportTypeOK /\ Standing /\ [ExportNext]_exportVars => Standing'
  <1> SUFFICES ASSUME ExportTypeOK, Standing, [ExportNext]_exportVars PROVE Standing'
    OBVIOUS
  <1> USE DEF Standing
  <1>1. CASE Admin
    <2>1. admin' # 0
      BY <1>1 DEF Admin, AdminUnexport, AdminEdit, AdminReload, ExportTypeOK
    <2> QED BY <2>1
  <1>2. ASSUME NEW r \in Runs, Check(r) PROVE Standing'
    BY <1>2 DEF Check, ExportTypeOK
  <1>3. ASSUME NEW r \in Runs, Config(r) PROVE Standing'
    <2>1. \/ Range(etc') = Range(etc) \cup {dirOf[r]} /\ unwritten' = unwritten
          \/ etc' = etc /\ unwritten'[r]
      <3>1. CASE etc' = Append(etc, dirOf[r]) /\ UNCHANGED unwritten
        <4>1. Range(Append(etc, dirOf[r])) = Range(etc) \cup {dirOf[r]}
          BY RangeAppend DEF ExportTypeOK
        <4> QED BY <3>1, <4>1
      <3>2. CASE unwritten' = [unwritten EXCEPT ![r] = TRUE] /\ UNCHANGED etc
        BY <3>2 DEF ExportTypeOK
      <3> QED BY <1>3, <3>1, <3>2 DEF Config
    <2>2. Range(etc) \subseteq Range(etc')
      BY <2>1
    <2>3. \A q \in Runs : ~unwritten'[q] => ~unwritten[q]
      BY <1>3 DEF Config, ExportTypeOK
    <2>4. ~unwritten'[r] => dirOf[r] \in Range(etc')
      BY <2>1
    <2> QED BY <1>3, <2>2, <2>3, <2>4 DEF Config, ExportTypeOK
  <1>4. ASSUME NEW r \in Runs, Reload(r) PROVE Standing'
    BY <1>4 DEF Reload, ExportTypeOK
  <1>5. CASE UNCHANGED exportVars BY <1>5 DEF exportVars
  <1> QED BY <1>1, <1>2, <1>3, <1>4, <1>5 DEF ExportNext, Export

EInv == ExportTypeOK /\ Debts /\ Standing

LEMMA ExportInvariant == ExportSpec => []EInv
  <1>1. ExportInit => EInv
    <2> SUFFICES ASSUME ExportInit PROVE EInv
      OBVIOUS
    <2>1. Standing
      BY DEF ExportInit, Standing
    <2> QED BY <2>1, ExportTypeInit, DebtsInit DEF EInv
  <1>2. EInv /\ [ExportNext]_exportVars => EInv'
    BY ExportTypeNext, DebtsNext, StandingNext DEF EInv
  <1> QED BY <1>1, <1>2, PTL DEF ExportSpec, ExportNext

\* A directory has a second line in /etc/exports only for one of the reasons
\* counted in excuses, however many runs overlap and whatever the administrator
\* does.
THEOREM LinesStayExcused == Spec => []LinesAreExcused
  <1>1. EInv => LinesAreExcused
    <2> SUFFICES ASSUME EInv, NEW d \in Dirs PROVE LinesOf(d) <= 1 + excuses
      BY DEF LinesAreExcused
    <2>1. Lines(d) + Due(d) <= 1 + excuses /\ LinesOf(d) = Lines(d)
      BY DEF EInv, Debts, Debt, Lines, LinesOf, Places
    <2> QED BY <2>1, DebtType DEF EInv
  <1> QED BY <1>1, SystemImplementsExport, ExportInvariant, PTL

-----------------------------------------------------------------------------
(***************************************************************************)
(* The batches of commands that hosts queue.                               *)
(***************************************************************************)
AllKinds == Kinds \cup {"script"}
Cmd == [req : Runs, kind : AllKinds]
Copy == [dir : Dirs \cup {"none"}, ver : Nat]
Contents == [FileNames -> Copy]
Finished == [req : Runs, kind : AllKinds, copied : SUBSET FileNames, exported : BOOLEAN,
             used : Contents]

\* A directory into which a part of another is copied.
Merged(old, part, new) == [x \in FileNames |-> IF x \in part THEN new ELSE old[x]]
Present(c) == [dir |-> dirOf[c.req], ver |-> version]

LEMMA MergedType ==
    ASSUME NEW old \in Contents, NEW part \in SUBSET FileNames, NEW new \in Copy
    PROVE  Merged(old, part, new) \in Contents /\ Merged(old, {}, new) = old
  BY DEF Merged, Contents

\* What belongs to a request, the synchronisation of files aside.
Others(r, sig) == {c \in Cmd : c.req = r /\ c.kind \in (sig \cup {"script"}) \ {"file"}}

\* A list of commands of one request that synchronises files first, if at all.
FilesFirst(s, r, sig) ==
    /\ s \in Seq(Cmd)
    /\ \A i \in 1..Len(s) :
          /\ s[i].req = r
          /\ s[i].kind \in sig \cup {"script"}
          /\ i > 1 => s[i].kind # "file"

LEMMA FilesFirstConcat ==
    ASSUME NEW r \in Runs, NEW sig \in SUBSET Kinds, NEW s, FilesFirst(s, r, sig),
           NEW t \in Seq(Others(r, sig))
    PROVE  FilesFirst(s \o t, r, sig) /\ Len(s \o t) = Len(s) + Len(t)
  <1>1. Others(r, sig) \subseteq Cmd
    BY DEF Others
  <1>2. s \in Seq(Cmd) /\ t \in Seq(Cmd)
    BY <1>1, SeqMonotonic DEF FilesFirst
  <1>3. Len(s) \in Nat /\ Len(t) \in Nat
    BY <1>2, LenProperties
  <1>4. /\ s \o t \in Seq(Cmd) /\ Len(s \o t) = Len(s) + Len(t)
        /\ \A i \in 1..Len(s) + Len(t) :
              (s \o t)[i] = IF i <= Len(s) THEN s[i] ELSE t[i - Len(s)]
    BY <1>2, ConcatProperties
  <1>5. ASSUME NEW i \in 1..Len(s \o t)
        PROVE  /\ (s \o t)[i].req = r
               /\ (s \o t)[i].kind \in sig \cup {"script"}
               /\ i > 1 => (s \o t)[i].kind # "file"
    <2>1. CASE i <= Len(s)
      <3>1. (s \o t)[i] = s[i] /\ i \in 1..Len(s)
        BY <1>3, <1>4, <2>1
      <3> QED BY <3>1 DEF FilesFirst
    <2>2. CASE i > Len(s)
      <3>1. i - Len(s) \in 1..Len(t)
        BY <1>3, <1>4, <2>2
      <3>2. (s \o t)[i] = t[i - Len(s)]
        BY <1>3, <1>4, <2>2
      <3>3. (s \o t)[i] \in Others(r, sig)
        BY <3>1, <3>2, ElementOfSeq
      <3> QED BY <3>3 DEF Others
    <2> QED BY <1>3, <1>4, <2>1, <2>2
  <1> QED BY <1>4, <1>5 DEF FilesFirst

LEMMA BatchProperties ==
    ASSUME NEW r \in Runs, NEW sig \in SUBSET Kinds
    PROVE  FilesFirst(Batch(r, sig), r, sig) /\ Len(Batch(r, sig)) \in Nat \ {0}
  <1> DEFINE If(k) == IF k \in sig THEN <<[req |-> r, kind |-> k]>> ELSE <<>>
             last == <<[req |-> r, kind |-> "script"]>>
  <1>1. ASSUME NEW k \in {"pkg", "update"} PROVE If(k) \in Seq(Others(r, sig))
    <2>1. CASE k \in sig
      <3>1. [req |-> r, kind |-> k] \in Others(r, sig)
        BY <2>1 DEF Others, Cmd, AllKinds, Kinds
      <3> QED BY <2>1, <3>1
    <2>2. CASE k \notin sig
      BY <2>2, EmptySeq
    <2> QED BY <2>1, <2>2
  <1>2. last \in Seq(Others(r, sig)) /\ Len(last) = 1
    <2>1. [req |-> r, kind |-> "script"] \in Others(r, sig)
      BY DEF Others, Cmd, AllKinds
    <2> QED BY <2>1
  <1>3. FilesFirst(If("file"), r, sig)
    <2>1. [req |-> r, kind |-> "file"] \in Cmd
      BY DEF Cmd, AllKinds, Kinds
    <2>2. CASE "file" \in sig
      BY <2>1, <2>2 DEF FilesFirst
    <2>3. CASE "file" \notin sig
      BY <2>3, EmptySeq DEF FilesFirst
    <2> QED BY <2>2, <2>3
  <1>4. If("pkg") \in Seq(Others(r, sig)) /\ If("update") \in Seq(Others(r, sig))
    BY <1>1
  <1>5. Batch(r, sig) = ((If("file") \o If("pkg")) \o If("update")) \o last
    BY DEF Batch
  <1> HIDE DEF If, last
  <1>6. FilesFirst(If("file") \o If("pkg"), r, sig)
    BY <1>3, <1>4, FilesFirstConcat
  <1>7. FilesFirst((If("file") \o If("pkg")) \o If("update"), r, sig)
    BY <1>4, <1>6, FilesFirstConcat
  <1> DEFINE most == (If("file") \o If("pkg")) \o If("update")
  <1>8. FilesFirst(most, r, sig) /\ Len(most) \in Nat /\ Batch(r, sig) = most \o last
    BY <1>5, <1>7, LenProperties DEF FilesFirst
  <1> HIDE DEF most
  <1>9. FilesFirst(most \o last, r, sig) /\ Len(most \o last) = Len(most) + 1
    BY <1>2, <1>8, FilesFirstConcat
  <1> QED BY <1>8, <1>9

-----------------------------------------------------------------------------
(***************************************************************************)
(* A host's trace: what it has run, then what it has queued. Running a     *)
(* command leaves the trace as it is, accepting a request makes it longer. *)
(***************************************************************************)
TraceOf(d, p) ==
    [i \in 1..(Len(d) + Len(p)) |->
        IF i <= Len(d) THEN [req |-> d[i].req, kind |-> d[i].kind] ELSE p[i - Len(d)]]

LEMMA TraceType ==
    ASSUME NEW d \in Seq(Finished), NEW p \in Seq(Cmd)
    PROVE  /\ Len(d) \in Nat /\ Len(p) \in Nat
           /\ \A i \in 1..(Len(d) + Len(p)) : TraceOf(d, p)[i] \in Cmd
           /\ \A i \in 1..Len(d) : d[i] \in Finished /\ TraceOf(d, p)[i].req = d[i].req
                                   /\ TraceOf(d, p)[i].kind = d[i].kind
           /\ \A i \in 1..Len(p) : p[i] \in Cmd /\ TraceOf(d, p)[Len(d) + i] = p[i]
  <1>1. Len(d) \in Nat /\ Len(p) \in Nat
    BY LenProperties
  <1>2. \A i \in 1..Len(d) : d[i] \in Finished
    BY ElementOfSeq
  <1>3. \A i \in 1..Len(p) : p[i] \in Cmd
    BY ElementOfSeq
  <1>4. ASSUME NEW i \in 1..Len(d)
        PROVE  TraceOf(d, p)[i] = [req |-> d[i].req, kind |-> d[i].kind]
    BY <1>1 DEF TraceOf
  <1>a. ASSUME NEW i \in 1..Len(d)
        PROVE  d[i].req \in Runs /\ d[i].kind \in AllKinds
    <2>1. d[i] \in Finished
      BY <1>2
    <2> QED BY <2>1 DEF Finished
  <1>b. ASSUME NEW i \in 1..Len(d)
        PROVE  TraceOf(d, p)[i].req = d[i].req /\ TraceOf(d, p)[i].kind = d[i].kind
    <2>1. TraceOf(d, p)[i] = [req |-> d[i].req, kind |-> d[i].kind]
      BY <1>4
    <2> QED BY <2>1
  <1>5. ASSUME NEW i \in 1..Len(p)
        PROVE  TraceOf(d, p)[Len(d) + i] = p[i]
    BY <1>1 DEF TraceOf
  <1>6. ASSUME NEW i \in 1..(Len(d) + Len(p)) PROVE TraceOf(d, p)[i] \in Cmd
    <2>1. CASE i <= Len(d)
      <3>1. i \in 1..Len(d)
        BY <1>1, <2>1
      <3>2. d[i].req \in Runs /\ d[i].kind \in AllKinds
        BY <1>a, <3>1
      <3>3. TraceOf(d, p)[i] = [req |-> d[i].req, kind |-> d[i].kind]
        BY <1>4, <3>1
      <3> QED BY <3>2, <3>3 DEF Cmd
    <2>2. CASE i > Len(d)
      <3>1. i - Len(d) \in 1..Len(p) /\ Len(d) + (i - Len(d)) = i
        BY <1>1, <2>2
      <3>2. TraceOf(d, p)[Len(d) + (i - Len(d))] = p[i - Len(d)]
        BY <1>5, <3>1
      <3> QED BY <1>3, <3>1, <3>2
    <2> QED BY <1>1, <2>1, <2>2
  <1> QED BY <1>1, <1>2, <1>3, <1>b, <1>5, <1>6

LEMMA TraceRun ==
    ASSUME NEW d \in Seq(Finished), NEW p \in Seq(Cmd), p # <<>>, NEW e \in Finished,
           e.req = Head(p).req, e.kind = Head(p).kind
    PROVE  TraceOf(Append(d, e), Tail(p)) = TraceOf(d, p)
  <1> DEFINE d1 == Append(d, e)
             p1 == Tail(p)
  <1>1. /\ Len(d) \in Nat /\ Len(p) \in Nat \ {0} /\ p[1] = Head(p) /\ p[1] \in Cmd
        /\ p1 \in Seq(Cmd) /\ Len(p1) = Len(p) - 1
        /\ \A i \in 1..(Len(p) - 1) : p1[i] = p[i + 1]
    <2>1. Len(d) \in Nat /\ Len(p) \in Nat \ {0}
      BY LenProperties, EmptySeq
    <2>2. p1 \in Seq(Cmd) /\ Len(p1) = Len(p) - 1 /\ \A i \in 1..(Len(p) - 1) : p1[i] = p[i + 1]
      BY HeadTailProperties
    <2>3. p[1] = Head(p) /\ p[1] \in Cmd
      BY <2>1, ElementOfSeq
    <2> QED BY <2>1, <2>2, <2>3
  <1>2. /\ Len(d1) = Len(d) + 1 /\ d1[Len(d) + 1] = e
        /\ \A i \in 1..Len(d) : d1[i] = d[i]
    BY AppendProperties
  <1> HIDE DEF d1, p1
  <1>3. Len(d1) + Len(p1) = Len(d) + Len(p)
    BY <1>1, <1>2
  <1>4. ASSUME NEW i \in 1..(Len(d) + Len(p))
        PROVE  TraceOf(d1, p1)[i] = TraceOf(d, p)[i]
    <2>1. CASE i <= Len(d)
      <3>1. d1[i] = d[i] /\ i <= Len(d1)
        BY <1>1, <1>2, <2>1
      <3> QED BY <1>3, <2>1, <3>1 DEF TraceOf
    <2>4. i <= Len(d) \/ i = Len(d) + 1 \/ i > Len(d) + 1
      <3>1. Len(d) \in Nat /\ Len(p) \in Nat
        BY <1>1
      <3> QED BY <3>1
    <2>2. CASE i = Len(d) + 1
      <3>1. TraceOf(d1, p1)[i] = [req |-> e.req, kind |-> e.kind]
        BY <1>1, <1>2, <1>3, <2>2 DEF TraceOf
      <3>2. TraceOf(d, p)[i] = p[1]
        BY <1>1, <2>2 DEF TraceOf
      <3>3. p[1] = [req |-> p[1].req, kind |-> p[1].kind]
        BY <1>1 DEF Cmd
      <3> QED BY <1>1, <3>1, <3>2, <3>3
    <2>3. CASE i > Len(d) + 1
      <3>1. /\ i - Len(d1) \in 1..(Len(p) - 1) /\ (i - Len(d1)) + 1 = i - Len(d)
            /\ ~(i <= Len(d1)) /\ ~(i <= Len(d))
        BY <1>1, <1>2, <2>3
      <3>2. TraceOf(d1, p1)[i] = p1[i - Len(d1)] /\ TraceOf(d, p)[i] = p[i - Len(d)]
        BY <1>3, <3>1 DEF TraceOf
      <3>3. p1[i - Len(d1)] = p[(i - Len(d1)) + 1]
        BY <1>1, <3>1
      <3> QED BY <3>1, <3>2, <3>3
    <2> QED BY ONLY <2>1, <2>2, <2>3, <2>4
  <1> QED BY <1>3, <1>4 DEF TraceOf, d1, p1

LEMMA TraceAccept ==
    ASSUME NEW d \in Seq(Finished), NEW p \in Seq(Cmd), NEW b \in Seq(Cmd)
    PROVE  /\ Len(p \o b) = Len(p) + Len(b) /\ Len(b) \in Nat
           /\ \A i \in 1..(Len(d) + Len(p)) : TraceOf(d, p \o b)[i] = TraceOf(d, p)[i]
           /\ \A i \in 1..Len(b) : TraceOf(d, p \o b)[Len(d) + Len(p) + i] = b[i]
  <1>1. /\ Len(d) \in Nat /\ Len(p) \in Nat /\ Len(b) \in Nat
        /\ p \o b \in Seq(Cmd) /\ Len(p \o b) = Len(p) + Len(b)
        /\ \A i \in 1..Len(p) + Len(b) : (p \o b)[i] = IF i <= Len(p) THEN p[i] ELSE b[i - Len(p)]
    BY LenProperties, ConcatProperties
  <1>2. ASSUME NEW i \in 1..(Len(d) + Len(p))
        PROVE  TraceOf(d, p \o b)[i] = TraceOf(d, p)[i]
    <2>1. CASE i <= Len(d)
      BY <1>1, <2>1 DEF TraceOf
    <2>2. CASE i > Len(d)
      <3>1. i - Len(d) \in 1..Len(p) + Len(b) /\ i - Len(d) <= Len(p)
        BY <1>1, <2>2
      <3>2. (p \o b)[i - Len(d)] = p[i - Len(d)]
        BY <1>1, <3>1
      <3> QED BY <1>1, <2>2, <3>2 DEF TraceOf
    <2> QED BY <1>1, <2>1, <2>2
  <1>3. ASSUME NEW i \in 1..Len(b)
        PROVE  TraceOf(d, p \o b)[Len(d) + Len(p) + i] = b[i]
    <2>1. /\ (Len(d) + Len(p) + i) - Len(d) = Len(p) + i
          /\ Len(p) + i \in 1..Len(p) + Len(b) /\ ~(Len(p) + i <= Len(p)) /\ (Len(p) + i) - Len(p) = i
      BY <1>1
    <2>2. (p \o b)[Len(p) + i] = b[i]
      BY <1>1, <2>1
    <2> QED BY <1>1, <2>1, <2>2 DEF TraceOf
  <1> QED BY <1>1, <1>2, <1>3

-----------------------------------------------------------------------------
(***************************************************************************)
(* The whole tool. Its inductive invariant says                            *)
(*   SentInv   a datagram leaves after the export is over;                 *)
(*   InboxInv  the datagrams in a socket are of different runs that were   *)
(*             sent, and no command in the trace came from them;           *)
(*   AskedInv  all that is in the trace was asked for;                     *)
(*   InOrder   the commands of a request stand next to each other in the   *)
(*             trace, the synchronisation of its files first;              *)
(*   Copies    after a copy the commands of the same request find it, and  *)
(*             if one of them ran last, so will the next;                  *)
(*   Excused   a directory was not exported for a reason.                  *)
(***************************************************************************)
ToolTypeOK ==
    /\ ExportTypeOK
    /\ DOMAIN request = Runs /\ \A r \in Runs : request[r].sig \subseteq Kinds
    /\ sent \in [Runs -> BOOLEAN] /\ atSend \in [Runs -> Nat] /\ version \in Nat
    /\ has \in [Dirs -> SUBSET FileNames]
    /\ inbox \in [Hosts -> Seq(Runs)]
    /\ pending \in [Hosts -> Seq(Cmd)]
    /\ done \in [Hosts -> Seq(Finished)]
    /\ files \in [Hosts -> Contents]
    /\ up \in [Hosts -> BOOLEAN]

SentInv ==
    \A r \in Runs : sent[r] => step[r] = "done" /\ request[r].valid /\ atSend[r] <= version

Trace(h) == TraceOf(done[h], pending[h])
Steps(h) == 1..(Len(done[h]) + Len(pending[h]))

Asked(h, c) ==
    /\ sent[c.req] /\ request[c.req].valid
    /\ request[c.req].dest = {} \/ h \in request[c.req].dest
    /\ c.kind \in request[c.req].sig \cup {"script"}

AskedInv(h) == \A k \in Steps(h) : Asked(h, Trace(h)[k])

InboxInv(h) ==
    \A i \in 1..Len(inbox[h]) :
        /\ sent[inbox[h][i]]
        /\ \A j \in 1..Len(inbox[h]) : inbox[h][j] = inbox[h][i] => j = i
        /\ \A k \in Steps(h) : Trace(h)[k].req # inbox[h][i]

InOrder(h) ==
    \A i, j \in Steps(h) : i < j /\ Trace(h)[i].req = Trace(h)[j].req =>
        /\ Trace(h)[j].kind # "file"
        /\ \A k \in i..j : Trace(h)[k].req = Trace(h)[i].req

Fresh(c, r) == c.dir = dirOf[r] /\ c.ver >= atSend[r]

Copies(h) ==
    \A i \in 1..Len(done[h]) : \A x \in done[h][i].copied :
        /\ done[h][i].kind = "file"
        /\ \A j \in 1..Len(done[h]) : i < j /\ done[h][j].req = done[h][i].req =>
              Fresh(done[h][j].used[x], done[h][i].req)
        /\ done[h][Len(done[h])].req = done[h][i].req => Fresh(files[h][x], done[h][i].req)

Excused(h) ==
    \A i \in 1..Len(done[h]) : LET c == done[h][i] IN
        ~c.exported => ~result[c.req] \/ unwritten[c.req] \/ admin > 0

HostInv(h) == AskedInv(h) /\ InboxInv(h) /\ InOrder(h) /\ Copies(h) /\ Excused(h)

\* What a step of the tool may be for one host: nothing but a datagram comes,
\* a request is accepted, or a command is run.
Listens(h) ==
    /\ done'[h] = done[h] /\ pending'[h] = pending[h] /\ files'[h] = files[h]
    /\ \/ inbox'[h] = inbox[h]
       \/ \E r \in Runs : ~sent[r] /\ sent'[r] /\ inbox'[h] = Append(inbox[h], r)

Takes(h) ==
    /\ done'[h] = done[h] /\ files'[h] = files[h] /\ UNCHANGED <<exportVars, front>>
    /\ inbox[h] # <<>> /\ inbox'[h] = Tail(inbox[h])
    /\ LET r == Head(inbox[h]) IN
       \/ pending'[h] = pending[h]
       \/ ForMe(h, request[r].dest) /\ pending'[h] = pending[h] \o Batch(r, request[r].sig)

Works(h) ==
    /\ inbox'[h] = inbox[h] /\ UNCHANGED <<exportVars, front>>
    /\ pending[h] # <<>> /\ pending'[h] = Tail(pending[h])
    /\ LET cmd == Head(pending[h]) IN
       \E part \in SUBSET FileNames :
          /\ done'[h] = Append(done[h],
                [req |-> cmd.req, kind |-> cmd.kind, copied |-> part,
                 exported |-> Exported(cmd), used |-> files[h]])
          /\ part # {} => cmd.kind = "file"
          /\ files'[h] = Merged(files[h], part, Present(cmd))

LEMMA HostStep ==
    ASSUME ToolTypeOK, [Next]_vars, NEW h \in Hosts
    PROVE  Listens(h) \/ Takes(h) \/ Works(h)
  <1> USE DEF ToolTypeOK
  <1>1. CASE EditFiles BY <1>1 DEF EditFiles, hosts, Listens
  <1>2. CASE AdminStep BY <1>2 DEF AdminStep, hosts, Listens
  <1>3. ASSUME NEW r \in Runs, Parse(r) \/ ExportShare(r) PROVE Listens(h)
    BY <1>3 DEF Parse, ExportShare, hosts, Listens
  <1>4. ASSUME NEW r \in Runs, Send(r) PROVE Listens(h)
    <2>1. PICK reached \in SUBSET Reachable : SendTo(r, reached)
      BY <1>4 DEF Send
    <2>2. ~sent[r] /\ sent'[r]
      BY <1>4, <2>1 DEF Send, SendTo
    <2>3. inbox'[h] = inbox[h] \/ inbox'[h] = Append(inbox[h], r)
      BY <2>1 DEF SendTo
    <2> QED BY <2>1, <2>2, <2>3 DEF SendTo, Listens
  <1>5. ASSUME NEW g \in Hosts, Accept(g) PROVE Listens(h) \/ Takes(h)
    <2>1. CASE g # h
      BY <1>5, <2>1 DEF Accept, Listens
    <2>2. CASE g = h
      BY <1>5, <2>2 DEF Accept, Takes
    <2> QED BY <2>1, <2>2
  <1>6. ASSUME NEW g \in Hosts, Run(g) PROVE Listens(h) \/ Works(h)
    <2>1. CASE g # h
      BY <1>6, <2>1 DEF Run, Finish, Listens
    <2>2. CASE g = h
      <3>1. /\ inbox'[h] = inbox[h] /\ UNCHANGED <<exportVars, front>>
            /\ pending[h] # <<>> /\ pending'[h] = Tail(pending[h])
        BY <1>6, <2>2 DEF Run
      <3> DEFINE cmd == Head(pending[h])
      <3>2. PICK part \in SUBSET FileNames :
              /\ part # {} => cmd.kind = "file"
              /\ Finish(h, cmd, part)
              /\ files' = [files EXCEPT ![h] = Merged(files[h], part, Present(cmd))]
        <4> DEFINE within == IF cmd.kind = "file" /\ Exported(cmd) THEN has[dirOf[cmd.req]] ELSE {}
        <4>1. /\ files' = [files EXCEPT ![h] = files'[h]]
              /\ \E part \in SUBSET within :
                    Finish(h, cmd, part) /\ files'[h] = Merged(files[h], part, Present(cmd))
          BY <1>6, <2>2 DEF Run, Merged, Present
        <4>2. cmd.req \in Runs
          <5>1. cmd \in Cmd
            BY <3>1, HeadTailProperties
          <5> QED BY <5>1 DEF Cmd
        <4>3. has[dirOf[cmd.req]] \in SUBSET FileNames
          BY <4>2 DEF ExportTypeOK
        <4>4. within \subseteq FileNames /\ (cmd.kind # "file" => within = {})
          BY <4>3
        <4> HIDE DEF within, cmd
        <4> QED BY <4>1, <4>4
      <3>3. files'[h] = Merged(files[h], part, Present(cmd))
        BY <3>2
      <3> QED BY <3>1, <3>2, <3>3 DEF Works, Finish
    <2> QED BY <2>1, <2>2
  <1>7. ASSUME NEW g \in Hosts, Die(g) PROVE Listens(h)
    BY <1>7 DEF Die, Listens
  <1>8. CASE UNCHANGED vars BY <1>8 DEF vars, hosts, Listens
  <1> QED BY <1>1, <1>2, <1>3, <1>4, <1>5, <1>6, <1>7, <1>8 DEF Next

\* Once its datagram has left, what a run asked for and what its export came to
\* are settled.
LEMMA SentIsSettled ==
    ASSUME ToolTypeOK, SentInv, [Next]_vars, NEW r \in Runs, sent[r]
    PROVE  /\ sent'[r] /\ request'[r] = request[r] /\ atSend'[r] = atSend[r]
           /\ dirOf'[r] = dirOf[r] /\ step'[r] = step[r]
           /\ result'[r] = result[r] /\ unwritten'[r] = unwritten[r]
           /\ admin' >= admin /\ version' >= version
  <1> USE DEF ToolTypeOK, ExportTypeOK
  <1>0. step[r] = "done" /\ request[r].valid
    BY DEF SentInv
  <1>1. CASE EditFiles BY <1>1 DEF EditFiles, hosts, exportVars
  <1>2. CASE AdminStep
    BY <1>2 DEF AdminStep, Admin, AdminUnexport, AdminEdit, AdminReload, front
  <1>3. ASSUME NEW q \in Runs, Parse(q)
        PROVE  /\ sent' = sent /\ request'[r] = request[r] /\ atSend' = atSend
               /\ version' = version /\ UNCHANGED exportVars
    BY <1>0, <1>3 DEF Parse
  <1>4. ASSUME NEW q \in Runs, Check(q) \/ Config(q) \/ Reload(q)
        PROVE  /\ dirOf'[r] = dirOf[r] /\ step'[r] = step[r]
               /\ result'[r] = result[r] /\ unwritten'[r] = unwritten[r] /\ admin' = admin
    BY <1>0, <1>4 DEF Check, Config, Reload
  <1>5. ASSUME NEW q \in Runs, Send(q)
        PROVE  /\ sent'[r] /\ request' = request /\ atSend'[r] = atSend[r]
               /\ version' = version /\ UNCHANGED exportVars
    BY <1>5 DEF Send, SendTo
  <1>6. ASSUME NEW g \in Hosts, Accept(g) \/ Run(g) \/ Die(g)
        PROVE  UNCHANGED <<exportVars, front>>
    BY <1>6 DEF Accept, Run, Die
  <1>7. CASE UNCHANGED vars BY <1>7 DEF vars, exportVars, front
  <1>8. ASSUME NEW q \in Runs, ExportShare(q) PROVE Export(q) /\ UNCHANGED front
    BY <1>8 DEF ExportShare
  <1> QED BY <1>1, <1>2, <1>3, <1>4, <1>5, <1>6, <1>7, <1>8 DEF Next, Export, exportVars, front

LEMMA ExportedIsBoolean == \A cmd : Exported(cmd) \in BOOLEAN
  BY Zenon DEF Exported

LEMMA ToolTypeInit == Init => ToolTypeOK
  <1> SUFFICES ASSUME Init PROVE ToolTypeOK
    OBVIOUS
  <1>1. ExportTypeOK
    BY ExportTypeInit DEF Init
  <1>2. sent \in [Runs -> BOOLEAN] /\ up \in [Hosts -> BOOLEAN]
    BY Zenon DEF Init
  <1>3. DOMAIN request = Runs /\ (\A r \in Runs : request[r].sig \subseteq Kinds)
        /\ atSend \in [Runs -> Nat] /\ version \in Nat /\ has \in [Dirs -> SUBSET FileNames]
    BY DEF Init, Unparsed
  <1>4. inbox \in [Hosts -> Seq(Runs)] /\ pending \in [Hosts -> Seq(Cmd)]
        /\ done \in [Hosts -> Seq(Finished)]
    BY EmptySeq DEF Init
  <1>5. files \in [Hosts -> Contents]
    <2>1. AsInstalled \in Copy
      BY DEF AsInstalled, Copy
    <2> QED BY <2>1 DEF Init, Contents
  <1> QED BY <1>1, <1>2, <1>3, <1>4, <1>5 DEF ToolTypeOK

\* What a host has stays of its type, whatever the step is for it.
LEMMA HostTypeNext ==
    ASSUME ToolTypeOK, [Next]_vars, NEW h \in Hosts
    PROVE  /\ inbox'[h] \in Seq(Runs) /\ pending'[h] \in Seq(Cmd)
           /\ done'[h] \in Seq(Finished) /\ files'[h] \in Contents
  <1> USE DEF ToolTypeOK
  <1>1. CASE Listens(h)
    <2>1. ASSUME NEW r \in Runs PROVE Append(inbox[h], r) \in Seq(Runs)
      BY AppendProperties
    <2> QED BY <1>1, <2>1 DEF Listens
  <1>2. CASE Takes(h)
    <2>1. Head(inbox[h]) \in Runs /\ Tail(inbox[h]) \in Seq(Runs)
      BY <1>2, HeadTailProperties DEF Takes
    <2>2. Batch(Head(inbox[h]), request[Head(inbox[h])].sig) \in Seq(Cmd)
      BY <2>1, BatchProperties DEF FilesFirst
    <2>3. pending[h] \o Batch(Head(inbox[h]), request[Head(inbox[h])].sig) \in Seq(Cmd)
      BY <2>2, ConcatProperties
    <2> QED BY <1>2, <2>1, <2>3 DEF Takes
  <1>3. CASE Works(h)
    <2>1. Head(pending[h]) \in Cmd /\ Tail(pending[h]) \in Seq(Cmd)
      BY <1>3, HeadTailProperties DEF Works
    <2> DEFINE cmd == Head(pending[h])
    <2>2. PICK part \in SUBSET FileNames :
            /\ done'[h] = Append(done[h],
                  [req |-> cmd.req, kind |-> cmd.kind, copied |-> part,
                   exported |-> Exported(cmd), used |-> files[h]])
            /\ files'[h] = Merged(files[h], part, Present(cmd))
      BY <1>3 DEF Works
    <2>3. cmd.req \in Runs /\ cmd.kind \in AllKinds /\ files[h] \in Contents
      BY <2>1 DEF Cmd
    <2>4. Exported(cmd) \in BOOLEAN
      BY ExportedIsBoolean
    <2> DEFINE e == [req |-> cmd.req, kind |-> cmd.kind, copied |-> part,
                     exported |-> Exported(cmd), used |-> files[h]]
    <2>5. e \in Finished
      BY <2>3, <2>4, Zenon DEF Finished
    <2>6. Append(done[h], e) \in Seq(Finished)
      BY <2>5, AppendProperties
    <2>7. Present(cmd) \in Copy
      BY <2>3 DEF Present, Copy, ExportTypeOK
    <2>8. files'[h] \in Contents
      BY <2>2, <2>3, <2>7, MergedType
    <2> QED BY <1>3, <2>1, <2>2, <2>6, <2>8 DEF Works
  <1> QED BY <1>1, <1>2, <1>3, HostStep

LEMMA ToolTypeNext == ToolTypeOK /\ [Next]_vars => ToolTypeOK'
  <1> SUFFICES ASSUME ToolTypeOK, [Next]_vars PROVE ToolTypeOK'
    OBVIOUS
  <1>0. ExportTypeOK'
    BY ExportStep, ExportTypeNext DEF ToolTypeOK
  <1>1. /\ DOMAIN inbox' = Hosts /\ DOMAIN pending' = Hosts
        /\ DOMAIN done' = Hosts /\ DOMAIN files' = Hosts
        /\ inbox' = [h \in Hosts |-> inbox'[h]] /\ pending' = [h \in Hosts |-> pending'[h]]
        /\ done' = [h \in Hosts |-> done'[h]] /\ files' = [h \in Hosts |-> files'[h]]
    <2> USE DEF ToolTypeOK
    <2>1. CASE \E r \in Runs : Parse(r) \/ ExportShare(r)
      BY <2>1 DEF Parse, ExportShare, hosts
    <2>2. ASSUME NEW r \in Runs, Send(r)
          PROVE  /\ inbox' = [h \in Hosts |-> inbox'[h]]
                 /\ pending' = pending /\ done' = done /\ files' = files
      BY <2>2 DEF Send, SendTo
    <2>3. CASE EditFiles \/ AdminStep \/ UNCHANGED vars
      BY <2>3 DEF EditFiles, AdminStep, vars, hosts
    <2>4. ASSUME NEW g \in Hosts, Accept(g)
          PROVE  /\ inbox' = [h \in Hosts |-> inbox'[h]] /\ pending' = [h \in Hosts |-> pending'[h]]
                 /\ done' = done /\ files' = files
      BY <2>4 DEF Accept
    <2>5. ASSUME NEW g \in Hosts, Run(g)
          PROVE  /\ inbox' = inbox /\ pending' = [h \in Hosts |-> pending'[h]]
                 /\ done' = [h \in Hosts |-> done'[h]] /\ files' = [h \in Hosts |-> files'[h]]
      BY <2>5 DEF Run, Finish
    <2>6. CASE \E g \in Hosts : Die(g)
      BY <2>6 DEF Die
    <2> QED BY <2>1, <2>2, <2>3, <2>4, <2>5, <2>6 DEF Next
  <1>2. inbox' \in [Hosts -> Seq(Runs)] /\ pending' \in [Hosts -> Seq(Cmd)]
        /\ done' \in [Hosts -> Seq(Finished)] /\ files' \in [Hosts -> Contents]
    BY <1>1, HostTypeNext
  <1>3. up' \in [Hosts -> BOOLEAN]
    BY BooleanExcept
       DEF ToolTypeOK, Next, Parse, ExportShare, Send, SendTo, EditFiles, AdminStep,
           Accept, Run, Die, vars, hosts
  <1>4. /\ DOMAIN request' = Runs /\ \A r \in Runs : request'[r].sig \subseteq Kinds
        /\ sent' \in [Runs -> BOOLEAN] /\ atSend' \in [Runs -> Nat] /\ version' \in Nat
        /\ has' \in [Dirs -> SUBSET FileNames]
    <2> USE DEF ToolTypeOK
    <2>1. ASSUME NEW r \in Runs, Parse(r)
          PROVE  /\ DOMAIN request' = Runs /\ \A q \in Runs : request'[q].sig \subseteq Kinds
                 /\ UNCHANGED <<sent, atSend, version, has>>
      <3>1. PICK args \in ArgLists : request' = [request EXCEPT ![r] = ParseArgs(args)]
        BY <2>1 DEF Parse
      <3>2. ParseArgs(args).sig \subseteq Kinds
        BY DEF ParseArgs
      <3> QED BY <2>1, <3>1, <3>2 DEF Parse
    <2>2. ASSUME NEW r \in Runs, Send(r)
          PROVE  /\ UNCHANGED <<request, version, has>> /\ sent' \in [Runs -> BOOLEAN]
                 /\ atSend' \in [Runs -> Nat]
      <3>1. sent' = [sent EXCEPT ![r] = TRUE] /\ atSend' = [atSend EXCEPT ![r] = version]
            /\ UNCHANGED <<request, version, has>>
        BY <2>2 DEF Send, SendTo
      <3>2. sent' \in [Runs -> BOOLEAN]
        BY <3>1, BooleanExcept
      <3>3. atSend' \in [Runs -> Nat]
        BY <3>1
      <3> QED BY <3>1, <3>2, <3>3
    <2>3. CASE EditFiles
      <3>1. has' \in [Dirs -> SUBSET FileNames]
        BY <2>3 DEF EditFiles
      <3> QED BY <2>3, <3>1 DEF EditFiles
    <2>4. ASSUME \/ AdminStep \/ UNCHANGED vars \/ \E r \in Runs : ExportShare(r)
                 \/ \E h \in Hosts : Accept(h) \/ Run(h) \/ Die(h)
          PROVE  UNCHANGED front
      BY <2>4 DEF AdminStep, vars, ExportShare, Accept, Run, Die
    <2> QED BY <2>1, <2>2, <2>3, <2>4 DEF Next, front
  <1> QED BY <1>0, <1>2, <1>3, <1>4 DEF ToolTypeOK

LEMMA SentNext == ToolTypeOK /\ SentInv /\ [Next]_vars => SentInv'
  <1> SUFFICES ASSUME ToolTypeOK, SentInv, [Next]_vars, NEW r \in Runs, sent'[r]
               PROVE  step'[r] = "done" /\ request'[r].valid /\ atSend'[r] <= version'
    BY DEF SentInv
  <1>1. CASE sent[r]
    <2>1. atSend[r] \in Nat /\ version \in Nat /\ version' \in Nat
      BY ToolTypeNext DEF ToolTypeOK
    <2> QED BY <1>1, <2>1, SentIsSettled DEF SentInv
  <1>2. CASE ~sent[r]
    <2>1. PICK q \in Runs : Send(q)
      BY <1>2 DEF ToolTypeOK, Next, Parse, ExportShare, EditFiles, AdminStep, Accept, Run, Die,
                  front, vars
    <2>2. q = r /\ atSend'[r] = version /\ version' = version /\ version \in Nat
      BY <1>2, <2>1 DEF ToolTypeOK, Send, SendTo
    <2> QED BY <2>1, <2>2 DEF Send, SendTo, exportVars
  <1> QED BY <1>1, <1>2

\* A step leaves the trace as it is, or appends the batch of the request whose
\* datagram is taken.
TraceSame(h) == Trace(h)' = Trace(h) /\ Steps(h)' = Steps(h)

TraceGrows(h, r) ==
    LET n == Len(done[h]) + Len(pending[h])
        b == Batch(r, request[r].sig)
    IN  /\ Takes(h) /\ r = Head(inbox[h]) /\ ForMe(h, request[r].dest)
        /\ Steps(h)' = 1..(n + Len(b))
        /\ \A k \in 1..n : Trace(h)'[k] = Trace(h)[k]
        /\ \A k \in 1..Len(b) : Trace(h)'[n + k] = b[k]

LEMMA TraceNext ==
    ASSUME ToolTypeOK, [Next]_vars, NEW h \in Hosts
    PROVE  TraceSame(h) \/ TraceGrows(h, Head(inbox[h]))
  <1> USE DEF ToolTypeOK
  <1>1. CASE Listens(h)
    BY <1>1 DEF Listens, TraceSame, Trace, Steps
  <1>2. CASE Works(h)
    <2> DEFINE cmd == Head(pending[h])
    <2>1. PICK e : /\ done'[h] = Append(done[h], e) /\ e.req = cmd.req /\ e.kind = cmd.kind
                   /\ pending'[h] = Tail(pending[h]) /\ pending[h] # <<>>
      BY <1>2 DEF Works
    <2>2. done'[h] \in Seq(Finished)
      BY HostTypeNext
    <2>3. /\ Len(done[h]) \in Nat /\ Len(done'[h]) = Len(done[h]) + 1
          /\ done'[h][Len(done[h]) + 1] = e
      BY <2>1, LenProperties, AppendProperties
    <2>4. e \in Finished
      BY <2>2, <2>3, ElementOfSeq
    <2>5. Trace(h)' = Trace(h)
      BY <2>1, <2>4, TraceRun DEF Trace
    <2>6. Len(pending[h]) \in Nat /\ Len(pending'[h]) = Len(pending[h]) - 1
      BY <2>1, LenProperties, HeadTailProperties
    <2> QED BY <2>3, <2>5, <2>6 DEF TraceSame, Steps
  <1>3. CASE Takes(h)
    <2> DEFINE r == Head(inbox[h])
               b == Batch(r, request[r].sig)
    <2>1. r \in Runs /\ request[r].sig \in SUBSET Kinds
      BY <1>3, HeadTailProperties DEF Takes
    <2>2. b \in Seq(Cmd)
      BY <2>1, BatchProperties DEF FilesFirst
    <2> HIDE DEF b
    <2>3. CASE pending'[h] = pending[h]
      BY <1>3, <2>3 DEF Takes, TraceSame, Trace, Steps
    <2>4. CASE ForMe(h, request[r].dest) /\ pending'[h] = pending[h] \o b
      <3>1. done'[h] = done[h]
        BY <1>3 DEF Takes
      <3>2. Trace(h)' = TraceOf(done[h], pending[h] \o b)
            /\ Steps(h)' = 1..(Len(done[h]) + Len(pending[h] \o b))
        BY <2>4, <3>1 DEF Trace, Steps
      <3>3. Len(done[h]) \in Nat /\ Len(pending[h]) \in Nat /\ Len(b) \in Nat
        BY <2>2, LenProperties
      <3>4. Len(done[h]) + Len(pending[h] \o b) = Len(done[h]) + Len(pending[h]) + Len(b)
        BY <2>2, <3>3, TraceAccept
      <3>5. /\ \A k \in 1..(Len(done[h]) + Len(pending[h])) : Trace(h)'[k] = Trace(h)[k]
            /\ \A k \in 1..Len(b) : Trace(h)'[Len(done[h]) + Len(pending[h]) + k] = b[k]
        BY <2>2, <3>2, TraceAccept DEF Trace
      <3> QED BY <1>3, <2>4, <3>2, <3>4, <3>5 DEF TraceGrows, b
    <2> QED BY <1>3, <2>3, <2>4 DEF Takes, b
  <1> QED BY <1>1, <1>2, <1>3, HostStep

\* The batch that makes a trace longer, as the invariants need it.
LEMMA Grown ==
    ASSUME ToolTypeOK, NEW h \in Hosts, NEW r, TraceGrows(h, r)
    PROVE  /\ r \in Runs
           /\ r = inbox[h][1] /\ 1 \in 1..Len(inbox[h])
           /\ Len(done[h]) + Len(pending[h]) \in Nat
           /\ \A k \in Steps(h)' : k \notin Steps(h) =>
                 /\ Trace(h)'[k].req = r
                 /\ Trace(h)'[k].kind \in request[r].sig \cup {"script"}
                 /\ k > Len(done[h]) + Len(pending[h]) + 1 => Trace(h)'[k].kind # "file"
           /\ \A k \in Steps(h)' : k \in Steps(h) => Trace(h)'[k] = Trace(h)[k]
  <1> DEFINE n == Len(done[h]) + Len(pending[h])
             b == Batch(r, request[r].sig)
  <1>1. r \in Runs /\ r = inbox[h][1] /\ 1 \in 1..Len(inbox[h])
    <2>1. inbox[h] \in Seq(Runs) /\ inbox[h] # <<>> /\ r = Head(inbox[h])
      BY DEF ToolTypeOK, TraceGrows, Takes
    <2>2. Len(inbox[h]) \in Nat \ {0}
      BY <2>1, LenProperties, EmptySeq
    <2> QED BY <2>1, <2>2, HeadTailProperties
  <1>2. n \in Nat
    BY LenProperties DEF ToolTypeOK
  <1>3. FilesFirst(b, r, request[r].sig) /\ Len(b) \in Nat
    BY <1>1, BatchProperties DEF ToolTypeOK
  <1>4. /\ Steps(h)' = 1..(n + Len(b))
        /\ \A k \in 1..n : Trace(h)'[k] = Trace(h)[k]
        /\ \A k \in 1..Len(b) : Trace(h)'[n + k] = b[k]
    BY DEF TraceGrows
  <1>5. Steps(h) = 1..n
    BY DEF Steps
  <1> HIDE DEF n, b
  <1>6. ASSUME NEW k \in Steps(h)', k \notin Steps(h)
        PROVE  /\ Trace(h)'[k].req = r
               /\ Trace(h)'[k].kind \in request[r].sig \cup {"script"}
               /\ k > n + 1 => Trace(h)'[k].kind # "file"
    <2>1. k - n \in 1..Len(b) /\ n + (k - n) = k /\ (k > n + 1 => k - n > 1)
      BY <1>2, <1>3, <1>4, <1>5, <1>6
    <2>2. Trace(h)'[k] = b[k - n]
      BY <1>4, <2>1
    <2> QED BY <1>3, <2>1, <2>2 DEF FilesFirst
  <1> QED BY <1>1, <1>2, <1>4, <1>5, <1>6 DEF n

LEMMA TraceCmd ==
    ASSUME ToolTypeOK, NEW h \in Hosts, NEW k \in Steps(h)
    PROVE  Trace(h)[k] \in Cmd /\ Trace(h)[k].req \in Runs
  <1>1. Trace(h)[k] \in Cmd
    BY TraceType DEF ToolTypeOK, Trace, Steps
  <1> QED BY <1>1 DEF Cmd

LEMMA AskedNext ==
    ASSUME ToolTypeOK, SentInv, [Next]_vars, NEW h \in Hosts, AskedInv(h), InboxInv(h)
    PROVE  AskedInv(h)'
  <1> SUFFICES ASSUME NEW k \in Steps(h)' PROVE Asked(h, Trace(h)[k])'
    BY DEF AskedInv
  <1>1. ASSUME k \in Steps(h), Trace(h)'[k] = Trace(h)[k] PROVE Asked(h, Trace(h)[k])'
    <2>1. Trace(h)[k].req \in Runs /\ Asked(h, Trace(h)[k])
      BY <1>1, TraceCmd DEF AskedInv
    <2> DEFINE q == Trace(h)[k].req
    <2>2. sent'[q] /\ request'[q] = request[q]
      BY <2>1, SentIsSettled DEF Asked
    <2> QED BY <1>1, <2>1, <2>2 DEF Asked
  <1>2. CASE TraceSame(h)
    BY <1>1, <1>2 DEF TraceSame
  <1>3. CASE TraceGrows(h, Head(inbox[h]))
    <2> DEFINE r == Head(inbox[h])
    <2>1. CASE k \in Steps(h)
      BY <1>1, <1>3, <2>1, Grown
    <2>2. CASE k \notin Steps(h)
      <3>1. /\ r \in Runs /\ r = inbox[h][1] /\ 1 \in 1..Len(inbox[h])
            /\ Trace(h)'[k].req = r /\ Trace(h)'[k].kind \in request[r].sig \cup {"script"}
        BY <1>3, <2>2, Grown
      <3>2. sent[r] /\ request[r].valid
        BY <3>1 DEF InboxInv, SentInv
      <3>3. UNCHANGED <<sent, request>> /\ (request[r].dest = {} \/ h \in request[r].dest)
        BY <1>3 DEF TraceGrows, Takes, front, ForMe
      <3> QED BY <3>1, <3>2, <3>3 DEF Asked
    <2> QED BY <2>1, <2>2
  <1> QED BY <1>2, <1>3, TraceNext

LEMMA InboxNext ==
    ASSUME ToolTypeOK, SentInv, [Next]_vars, NEW h \in Hosts, AskedInv(h), InboxInv(h)
    PROVE  InboxInv(h)'
  <1>0. inbox[h] \in Seq(Runs) /\ Len(inbox[h]) \in Nat
    BY LenProperties DEF ToolTypeOK
  <1>a. \A i \in 1..Len(inbox[h]) : inbox[h][i] \in Runs /\ sent[inbox[h][i]] /\ sent'[inbox[h][i]]
    BY <1>0, ElementOfSeq, SentIsSettled DEF InboxInv
  <1>1. CASE Listens(h)
    <2>1. Trace(h)' = Trace(h) /\ Steps(h)' = Steps(h)
      BY <1>1 DEF Listens, Trace, Steps
    <2>2. CASE inbox'[h] = inbox[h]
      BY <1>a, <2>1, <2>2 DEF InboxInv
    <2>3. ASSUME NEW r \in Runs, ~sent[r], sent'[r], inbox'[h] = Append(inbox[h], r)
          PROVE  InboxInv(h)'
      <3>1. /\ Len(inbox'[h]) = Len(inbox[h]) + 1 /\ inbox'[h][Len(inbox[h]) + 1] = r
            /\ \A i \in 1..Len(inbox[h]) : inbox'[h][i] = inbox[h][i]
        BY <1>0, <2>3, AppendProperties
      <3>2. \A i \in 1..Len(inbox[h]) : inbox[h][i] # r
        BY <1>a, <2>3
      <3>3. \A k \in Steps(h) : Trace(h)[k].req # r
        BY <2>3 DEF AskedInv, Asked
      <3>4. ASSUME NEW i \in 1..Len(inbox'[h])
            PROVE  /\ sent'[inbox'[h][i]]
                   /\ \A j \in 1..Len(inbox'[h]) : inbox'[h][j] = inbox'[h][i] => j = i
                   /\ \A k \in Steps(h) : Trace(h)[k].req # inbox'[h][i]
        <4>1. CASE i = Len(inbox[h]) + 1
          BY <1>0, <2>3, <3>1, <3>2, <3>3, <4>1
        <4>2. CASE i # Len(inbox[h]) + 1
          <5>1. i \in 1..Len(inbox[h])
            BY <1>0, <3>1, <4>2
          <5> QED BY <1>0, <1>a, <3>1, <3>2, <5>1 DEF InboxInv
        <4> QED BY <4>1, <4>2
      <3> QED BY <2>1, <3>4 DEF InboxInv
    <2> QED BY <1>1, <2>2, <2>3 DEF Listens
  <1>2. CASE Works(h)
    <2>1. TraceSame(h)
      <3>1. inbox'[h] = inbox[h]
        BY <1>2 DEF Works
      <3>2. inbox[h] # <<>> => Len(Tail(inbox[h])) = Len(inbox[h]) - 1
        BY <1>0, HeadTailProperties
      <3>3. ~Takes(h)
        <4>1. Takes(h) => inbox[h] # <<>> /\ inbox'[h] = Tail(inbox[h])
          BY DEF Takes
        <4>2. Takes(h) => Len(inbox[h]) = Len(inbox[h]) - 1
          BY <3>1, <3>2, <4>1
        <4> QED BY <1>0, <4>2
      <3> QED BY <3>3, TraceNext DEF TraceGrows
    <2> QED BY <1>2, <1>a, <2>1 DEF Works, TraceSame, InboxInv
  <1>3. CASE Takes(h)
    <2>1. /\ Len(inbox'[h]) = Len(inbox[h]) - 1
          /\ \A i \in 1..(Len(inbox[h]) - 1) : inbox'[h][i] = inbox[h][i + 1]
      BY <1>0, <1>3, HeadTailProperties DEF Takes
    <2>2. ASSUME NEW i \in 1..Len(inbox'[h]), NEW j \in 1..Len(inbox'[h]),
                 inbox'[h][j] = inbox'[h][i]
          PROVE  j = i
      <3>1. inbox[h][i + 1] = inbox[h][j + 1] /\ i + 1 \in 1..Len(inbox[h]) /\ j + 1 \in 1..Len(inbox[h])
        BY <1>0, <2>1, <2>2
      <3>2. i + 1 = j + 1
        BY <3>1 DEF InboxInv
      <3> QED BY <3>2, <1>0, <2>1
    <2>3. ASSUME NEW i \in 1..Len(inbox'[h])
          PROVE  /\ sent'[inbox'[h][i]]
                 /\ i + 1 \in 1..Len(inbox[h]) /\ i + 1 # 1 /\ inbox'[h][i] = inbox[h][i + 1]
      BY <1>0, <1>a, <2>1
    <2>4. ASSUME NEW i \in 1..Len(inbox'[h]), NEW k \in Steps(h)'
          PROVE  Trace(h)'[k].req # inbox'[h][i]
      <3>1. \A m \in Steps(h) : Trace(h)[m].req # inbox'[h][i]
        BY <2>3 DEF InboxInv
      <3>2. CASE TraceSame(h)
        BY <3>1, <3>2 DEF TraceSame
      <3>3. CASE TraceGrows(h, Head(inbox[h]))
        <4>1. CASE k \in Steps(h)
          BY <3>1, <3>3, <4>1, Grown
        <4>2. CASE k \notin Steps(h)
          <5>1. Trace(h)'[k].req = inbox[h][1] /\ 1 \in 1..Len(inbox[h])
            BY <3>3, <4>2, Grown
          <5>2. inbox[h][1] # inbox[h][i + 1]
            BY <2>3, <5>1 DEF InboxInv
          <5> QED BY <2>3, <5>1, <5>2
        <4> QED BY <4>1, <4>2
      <3> QED BY <3>2, <3>3, TraceNext
    <2> QED BY <2>2, <2>3, <2>4 DEF InboxInv
  <1> QED BY <1>1, <1>2, <1>3, HostStep

LEMMA OrderNext ==
    ASSUME ToolTypeOK, SentInv, [Next]_vars, NEW h \in Hosts, InboxInv(h), InOrder(h)
    PROVE  InOrder(h)'
  <1>1. CASE TraceSame(h)
    BY <1>1 DEF TraceSame, InOrder
  <1>2. CASE TraceGrows(h, Head(inbox[h]))
    <2> DEFINE r == Head(inbox[h])
               n == Len(done[h]) + Len(pending[h])
               T == Trace(h)
               T1 == Trace(h)'
    <2>1. /\ n \in Nat /\ Steps(h) = 1..n
          /\ r = inbox[h][1] /\ 1 \in 1..Len(inbox[h])
          /\ \A k \in Steps(h)' : k \notin Steps(h) =>
                T1[k].req = r /\ (k > n + 1 => T1[k].kind # "file")
          /\ \A k \in Steps(h)' : k \in Steps(h) => T1[k] = T[k]
      BY <1>2, Grown DEF Steps
    <2>2. \E m : Steps(h)' = 1..m /\ m \in Int /\ m >= n
      <3>1. Steps(h)' = 1..(n + Len(Batch(r, request[r].sig)))
        BY <1>2 DEF TraceGrows
      <3>2. Len(Batch(r, request[r].sig)) \in Nat
        <4>1. r \in Runs /\ request[r].sig \in SUBSET Kinds
          BY <1>2, Grown DEF ToolTypeOK
        <4> QED BY <4>1, BatchProperties
      <3> DEFINE m == Len(Batch(r, request[r].sig))
      <3> HIDE DEF m, n
      <3>3. m \in Nat /\ Steps(h)' = 1..(n + m)
        BY <3>1, <3>2 DEF m
      <3>4. n + m \in Int /\ n + m >= n
        BY <2>1, <3>3
      <3> QED BY <3>3, <3>4
    <2> HIDE DEF r
    <2>3. \A k \in Steps(h) : T[k].req # r
      BY <2>1 DEF InboxInv
    <2> SUFFICES ASSUME NEW i \in Steps(h)', NEW j \in Steps(h)', i < j, T1[i].req = T1[j].req
                 PROVE  T1[j].kind # "file" /\ \A k \in i..j : T1[k].req = T1[i].req
      BY DEF InOrder
    <2> HIDE DEF T, T1, n
    <2>4. CASE j \in Steps(h)
      <3>1. i \in Steps(h) /\ \A k \in i..j : k \in Steps(h) /\ k \in Steps(h)'
        BY <2>1, <2>2, <2>4
      <3>2. T[j].kind # "file" /\ \A k \in i..j : T[k].req = T[i].req
        BY <2>1, <2>4, <3>1 DEF InOrder, T
      <3> QED BY <2>1, <2>4, <3>1, <3>2
    <2>5. CASE j \notin Steps(h)
      <3>1. T1[j].req = r
        BY <2>1, <2>5
      <3>2. i \notin Steps(h)
        BY <2>1, <2>3, <3>1
      <3>3. i > n /\ j > n + 1
        BY <2>1, <2>2, <2>5, <3>2
      <3>4. \A k \in i..j : k \in Steps(h)' /\ k \notin Steps(h)
        BY <2>1, <2>2, <3>3
      <3> QED BY <2>1, <2>5, <3>1, <3>3, <3>4
    <2> QED BY <2>4, <2>5
  <1> QED BY <1>1, <1>2, TraceNext

LEMMA DoneInTrace ==
    ASSUME ToolTypeOK, NEW h \in Hosts, NEW i \in 1..Len(done[h])
    PROVE  /\ i \in Steps(h) /\ done[h][i] \in Finished /\ done[h][i].req \in Runs
           /\ Trace(h)[i].req = done[h][i].req /\ Trace(h)[i].kind = done[h][i].kind
  <1> DEFINE n == Len(done[h])
             m == Len(pending[h])
  <1>1. n \in Nat /\ m \in Nat /\ i \in 1..n /\ Steps(h) = 1..(n + m)
    BY TraceType DEF ToolTypeOK, Steps
  <1> HIDE DEF n, m
  <1>2. i \in Steps(h)
    BY <1>1
  <1>3. /\ done[h][i] \in Finished
        /\ Trace(h)[i].req = done[h][i].req /\ Trace(h)[i].kind = done[h][i].kind
    BY TraceType DEF ToolTypeOK, Trace
  <1>4. Trace(h)[i].req \in Runs
    BY <1>2, TraceCmd
  <1> QED BY <1>2, <1>3, <1>4

\* The first command queued comes next in the trace.
LEMMA NextInTrace ==
    ASSUME ToolTypeOK, NEW h \in Hosts, pending[h] # <<>>
    PROVE  /\ Len(done[h]) \in Nat /\ Len(done[h]) + 1 \in Steps(h)
           /\ Trace(h)[Len(done[h]) + 1] = Head(pending[h])
           /\ Head(pending[h]).req \in Runs
  <1> DEFINE n == Len(done[h])
             m == Len(pending[h])
  <1>1. n \in Nat /\ m \in Nat \ {0} /\ Steps(h) = 1..(n + m)
    BY LenProperties, EmptySeq DEF ToolTypeOK, Steps
  <1> HIDE DEF n, m
  <1>2. n + 1 \in Steps(h) /\ 1 \in 1..m
    BY <1>1
  <1>3. \A i \in 1..m : Trace(h)[n + i] = pending[h][i]
    BY TraceType DEF ToolTypeOK, Trace, n, m
  <1>4. pending[h][1] = Head(pending[h])
    BY HeadTailProperties DEF ToolTypeOK
  <1>5. Trace(h)[n + 1] = Head(pending[h]) /\ Head(pending[h]).req \in Runs
    BY <1>2, <1>3, <1>4, TraceCmd
  <1> QED BY <1>1, <1>2, <1>5 DEF n

\* What running a command adds to what is done.
LEMMA WorkDone ==
    ASSUME ToolTypeOK, NEW h \in Hosts, Works(h)
    PROVE  LET n == Len(done[h])
               cmd == Head(pending[h])
           IN  /\ n \in Nat /\ Len(done'[h]) = n + 1
               /\ \A i \in 1..n : done'[h][i] = done[h][i]
               /\ done'[h][n + 1].req = cmd.req /\ done'[h][n + 1].kind = cmd.kind
               /\ done'[h][n + 1].used = files[h] /\ done'[h][n + 1].exported = Exported(cmd)
               /\ \A x \in done'[h][n + 1].copied :
                     cmd.kind = "file" /\ files'[h][x] = Present(cmd)
               /\ cmd.kind # "file" => files'[h] = files[h]
               /\ pending[h] # <<>> /\ UNCHANGED <<exportVars, front>>
  <1> DEFINE n == Len(done[h])
             cmd == Head(pending[h])
  <1>1. PICK part \in SUBSET FileNames :
          /\ done'[h] = Append(done[h],
                [req |-> cmd.req, kind |-> cmd.kind, copied |-> part,
                 exported |-> Exported(cmd), used |-> files[h]])
          /\ part # {} => cmd.kind = "file"
          /\ files'[h] = Merged(files[h], part, Present(cmd))
    BY DEF Works
  <1> DEFINE e == [req |-> cmd.req, kind |-> cmd.kind, copied |-> part,
                   exported |-> Exported(cmd), used |-> files[h]]
  <1>2. /\ e.req = cmd.req /\ e.kind = cmd.kind /\ e.copied = part
        /\ e.exported = Exported(cmd) /\ e.used = files[h]
    OBVIOUS
  <1>3. done'[h] = Append(done[h], e)
    BY <1>1
  <1> HIDE DEF e
  <1>4. /\ n \in Nat /\ Len(done'[h]) = n + 1 /\ done'[h][n + 1] = e
        /\ \A i \in 1..n : done'[h][i] = done[h][i]
    <2>1. done[h] \in Seq(Finished) /\ Finished \subseteq Finished \cup {e}
      BY DEF ToolTypeOK
    <2>2. done[h] \in Seq(Finished \cup {e}) /\ e \in Finished \cup {e}
      BY <2>1, SeqMonotonic
    <2>3. n \in Nat
      BY <2>1, LenProperties
    <2> QED BY <1>3, <2>2, <2>3, AppendProperties
  <1>5. pending[h] # <<>> /\ UNCHANGED <<exportVars, front>>
    BY DEF Works
  <1>6. \A x \in part : cmd.kind = "file" /\ files'[h][x] = Present(cmd)
    BY <1>1 DEF Merged
  <1>7. cmd.kind # "file" => files'[h] = files[h]
    <2>1. files[h] \in Contents
      BY DEF ToolTypeOK
    <2> QED BY <1>1, <2>1 DEF Merged, Contents
  <1> QED BY <1>2, <1>4, <1>5, <1>6, <1>7

LEMMA CopiesNext ==
    ASSUME ToolTypeOK, SentInv, [Next]_vars, NEW h \in Hosts,
           AskedInv(h), InOrder(h), Copies(h)
    PROVE  Copies(h)'
  <1>1. CASE Listens(h) \/ Takes(h)
    <2>1. done'[h] = done[h] /\ files'[h] = files[h]
      BY <1>1 DEF Listens, Takes
    <2> DEFINE StillFresh(c, r) == c.dir = dirOf'[r] /\ c.ver >= atSend'[r]
    <2>2. ASSUME NEW i \in 1..Len(done[h]), NEW c
          PROVE  Fresh(c, done[h][i].req) => StillFresh(c, done[h][i].req)
      <3>1. done[h][i].req \in Runs /\ sent[done[h][i].req]
        BY DoneInTrace DEF AskedInv, Asked
      <3>2. /\ dirOf'[done[h][i].req] = dirOf[done[h][i].req]
            /\ atSend'[done[h][i].req] = atSend[done[h][i].req]
        BY <3>1, SentIsSettled
      <3> QED BY <3>2 DEF Fresh
    <2>3. ASSUME NEW i \in 1..Len(done[h]), NEW x \in done[h][i].copied
          PROVE  /\ done[h][i].kind = "file"
                 /\ \A j \in 1..Len(done[h]) : i < j /\ done[h][j].req = done[h][i].req =>
                       StillFresh(done[h][j].used[x], done[h][i].req)
                 /\ done[h][Len(done[h])].req = done[h][i].req =>
                       StillFresh(files[h][x], done[h][i].req)
      <3> HIDE DEF StillFresh
      <3> QED BY <2>2, <2>3 DEF Copies
    <2> QED BY <2>1, <2>3 DEF Copies, Fresh
  <1>2. CASE Works(h)
    <2> DEFINE n == Len(done[h])
               cmd == Head(pending[h])
    <2>1. /\ n \in Nat /\ Len(done'[h]) = n + 1
          /\ \A i \in 1..n : done'[h][i] = done[h][i]
          /\ done'[h][n + 1].req = cmd.req /\ done'[h][n + 1].kind = cmd.kind
          /\ done'[h][n + 1].used = files[h]
          /\ \A x \in done'[h][n + 1].copied :
                cmd.kind = "file" /\ files'[h][x] = Present(cmd)
          /\ cmd.kind # "file" => files'[h] = files[h]
      BY <1>2, WorkDone
    <2>2. UNCHANGED <<dirOf, atSend, version>>
      BY <1>2, WorkDone DEF exportVars, front
    <2>3. /\ n + 1 \in Steps(h) /\ Trace(h)[n + 1] = cmd /\ cmd.req \in Runs
      BY <1>2, WorkDone, NextInTrace
    <2> HIDE DEF cmd
    \* A command of a request that copied its files before: the last command
    \* was of that request too, and this one copies nothing.
    <2>4. ASSUME NEW i \in 1..n, NEW x \in done[h][i].copied, cmd.req = done[h][i].req
          PROVE  Fresh(files[h][x], cmd.req) /\ files'[h] = files[h]
      <3>1. /\ i \in Steps(h) /\ Trace(h)[i].req = done[h][i].req
            /\ n \in 1..Len(done[h]) /\ n \in i..(n + 1) /\ i < n + 1
        BY <2>1, DoneInTrace
      <3>2. cmd.kind # "file" /\ Trace(h)[n].req = Trace(h)[i].req
        BY <2>3, <2>4, <3>1 DEF InOrder
      <3>3. done[h][n].req = done[h][i].req
        BY <3>1, <3>2, DoneInTrace
      <3> QED BY <2>1, <2>4, <3>2, <3>3 DEF Copies
    <2>5. ASSUME NEW i \in 1..(n + 1), NEW x \in done'[h][i].copied
          PROVE  /\ done'[h][i].kind = "file"
                 /\ \A j \in 1..(n + 1) : i < j /\ done'[h][j].req = done'[h][i].req =>
                       Fresh(done'[h][j].used[x], done'[h][i].req)
                 /\ done'[h][n + 1].req = done'[h][i].req => Fresh(files'[h][x], done'[h][i].req)
      <3>1. CASE i = n + 1
        <4>1. files'[h][x] = Present(cmd) /\ cmd.kind = "file"
          BY <2>1, <2>5, <3>1
        <4>2. sent[cmd.req]
          BY <2>3 DEF AskedInv, Asked
        <4>3. version >= atSend[cmd.req]
          BY <2>3, <4>2 DEF SentInv, ToolTypeOK
        <4>4. Fresh(files'[h][x], cmd.req)
          BY <4>1, <4>3 DEF Fresh, Present
        <4>5. \A j \in 1..(n + 1) : ~(i < j)
          BY <2>1, <3>1
        <4> QED BY <2>1, <3>1, <4>1, <4>4, <4>5
      <3>2. CASE i # n + 1
        <4>1. i \in 1..n /\ done'[h][i] = done[h][i] /\ x \in done[h][i].copied
          BY <2>1, <2>5, <3>2
        <4>2. ASSUME NEW j \in 1..(n + 1), i < j, done'[h][j].req = done[h][i].req
              PROVE  Fresh(done'[h][j].used[x], done[h][i].req)
          <5>1. CASE j = n + 1
            BY <2>1, <2>4, <4>1, <4>2, <5>1
          <5>2. CASE j # n + 1
            <6>1. j \in 1..n /\ done'[h][j] = done[h][j]
              BY <2>1, <5>2
            <6> QED BY <4>1, <4>2, <6>1 DEF Copies
          <5> QED BY <5>1, <5>2
        <4>3. done'[h][n + 1].req = done[h][i].req => Fresh(files'[h][x], done[h][i].req)
          BY <2>1, <2>4, <4>1
        <4>4. done[h][i].kind = "file"
          BY <4>1 DEF Copies
        <4> QED BY <4>1, <4>2, <4>3, <4>4
      <3> QED BY <3>1, <3>2
    <2> QED BY <2>1, <2>2, <2>5 DEF Copies, Fresh
  <1> QED BY <1>1, <1>2, HostStep

LEMMA ExcusedNext ==
    ASSUME ToolTypeOK, Standing, SentInv, [Next]_vars, NEW h \in Hosts,
           AskedInv(h), Excused(h)
    PROVE  Excused(h)'
  <1>1. ASSUME NEW i \in 1..Len(done[h]), ~done[h][i].exported
        PROVE  \/ ~result'[done[h][i].req] \/ unwritten'[done[h][i].req] \/ admin' > 0
    <2>1. done[h][i].req \in Runs /\ sent[done[h][i].req]
      BY DoneInTrace DEF AskedInv, Asked
    <2>2. \/ ~result[done[h][i].req] \/ unwritten[done[h][i].req] \/ admin > 0
      BY <1>1 DEF Excused
    <2>3. admin \in Nat /\ admin' \in Nat
      BY ToolTypeNext DEF ToolTypeOK, ExportTypeOK
    <2> QED BY <2>1, <2>2, <2>3, SentIsSettled
  <1>2. CASE Listens(h) \/ Takes(h)
    <2>1. done'[h] = done[h]
      BY <1>2 DEF Listens, Takes
    <2> QED BY <1>1, <2>1 DEF Excused
  <1>3. CASE Works(h)
    <2> DEFINE n == Len(done[h])
               cmd == Head(pending[h])
    <2>1. /\ n \in Nat /\ Len(done'[h]) = n + 1
          /\ \A i \in 1..n : done'[h][i] = done[h][i]
          /\ done'[h][n + 1].req = cmd.req /\ done'[h][n + 1].exported = Exported(cmd)
      BY <1>3, WorkDone
    <2>2. UNCHANGED <<result, unwritten, admin>>
      BY <1>3, WorkDone DEF exportVars
    <2>3. /\ n + 1 \in Steps(h) /\ Trace(h)[n + 1] = cmd /\ cmd.req \in Runs
      BY <1>3, WorkDone, NextInTrace
    <2> HIDE DEF cmd
    <2>4. ~Exported(cmd) => ~result[cmd.req] \/ unwritten[cmd.req] \/ admin > 0
      <3>1. step[cmd.req] = "done"
        BY <2>3 DEF AskedInv, Asked, SentInv
      <3>2. admin \in Nat
        BY DEF ToolTypeOK, ExportTypeOK
      <3> QED BY <2>3, <3>1, <3>2 DEF Standing, Exported
    <2>5. ASSUME NEW i \in 1..(n + 1), ~done'[h][i].exported
          PROVE  \/ ~result'[done'[h][i].req] \/ unwritten'[done'[h][i].req] \/ admin' > 0
      <3>1. CASE i = n + 1
        BY <2>1, <2>2, <2>4, <2>5, <3>1
      <3>2. CASE i # n + 1
        <4>1. i \in 1..n
          BY <2>1, <3>2
        <4> QED BY <1>1, <2>1, <2>5, <4>1
      <3> QED BY <3>1, <3>2
    <2> QED BY <2>1, <2>5 DEF Excused
  <1> QED BY <1>2, <1>3, HostStep

ToolInv ==
    /\ ToolTypeOK /\ Debts /\ Standing /\ SentInv
    /\ \A h \in Hosts : HostInv(h)

LEMMA ToolInvariant == Spec => []ToolInv
  <1>1. Init => ToolInv
    <2> SUFFICES ASSUME Init PROVE ToolInv
      OBVIOUS
    <2>1. ToolTypeOK
      BY ToolTypeInit
    <2>2. Debts /\ Standing
      BY DebtsInit DEF Init, ExportInit, Standing
    <2>3. SentInv
      BY DEF Init, SentInv
    <2>4. ASSUME NEW h \in Hosts PROVE HostInv(h)
      <3>1. inbox[h] = <<>> /\ pending[h] = <<>> /\ done[h] = <<>>
        BY DEF Init
      <3>2. Len(inbox[h]) = 0 /\ Len(pending[h]) = 0 /\ Len(done[h]) = 0 /\ Steps(h) = 1..0
        BY <3>1, EmptySeq DEF Steps
      <3>3. 1..Len(inbox[h]) = {} /\ 1..Len(done[h]) = {} /\ Steps(h) = {}
        BY <3>2
      <3> QED BY <3>3 DEF HostInv, AskedInv, InboxInv, InOrder, Copies, Excused
    <2> QED BY <2>1, <2>2, <2>3, <2>4 DEF ToolInv
  <1>2. ToolInv /\ [Next]_vars => ToolInv'
    <2> SUFFICES ASSUME ToolInv, [Next]_vars PROVE ToolInv'
      OBVIOUS
    <2> USE DEF ToolInv
    <2>1. ToolTypeOK' /\ SentInv'
      BY ToolTypeNext, SentNext
    <2>2. Debts' /\ Standing'
      BY ExportStep, DebtsNext, StandingNext DEF ToolTypeOK
    <2>3. ASSUME NEW h \in Hosts PROVE HostInv(h)'
      <3>1. AskedInv(h) /\ InboxInv(h) /\ InOrder(h) /\ Copies(h) /\ Excused(h)
        BY DEF HostInv
      <3>2. AskedInv(h)' /\ InboxInv(h)' /\ InOrder(h)'
        BY <3>1, AskedNext, InboxNext, OrderNext
      <3>3. Copies(h)' /\ Excused(h)'
        BY <3>1, CopiesNext, ExcusedNext
      <3> QED BY <3>2, <3>3 DEF HostInv
    <2> QED BY <2>1, <2>2, <2>3
  <1> QED BY <1>1, <1>2, PTL DEF Spec

\* A host runs and queues only what a request sent to it asks for, whatever is
\* lost and whichever order requests arrive in.
THEOREM HostsDoWhatIsAsked == Spec => []OnlyWhatWasAsked
  <1>1. ToolInv => OnlyWhatWasAsked
    <2> SUFFICES ASSUME ToolInv, NEW h \in Hosts,
                        NEW cmd \in Range(pending[h]) \cup Range(done[h])
                 PROVE  Asked(h, cmd)
      BY DEF OnlyWhatWasAsked, Asked
    <2> USE DEF ToolInv, HostInv
    <2>1. CASE cmd \in Range(pending[h])
      <3>1. PICK i \in 1..Len(pending[h]) : cmd = pending[h][i]
        BY <2>1, LenProperties DEF Range, ToolTypeOK
      <3> DEFINE n == Len(done[h])
                 m == Len(pending[h])
      <3>2. n \in Nat /\ m \in Nat /\ Steps(h) = 1..(n + m) /\ i \in 1..m
            /\ Trace(h)[n + i] = cmd
        BY <3>1, TraceType DEF ToolTypeOK, Steps, Trace
      <3> HIDE DEF n, m
      <3>3. n + i \in Steps(h)
        BY <3>2
      <3> QED BY <3>2, <3>3 DEF AskedInv
    <2>2. CASE cmd \in Range(done[h])
      <3>1. PICK i \in 1..Len(done[h]) : cmd = done[h][i]
        BY <2>2, LenProperties DEF Range, ToolTypeOK
      <3>2. i \in Steps(h) /\ Trace(h)[i].req = cmd.req /\ Trace(h)[i].kind = cmd.kind
        BY <3>1, DoneInTrace
      <3> QED BY <3>2 DEF AskedInv, Asked
    <2> QED BY <2>1, <2>2
  <1> QED BY <1>1, ToolInvariant, PTL

\* Packages and scripts find every file that the copy of their own request
\* brought, as new as when the request left, however many requests are queued,
\* whatever the copy left out and whatever older requests left behind.
THEOREM OwnFilesFirst == Spec => []PackagesUseItsFiles
  <1>1. ToolInv => PackagesUseItsFiles
    <2> SUFFICES ASSUME ToolInv, NEW h \in Hosts, NEW i \in DOMAIN done[h], NEW j \in DOMAIN done[h],
                        done[h][i].req = done[h][j].req, NEW x \in done[h][i].copied,
                        done[h][j].kind \in {"pkg", "script"}
                 PROVE  Fresh(done[h][j].used[x], done[h][j].req)
      BY DEF PackagesUseItsFiles, Fresh
    <2> USE DEF ToolInv, HostInv
    <2>1. i \in 1..Len(done[h]) /\ j \in 1..Len(done[h]) /\ Len(done[h]) \in Nat
      BY LenProperties DEF ToolTypeOK
    <2>2. done[h][i].kind = "file"
      BY <2>1 DEF Copies
    <2>3. CASE i < j
      BY <2>1, <2>3 DEF Copies
    <2>4. CASE i = j
      BY <2>2, <2>4
    <2>5. CASE j < i
      <3>1. /\ i \in Steps(h) /\ j \in Steps(h) /\ Trace(h)[j].req = Trace(h)[i].req
            /\ Trace(h)[i].kind = "file"
        BY <2>1, <2>2, DoneInTrace
      <3> QED BY <2>5, <3>1 DEF InOrder
    <2>6. i < j \/ i = j \/ j < i
      <3> DEFINE n == Len(done[h])
      <3>1. n \in Nat /\ i \in 1..n /\ j \in 1..n
        BY <2>1
      <3> HIDE DEF n
      <3> QED BY <3>1
    <2> QED BY <2>3, <2>4, <2>5, <2>6
  <1> QED BY <1>1, ToolInvariant, PTL

\* Hosts find the directory exported unless their run's own export failed or
\* the administrator stepped in.
THEOREM FilesStayExported == Spec => []ExportHolds
  <1>1. ToolInv => ExportHolds
    <2> SUFFICES ASSUME ToolInv, NEW h \in Hosts, NEW cmd \in Range(done[h]), ~cmd.exported
                 PROVE  ~result[cmd.req] \/ unwritten[cmd.req] \/ admin > 0
      BY DEF ExportHolds
    <2>1. PICK i \in 1..Len(done[h]) : cmd = done[h][i]
      BY LenProperties DEF Range, ToolInv, ToolTypeOK
    <2> QED BY <2>1 DEF ToolInv, HostInv, Excused
  <1> QED BY <1>1, ToolInvariant, PTL

-----------------------------------------------------------------------------
(***************************************************************************)
(* Each host, seen alone, is the abstract CommandService.                  *)
(***************************************************************************)
Ran(d) == [i \in DOMAIN d |-> [req |-> d[i].req, kind |-> d[i].kind]]

LEMMA RanAppend ==
    ASSUME NEW d \in Seq(Finished), NEW e \in Finished
    PROVE  Ran(Append(d, e)) = Append(Ran(d), [req |-> e.req, kind |-> e.kind])
  <1> DEFINE R(c) == [req |-> c.req, kind |-> c.kind]
             d1 == Append(d, e)
             r == Ran(d)
             r1 == Append(r, R(e))
             n == Len(d)
  <1>1. n \in Nat /\ DOMAIN d = 1..n /\ DOMAIN d1 = 1..(n + 1) /\ d1[n + 1] = e
        /\ \A i \in 1..n : d1[i] = d[i]
    BY LenProperties, AppendProperties
  <1>2. \A c \in Finished : R(c) \in Cmd
    <2> SUFFICES ASSUME NEW c \in Finished PROVE R(c) \in Cmd
      OBVIOUS
    <2>1. c.req \in Runs /\ c.kind \in AllKinds
      BY DEF Finished
    <2> QED BY <2>1 DEF Cmd
  <1>3. \A i \in 1..n : R(d[i]) \in Cmd
    <2>1. \A i \in 1..n : d[i] \in Finished
      BY ElementOfSeq
    <2> HIDE DEF R
    <2> QED BY <1>2, <2>1
  <1>4. r = [i \in 1..n |-> R(d[i])]
    BY <1>1 DEF Ran
  <1>5. Ran(d1) = [i \in 1..(n + 1) |-> R(d1[i])]
    BY <1>1 DEF Ran
  <1>6. R(e) \in Cmd
    BY <1>2
  <1> HIDE DEF R, d1, r, n
  <1>7. r \in Seq(Cmd)
    BY <1>1, <1>3, <1>4, IsASeq
  <1>8. DOMAIN r1 = 1..(n + 1) /\ r1 = [i \in DOMAIN r1 |-> r1[i]]
        /\ r1[n + 1] = R(e) /\ \A i \in 1..n : r1[i] = r[i]
    <2>1. Len(r) = n
      BY <1>1, <1>4, <1>7, LenProperties
    <2>2. r1 \in Seq(Cmd) /\ Len(r1) = n + 1
      BY <1>6, <1>7, <2>1, AppendProperties
    <2>3. r1[n + 1] = R(e) /\ \A i \in 1..n : r1[i] = r[i]
      BY <1>6, <1>7, <2>1, AppendProperties
    <2> HIDE DEF r1
    <2>4. r1 \in [1..(n + 1) -> Cmd]
      BY <2>2, LenProperties
    <2> QED BY <2>3, <2>4
  <1> HIDE DEF r1
  <1>9. ASSUME NEW i \in 1..(n + 1) PROVE r1[i] = R(d1[i])
    <2>1. CASE i = n + 1
      BY <1>1, <1>8, <2>1
    <2>2. CASE i # n + 1
      <3>1. i \in 1..n
        BY <1>1, <2>2
      <3> QED BY <1>1, <1>4, <1>8, <3>1
    <2> QED BY <2>1, <2>2
  <1>10. r1 = Ran(d1)
    BY <1>5, <1>8, <1>9
  <1> QED BY <1>10 DEF r1, r, d1, R

\* A step of the tool is for each host a step of the service or none.
LEMMA HostServes ==
    ASSUME ToolTypeOK, [Next]_vars, NEW h \in Hosts
    PROVE  Service(h)!Next \/ UNCHANGED Service(h)!vars
  <1> USE DEF ToolTypeOK
  <1>1. ASSUME UNCHANGED <<pending[h], done[h], up[h]>>
        PROVE  UNCHANGED Service(h)!vars
    BY <1>1 DEF Service!vars
  <1>2. CASE EditFiles \/ AdminStep \/ UNCHANGED vars
    BY <1>1, <1>2 DEF EditFiles, AdminStep, vars, hosts
  <1>3. ASSUME NEW r \in Runs, Parse(r) \/ ExportShare(r) \/ Send(r)
        PROVE  UNCHANGED Service(h)!vars
    BY <1>1, <1>3 DEF Parse, ExportShare, Send, SendTo, hosts
  <1>4. ASSUME NEW g \in Hosts, g # h, Accept(g) \/ Run(g) \/ Die(g)
        PROVE  UNCHANGED Service(h)!vars
    BY <1>1, <1>4 DEF Accept, Run, Finish, Die
  <1>5. ASSUME Accept(h) PROVE Service(h)!Accept \/ UNCHANGED Service(h)!vars
    <2> DEFINE r == Head(inbox[h])
               b == Batch(r, request[r].sig)
    <2>1. b \in AllBatches
      <3>1. r \in Runs /\ request[r].sig \in SUBSET Kinds
        BY <1>5, HeadTailProperties DEF Accept
      <3> HIDE DEF r
      <3> QED BY ONLY <3>1 DEF AllBatches
    <2>2. UNCHANGED <<done, up>> /\ up[h]
      BY <1>5 DEF Accept
    <2>3. pending'[h] = pending[h] \/ pending'[h] = pending[h] \o b
      BY <1>5 DEF Accept
    <2> HIDE DEF b
    <2>4. CASE pending'[h] = pending[h]
      BY <1>1, <2>2, <2>4
    <2>5. CASE pending'[h] = pending[h] \o b
      BY <2>1, <2>2, <2>5 DEF Service!Accept
    <2> QED BY <2>3, <2>4, <2>5
  <1>6. ASSUME Run(h) PROVE Service(h)!Run
    <2> DEFINE cmd == Head(pending[h])
    <2>1. /\ up[h] /\ up' = up /\ pending[h] # <<>> /\ pending'[h] = Tail(pending[h])
      BY <1>6 DEF Run
    <2>2. PICK e : done'[h] = Append(done[h], e) /\ e.req = cmd.req /\ e.kind = cmd.kind
      <3> DEFINE E(part) == [req |-> cmd.req, kind |-> cmd.kind, copied |-> part,
                             exported |-> Exported(cmd), used |-> files[h]]
      <3>1. PICK part : Finish(h, cmd, part)
        BY <1>6 DEF Run
      <3>2. done'[h] = Append(done[h], E(part))
        BY <3>1 DEF Finish
      <3>3. E(part).req = cmd.req /\ E(part).kind = cmd.kind
        OBVIOUS
      <3> HIDE DEF E
      <3> QED BY <3>2, <3>3
    <2>3. cmd = [req |-> cmd.req, kind |-> cmd.kind]
      <3>1. cmd \in Cmd
        BY <2>1, HeadTailProperties
      <3> QED BY <3>1 DEF Cmd
    <2>4. e \in Finished
      <3>1. done'[h] \in Seq(Finished)
        BY HostTypeNext
      <3>2. Len(done[h]) \in Nat /\ Len(done'[h]) = Len(done[h]) + 1
            /\ done'[h][Len(done[h]) + 1] = e
        BY <2>2, LenProperties, AppendProperties
      <3> QED BY <3>1, <3>2, ElementOfSeq
    <2>5. Ran(done'[h]) = Append(Ran(done[h]), cmd)
      <3>1. Ran(Append(done[h], e)) = Append(Ran(done[h]), [req |-> e.req, kind |-> e.kind])
        BY <2>4, RanAppend
      <3> QED BY <2>2, <2>3, <3>1
    <2> HIDE DEF cmd
    <2>6. [i \in DOMAIN done[h] |-> [req |-> done[h][i].req, kind |-> done[h][i].kind]]' =
          Append([i \in DOMAIN done[h] |-> [req |-> done[h][i].req, kind |-> done[h][i].kind]], cmd)
      BY <2>5 DEF Ran
    <2> QED BY <2>1, <2>6 DEF Service!Run, cmd
  <1>7. ASSUME Die(h) PROVE Service(h)!Die
    BY <1>7 DEF Die, Service!Die
  <1>8. ASSUME NEW g \in Hosts, Accept(g) \/ Run(g) \/ Die(g)
        PROVE  Service(h)!Next \/ UNCHANGED Service(h)!vars
    <2>1. CASE g # h BY <1>4, <1>8, <2>1
    <2>2. CASE g = h BY <1>5, <1>6, <1>7, <1>8, <2>2 DEF Service!Next
    <2> QED BY <2>1, <2>2
  <1> QED BY <1>2, <1>3, <1>8 DEF Next

\* Every host implements the abstract service: whole batches enter in the order
\* the requests are taken, commands finish in that order, and death is final.
THEOREM HostsServe == Spec => HostsAreServices
  <1>1. Init => \A h \in Hosts : Service(h)!Init
    <2> SUFFICES ASSUME Init, NEW h \in Hosts PROVE Service(h)!Init
      OBVIOUS
    <2>1. pending[h] = <<>> /\ up[h] = TRUE /\ done[h] = <<>>
      BY DEF Init
    <2>2. [i \in DOMAIN done[h] |-> [req |-> done[h][i].req, kind |-> done[h][i].kind]] = <<>>
      BY <2>1
    <2> QED BY <2>1, <2>2 DEF Service!Init
  <1>2. ToolInv /\ [Next]_vars =>
          [\A h \in Hosts : Service(h)!Next \/ UNCHANGED Service(h)!vars]_vars
    BY HostServes DEF ToolInv
  <1> QED BY <1>1, <1>2, ToolInvariant, PTL DEF Spec, HostsAreServices
=============================================================================
