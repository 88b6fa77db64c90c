------------------------- MODULE PicPublisherProofs -------------------------
(***************************************************************************)
(* Proofs about PicPublisher: for any number of collectors, any processes, *)
(* any size of the table, and with collectors killed anywhere.             *)
(***************************************************************************)
EXTENDS PicPublisher, TLAPS, SequenceTheorems, WellFoundedInduction

-----------------------------------------------------------------------------
(***************************************************************************)
(* The inductive invariant:                                                *)
(*   Scanned   of the processes that readdir has passed, every row is in   *)
(*             order, and who lived through the scan so far has one;       *)
(*   Written   a private file holds a table as a scan left it, or the     *)
(*             rows of it that the disk took, and is closed before it can  *)
(*             be renamed;                                                 *)
(*   Shown     so is the published file.                                   *)
(* AbsentOnlyInBetween is inductive with these.                            *)
(***************************************************************************)
Tables == [state : {"partial", "short", "whole"}, rows : Seq(Rows), through : SUBSET Pids]

PicTypeOK ==
    /\ alive \subseteq Pids /\ churn \in 0..MaxChurn
    /\ published \in BOOLEAN /\ hole \in BOOLEAN
    /\ pc \in [Collectors -> Steps] /\ scans \in [Collectors -> 0..MaxScans]
    /\ cursor \in [Collectors -> {0} \cup Pids] /\ rec \in [Collectors -> {0} \cup Pids]
    /\ procs \in [Collectors -> Seq(Rows)] /\ through \in [Collectors -> SUBSET Pids]
    /\ tmp \in [Collectors -> Tables \cup {None}] /\ file \in Tables \cup {None}

InOrder(rows) ==
    \A i \in 1..Len(rows) :
        /\ rows[i].pid \notin Spaced => rows[i].rest = rows[i].pid
        /\ rows[i].rest \notin InitGroup
        /\ \A j \in 1..(i - 1) : rows[j].pid < rows[i].pid

Shows(rows, p) == \E i \in 1..Len(rows) : rows[i].pid = p

\* The processes that have a right to a row.
Due(c) == through[c] \ (InitGroup \cup Spaced)

TableOK(rows, ps) ==
    /\ Len(rows) < MAX_PROC_ENT /\ InOrder(rows)
    /\ \A p \in ps \ (InitGroup \cup Spaced) : Shows(rows, p) \/ Len(rows) = MAX_PROC_ENT - 1

FileOK(f) ==
    /\ InOrder(f.rows)
    /\ f.state # "short" => TableOK(f.rows, f.through)

Passed(c) == {p \in Pids : p < cursor[c] \/ (p = cursor[c] /\ pc[c] = "scan")}

Scanned(c) ==
    /\ through[c] \subseteq alive
    /\ Len(procs[c]) < MAX_PROC_ENT
    /\ pc[c] \in {"scan", "stat"} =>
          /\ InOrder(procs[c]) /\ Len(procs[c]) < MAX_PROC_ENT - 1
          /\ \A i \in 1..Len(procs[c]) : procs[c][i].pid \in Passed(c)
          /\ \A p \in Due(c) \cap Passed(c) : Shows(procs[c], p)
    /\ pc[c] = "fopen" => TableOK(procs[c], through[c])

Written(c) ==
    /\ tmp[c] # None => FileOK(tmp[c])
    /\ pc[c] \in {"fclose", "unlink", "rename"} => tmp[c] # None
    /\ pc[c] = "fclose" => tmp[c].state = "partial"
    /\ pc[c] \in {"unlink", "rename"} => tmp[c].state # "partial"

Shown == file # None => file.state # "partial" /\ FileOK(file)

PicInv ==
    /\ PicTypeOK /\ Shown /\ AbsentOnlyInBetween
    /\ \A c \in Collectors : Scanned(c) /\ Written(c)

LEMMA NoneIsNoTable ==
    /\ None.state = "none" /\ None \notin Tables
    /\ \A f \in Tables : f # None /\ f.state # "none"
  <1>1. None.state = "none"
    BY DEF None
  <1>2. \A f \in Tables : f.state # "none"
    BY DEF Tables
  <1> QED BY <1>1, <1>2

LEMMA SmallestIs ==
    ASSUME NEW T \in SUBSET Nat, T # {}
    PROVE  \E x \in T : \A y \in T : x <= y
  <1>1. PICK x \in T : \A y \in T : ~(<<y, x>> \in OpToRel(<, Nat))
    BY NatLessThanWellFounded, WFMin
  <1>2. ASSUME NEW y \in T PROVE x <= y
    <2>1. ~(y < x)
      BY <1>1 DEF OpToRel
    <2> QED BY <2>1
  <1> QED BY <1>2

\* What one collector does.
CollectorStep(c) ==
    \/ Kill(c) \/ Begin(c) \/ ReadDir(c) \/ StatGone(c) \/ Stat(c)
    \/ Fopen(c) \/ Fclose(c) \/ Unlink(c) \/ Rename(c) \/ Tidy(c)

\* It touches nothing of another collector's.
LEMMA OthersUntouched ==
    ASSUME PicTypeOK, NEW c \in Collectors, NEW d \in Collectors, c # d, CollectorStep(c)
    PROVE  /\ pc'[d] = pc[d] /\ cursor'[d] = cursor[d] /\ procs'[d] = procs[d]
           /\ through'[d] = through[d] /\ tmp'[d] = tmp[d] /\ alive' = alive
  <1> USE DEF PicTypeOK, local, files, Goto, LogsTwoArgs
  <1>1. CASE Kill(c) BY <1>1 DEF Kill
  <1>2. CASE Begin(c) BY <1>2 DEF Begin
  <1>3. CASE ReadDir(c) BY <1>3 DEF ReadDir
  <1>4. CASE StatGone(c) BY <1>4 DEF StatGone
  <1>5. CASE Stat(c) BY <1>5 DEF Stat
  <1>6. CASE Fopen(c) BY <1>6 DEF Fopen
  <1>7. CASE Fclose(c) BY <1>7 DEF Fclose
  <1>8. CASE Unlink(c) BY <1>8 DEF Unlink
  <1>9. CASE Rename(c) BY <1>9 DEF Rename
  <1>10. CASE Tidy(c) BY <1>10 DEF Tidy
  <1> QED BY <1>1, <1>2, <1>3, <1>4, <1>5, <1>6, <1>7, <1>8, <1>9, <1>10 DEF CollectorStep

LEMMA LaterProcess ==
    ASSUME PicTypeOK, NEW c \in Collectors, ReadDir(c), pc'[c] = "stat"
    PROVE  /\ cursor'[c] \in alive /\ cursor'[c] \in Pids /\ cursor'[c] > cursor[c]
           /\ \A p \in alive : p < cursor'[c] => p <= cursor[c]
  <1> DEFINE later == {p \in alive : p > cursor[c]}
             next == CHOOSE p \in later : \A q \in later : p <= q
  <1>1. later # {} /\ cursor' = [cursor EXCEPT ![c] = next]
    <2>1. "fopen" # "stat"
      OBVIOUS
    <2> QED BY <2>1 DEF ReadDir, Goto, PicTypeOK
  <1>2. later \in SUBSET Nat /\ alive \subseteq Nat /\ cursor[c] \in Nat
    <2>1. Pids \subseteq Nat
      BY PicAssumption
    <2>2. cursor[c] \in {0} \cup Pids
      BY DEF PicTypeOK
    <2>3. cursor[c] \in Nat
      BY <2>1, <2>2
    <2>4. alive \subseteq Nat
      BY <2>1 DEF PicTypeOK
    <2> QED BY <2>3, <2>4
  <1>3. next \in later /\ \A q \in later : next <= q
    <2> HIDE DEF later
    <2>1. \E p \in later : \A q \in later : p <= q
      BY <1>1, <1>2, SmallestIs
    <2> QED BY <2>1
  <1>4. cursor'[c] = next
    BY <1>1 DEF PicTypeOK
  <1> HIDE DEF next
  <1>5. next \in alive /\ next > cursor[c] /\ next \in Nat /\ next \in Pids
    BY <1>2, <1>3 DEF PicTypeOK
  <1>6. ASSUME NEW p \in alive, p < next PROVE p <= cursor[c]
    <2>1. p \notin later
      BY <1>2, <1>3, <1>5, <1>6
    <2> QED BY <1>2, <2>1
  <1> QED BY <1>4, <1>5, <1>6

(***************************************************************************)
(* Types.                                                                  *)
(***************************************************************************)
LEMMA RowIsRow ==
    ASSUME NEW p \in Pids, NEW q \in {0} \cup Pids
    PROVE  [pid |-> p, rest |-> q] \in Rows
  BY DEF Rows

LEMMA ParsedType ==
    ASSUME PicTypeOK, NEW c \in Collectors
    PROVE  cursor[c] \in alive => cursor[c] \in Pids /\ Parsed(c, cursor[c]) \in {0} \cup Pids
  BY DEF PicTypeOK, Parsed

LEMMA ContentsType ==
    ASSUME PicTypeOK, NEW c \in Collectors
    PROVE  /\ Contents(c, "partial") \in Tables
           /\ Contents(c, "partial").rows = procs[c] /\ Contents(c, "partial").through = through[c]
  BY DEF PicTypeOK, Contents, Tables

LEMMA GotoType ==
    ASSUME PicTypeOK, NEW c \in Collectors, NEW s \in Steps, Goto(c, s)
    PROVE  pc' \in [Collectors -> Steps] /\ pc'[c] = s
  BY DEF PicTypeOK, Goto

LEMMA ClosedWhole ==
    ASSUME NEW f \in Tables
    PROVE  /\ [f EXCEPT !.state = "whole"] \in Tables
           /\ [f EXCEPT !.state = "whole"].state = "whole"
           /\ [f EXCEPT !.state = "whole"].rows = f.rows
           /\ [f EXCEPT !.state = "whole"].through = f.through
  BY DEF Tables

LEMMA CutIs ==
    ASSUME NEW f \in Tables, NEW n \in 0..Len(f.rows)
    PROVE  /\ Cut(f, n) \in Tables /\ Cut(f, n).state = "short"
           /\ Len(Cut(f, n).rows) = n
           /\ \A i \in 1..n : i \in 1..Len(f.rows) /\ Cut(f, n).rows[i] = f.rows[i]
  <1> DEFINE part == SubSeq(f.rows, 1, n)
  <1>1. f.rows \in Seq(Rows) /\ Len(f.rows) \in Nat /\ n \in Nat
    BY LenProperties DEF Tables
  <1>2. \A i \in 1..n : i \in 1..Len(f.rows) /\ f.rows[i] \in Rows
    BY <1>1, ElementOfSeq
  <1>3. part \in Seq(Rows) /\ Len(part) = n /\ \A i \in 1..n : part[i] = f.rows[i]
    <2>1. /\ part \in Seq(Rows) /\ Len(part) = IF 1 <= n THEN n - 1 + 1 ELSE 0
          /\ \A i \in 1..(n - 1 + 1) : part[i] = f.rows[1 + i - 1]
      BY <1>1, <1>2, SubSeqProperties
    <2> HIDE DEF part
    <2> QED BY <1>1, <2>1
  <1> HIDE DEF part
  <1>4. Cut(f, n) = [f EXCEPT !.state = "short", !.rows = part]
    BY DEF Cut, part
  <1>5. Cut(f, n) \in Tables /\ Cut(f, n).state = "short" /\ Cut(f, n).rows = part
    BY <1>3, <1>4 DEF Tables
  <1> QED BY <1>2, <1>3, <1>5

LEMMA CutIsOK ==
    ASSUME NEW f \in Tables, NEW n \in 0..Len(f.rows), InOrder(f.rows)
    PROVE  FileOK(Cut(f, n))
  <1> DEFINE g == Cut(f, n)
  <1>1. /\ g.state = "short" /\ Len(g.rows) = n
        /\ \A i \in 1..n : i \in 1..Len(f.rows) /\ g.rows[i] = f.rows[i]
    BY CutIs
  <1> HIDE DEF g
  <1>2. n \in Nat
    OBVIOUS
  <1>3. ASSUME NEW i \in 1..Len(g.rows)
        PROVE  /\ g.rows[i].pid \notin Spaced => g.rows[i].rest = g.rows[i].pid
               /\ g.rows[i].rest \notin InitGroup
               /\ \A j \in 1..(i - 1) : g.rows[j].pid < g.rows[i].pid
    <2>1. i \in 1..n /\ \A j \in 1..(i - 1) : j \in 1..n
      BY <1>1, <1>2
    <2> QED BY <1>1, <2>1 DEF InOrder
  <1>4. FileOK(g)
    BY <1>1, <1>3 DEF FileOK, InOrder
  <1> QED BY <1>4 DEF g

LEMMA FcloseWrites ==
    ASSUME NEW c \in Collectors, tmp[c] \in Tables, tmp[c].state = "partial", FileOK(tmp[c]),
           Fclose(c)
    PROVE  \E f \in Tables :
              tmp' = [tmp EXCEPT ![c] = f] /\ f.state # "partial" /\ FileOK(f)
  <1>1. CASE tmp' = [tmp EXCEPT ![c].state = "whole"]
    <2> DEFINE t == tmp[c]
               f == [t EXCEPT !.state = "whole"]
    <2>1. tmp' = [tmp EXCEPT ![c] = f]
      BY <1>1, Zenon
    <2> HIDE DEF t
    <2>2. f \in Tables /\ f.state = "whole" /\ f.rows = t.rows /\ f.through = t.through
      BY ClosedWhole DEF t
    <2>3. TableOK(t.rows, t.through)
      BY DEF t, FileOK
    <2>4. FileOK(f)
      BY <2>2, <2>3 DEF FileOK, TableOK
    <2> HIDE DEF f
    <2> QED BY <2>1, <2>2, <2>4
  <1>2. CASE \E n \in 0..Len(tmp[c].rows) : tmp' = [tmp EXCEPT ![c] = Cut(tmp[c], n)]
    <2>1. PICK n \in 0..Len(tmp[c].rows) : tmp' = [tmp EXCEPT ![c] = Cut(tmp[c], n)]
      BY <1>2
    <2>2. /\ Cut(tmp[c], n) \in Tables /\ Cut(tmp[c], n).state # "partial"
          /\ FileOK(Cut(tmp[c], n))
      BY CutIs, CutIsOK DEF FileOK
    <2> QED BY <2>1, <2>2
  <1> QED BY <1>1, <1>2, Zenon DEF Fclose

LEMMA PicTypeInit == Init => PicTypeOK
  <1> SUFFICES ASSUME Init PROVE PicTypeOK
    OBVIOUS
  <1>1. alive \subseteq Pids
    BY PicAssumption DEF Init
  <1>2. churn \in 0..MaxChurn /\ 0 \in 0..MaxScans
    BY PicAssumption DEF Init
  <1>3. <<>> \in Seq(Rows)
    BY EmptySeq
  <1> QED BY <1>1, <1>2, <1>3 DEF Init, PicTypeOK, Steps

LEMMA PicTypeStep ==
    ASSUME PicTypeOK, NEW c \in Collectors, Written(c), CollectorStep(c)
    PROVE  PicTypeOK'
  <1> USE DEF PicTypeOK, local, files, LogsTwoArgs
  <1>1. CASE Kill(c)
    <2>1. pc' \in [Collectors -> Steps]
      BY <1>1, GotoType DEF Kill, Steps
    <2>2. hole' \in BOOLEAN
      BY <1>1, Zenon DEF Kill
    <2> QED BY <1>1, <2>1, <2>2 DEF Kill
  <1>2. CASE Begin(c)
    <2>1. pc' \in [Collectors -> Steps]
      BY <1>2, GotoType DEF Begin, Steps
    <2>2. scans' \in [Collectors -> 0..MaxScans]
      <3>1. scans[c] \in 0..MaxScans /\ scans[c] < MaxScans /\ scans' = [scans EXCEPT ![c] = scans[c] + 1]
        BY <1>2 DEF Begin
      <3>2. scans[c] + 1 \in 0..MaxScans
        BY <3>1, PicAssumption
      <3> QED BY <3>1, <3>2
    <2>3. cursor' \in [Collectors -> {0} \cup Pids] /\ rec' \in [Collectors -> {0} \cup Pids]
      BY <1>2 DEF Begin
    <2>4. procs' \in [Collectors -> Seq(Rows)] /\ through' \in [Collectors -> SUBSET Pids]
      BY <1>2, EmptySeq DEF Begin
    <2> QED BY <1>2, <2>1, <2>2, <2>3, <2>4 DEF Begin
  <1>3. CASE ReadDir(c)
    <2>1. pc' \in [Collectors -> Steps]
      BY <1>3, GotoType DEF ReadDir, Steps
    <2>2. cursor' \in [Collectors -> {0} \cup Pids]
      <3>1. CASE cursor' = cursor
        BY <3>1
      <3>2. CASE cursor' # cursor
        <4>1. Goto(c, "stat")
          BY <1>3, <3>2 DEF ReadDir
        <4>2. cursor'[c] \in Pids
          BY <1>3, <4>1, LaterProcess DEF Goto
        <4>3. cursor' = [cursor EXCEPT ![c] = cursor'[c]]
          BY <1>3, <3>2 DEF ReadDir
        <4> QED BY <4>2, <4>3
      <3> QED BY <3>1, <3>2
    <2> QED BY <1>3, <2>1, <2>2 DEF ReadDir
  <1>4. CASE StatGone(c)
    <2>1. pc' \in [Collectors -> Steps]
      BY <1>4, GotoType DEF StatGone, Steps
    <2> QED BY <1>4, <2>1 DEF StatGone
  <1>5. CASE Stat(c)
    <2>1. pc' \in [Collectors -> Steps]
      BY <1>5, GotoType DEF Stat, Steps
    <2> DEFINE q == Parsed(c, cursor[c])
               row == [pid |-> cursor[c], rest |-> q]
    <2>2. q \in {0} \cup Pids /\ row \in Rows
      BY <1>5, ParsedType, RowIsRow DEF Stat
    <2>3. /\ rec' = [rec EXCEPT ![c] = q]
          /\ procs' = procs \/ procs' = [procs EXCEPT ![c] = Append(procs[c], row)]
      BY <1>5 DEF Stat
    <2>4. procs' \in [Collectors -> Seq(Rows)]
      <3> HIDE DEF row
      <3>1. Append(procs[c], row) \in Seq(Rows)
        BY <2>2, AppendProperties
      <3> QED BY <2>3, <3>1
    <2>5. rec' \in [Collectors -> {0} \cup Pids]
      <3> HIDE DEF q
      <3> QED BY <2>2, <2>3
    <2> QED BY <1>5, <2>1, <2>4, <2>5 DEF Stat
  <1>6. CASE Fopen(c)
    <2>1. pc' \in [Collectors -> Steps]
      BY <1>6, GotoType DEF Fopen, Steps
    <2>2. tmp' \in [Collectors -> Tables \cup {None}]
      BY <1>6, ContentsType DEF Fopen
    <2> QED BY <1>6, <2>1, <2>2 DEF Fopen
  <1>7. CASE Fclose(c)
    <2>1. pc' \in [Collectors -> Steps]
      BY <1>7, GotoType DEF Fclose, Steps
    <2>2. tmp[c] \in Tables /\ tmp[c].state = "partial" /\ FileOK(tmp[c])
      BY <1>7 DEF Fclose, Written
    <2>3. PICK f \in Tables : tmp' = [tmp EXCEPT ![c] = f]
      BY <1>7, <2>2, FcloseWrites
    <2>4. tmp' \in [Collectors -> Tables \cup {None}]
      BY <2>3
    <2> QED BY <1>7, <2>1, <2>4 DEF Fclose
  <1>8. CASE Unlink(c)
    <2>1. pc' \in [Collectors -> Steps]
      BY <1>8, GotoType DEF Unlink, Steps
    <2> QED BY <1>8, <2>1 DEF Unlink
  <1>9. CASE Rename(c)
    <2>1. pc' \in [Collectors -> Steps]
      BY <1>9, GotoType DEF Rename, Steps
    <2>2. published' \in BOOLEAN /\ hole' \in BOOLEAN
      BY <1>9 DEF Rename
    <2> QED BY <1>9, <2>1, <2>2 DEF Rename
  <1>10. CASE Tidy(c)
    <2>1. pc' \in [Collectors -> Steps]
      BY <1>10, GotoType DEF Tidy, Steps
    <2> QED BY <1>10, <2>1 DEF Tidy
  <1> QED BY <1>1, <1>2, <1>3, <1>4, <1>5, <1>6, <1>7, <1>8, <1>9, <1>10 DEF CollectorStep

(***************************************************************************)
(* The scan.                                                               *)
(***************************************************************************)
\* A row appended behind the others.
LEMMA RowAdded ==
    ASSUME NEW rows \in Seq(Rows), NEW p \in Pids, NEW q \in {0} \cup Pids,
           InOrder(rows), \A i \in 1..Len(rows) : rows[i].pid < p,
           p \notin Spaced => q = p, q \notin InitGroup
    PROVE  LET more == Append(rows, [pid |-> p, rest |-> q]) IN
           /\ InOrder(more) /\ Len(more) = Len(rows) + 1 /\ Len(rows) \in Nat
           /\ Shows(more, p) /\ \A o : Shows(rows, o) => Shows(more, o)
           /\ \A i \in 1..Len(more) : more[i].pid = p \/ \E j \in 1..Len(rows) : more[i].pid = rows[j].pid
  <1> DEFINE row == [pid |-> p, rest |-> q]
             more == Append(rows, row)
             n == Len(rows)
  <1>1. row \in Rows /\ row.pid = p /\ row.rest = q
    BY RowIsRow
  <1> HIDE DEF row
  <1>2. /\ n \in Nat /\ Len(more) = n + 1 /\ more[n + 1] = row
        /\ \A i \in 1..n : more[i] = rows[i]
    BY <1>1, LenProperties, AppendProperties
  <1> HIDE DEF more
  <1>3. ASSUME NEW i \in 1..(n + 1)
        PROVE  /\ more[i].pid \notin Spaced => more[i].rest = more[i].pid
               /\ more[i].rest \notin InitGroup
               /\ \A j \in 1..(i - 1) : more[j].pid < more[i].pid
               /\ more[i].pid = p \/ \E j \in 1..n : more[i].pid = rows[j].pid
    <2>1. CASE i = n + 1
      <3>1. \A j \in 1..(i - 1) : j \in 1..n
        BY <1>2, <2>1
      <3> QED BY <1>1, <1>2, <2>1, <3>1
    <2>2. CASE i # n + 1
      <3>1. i \in 1..n /\ \A j \in 1..(i - 1) : j \in 1..n
        BY <1>2, <2>2
      <3> QED BY <1>2, <3>1 DEF InOrder
    <2> QED BY <2>1, <2>2
  <1>4. Shows(more, p)
    <2>1. n + 1 \in 1..Len(more)
      BY <1>2
    <2> QED BY <1>1, <1>2, <2>1 DEF Shows
  <1>5. ASSUME NEW o, Shows(rows, o) PROVE Shows(more, o)
    <2>1. PICK i \in 1..n : rows[i].pid = o
      BY <1>5 DEF Shows
    <2>2. i \in 1..Len(more) /\ more[i].pid = o
      BY <1>2, <2>1
    <2> QED BY <2>2 DEF Shows
  <1> QED BY <1>2, <1>3, <1>4, <1>5 DEF InOrder, more, row

LEMMA ScanOthers ==
    ASSUME NEW d \in Collectors, Scanned(d), alive' = alive,
           pc'[d] = pc[d], cursor'[d] = cursor[d], procs'[d] = procs[d], through'[d] = through[d]
    PROVE  Scanned(d)'
  BY DEF Scanned, Due, Passed

LEMMA ScanStep ==
    ASSUME PicTypeOK, NEW c \in Collectors, Scanned(c), CollectorStep(c)
    PROVE  Scanned(c)'
  <1>0. /\ through[c] \subseteq alive /\ alive \subseteq Pids /\ Len(procs[c]) < MAX_PROC_ENT
        /\ procs[c] \in Seq(Rows) /\ Len(procs[c]) \in Nat
        /\ MAX_PROC_ENT \in Nat \ {0, 1}
    BY LenProperties, PicAssumption DEF PicTypeOK, Scanned
  <1>a. cursor[c] \in Nat /\ \A p \in Pids : p \in Nat /\ p > 0
    <2>1. \A p \in Pids : p \in Nat /\ p > 0
      BY PicAssumption
    <2>2. cursor[c] \in {0} \cup Pids
      BY DEF PicTypeOK
    <2> QED BY <2>1, <2>2
  <1>b. ASSUME pc'[c] \notin {"scan", "stat", "fopen"}, UNCHANGED <<alive, through[c], procs[c]>>
        PROVE  Scanned(c)'
    BY <1>0, <1>b DEF Scanned
  <1>1. CASE Kill(c)
    BY <1>1, <1>b DEF Kill, Goto, PicTypeOK
  <1>2. CASE Begin(c)
    <2>1. /\ cursor'[c] = 0 /\ procs'[c] = <<>> /\ through'[c] = alive /\ alive' = alive
          /\ pc'[c] \in {"scan", "sleep"}
      BY <1>2 DEF Begin, Goto, PicTypeOK
    <2>2. Len(procs'[c]) = 0 /\ 1..0 = {}
      BY <2>1, EmptySeq
    <2>3. Passed(c)' = {}
      <3>1. \A p \in Pids : ~(p < 0) /\ p # 0
        BY <1>a
      <3> QED BY <2>1, <3>1 DEF Passed
    <2> QED BY <1>0, <2>1, <2>2, <2>3 DEF Scanned, InOrder
  <1>3. CASE ReadDir(c)
    <2>0. UNCHANGED <<alive, procs, through>> /\ pc[c] = "scan"
      BY <1>3 DEF ReadDir, files
    <2>1. CASE pc'[c] = "stat"
      <3>1. /\ cursor'[c] \in Pids /\ cursor'[c] > cursor[c]
            /\ \A p \in alive : p < cursor'[c] => p <= cursor[c]
        BY <1>3, <2>1, LaterProcess
      <3>2. cursor'[c] \in Nat /\ cursor[c] \in Nat
        BY <1>a, <3>1
      <3>3. ASSUME NEW p \in Passed(c) PROVE p \in Passed(c)'
        <4>0. p \in Pids /\ (p < cursor[c] \/ p = cursor[c])
          BY DEF Passed
        <4>1. p \in Pids /\ p \in Nat /\ p <= cursor[c]
          BY <1>a, <4>0
        <4>2. p < cursor'[c]
          BY <1>a, <3>1, <3>2, <4>1
        <4> QED BY <4>1, <4>2 DEF Passed
      <3>4. ASSUME NEW p \in Due(c) \cap Passed(c)' PROVE p \in Passed(c)
        <4>1. p \in Pids /\ p \in alive /\ p < cursor'[c]
          BY <1>0, <2>1 DEF Due, Passed
        <4>2. p <= cursor[c] /\ p \in Nat
          BY <1>a, <3>1, <4>1
        <4>3. p < cursor[c] \/ p = cursor[c]
          BY <3>2, <4>2
        <4> QED BY <2>0, <4>1, <4>3 DEF Passed
      <3>5. Due(c)' = Due(c)
        BY <2>0 DEF Due
      <3> QED BY <2>0, <2>1, <3>3, <3>4, <3>5 DEF Scanned
    <2>2. CASE pc'[c] # "stat"
      <3>1. pc'[c] = "fopen" /\ \A p \in alive : ~(p > cursor[c])
        BY <1>3, <2>2 DEF ReadDir, Goto, PicTypeOK
      <3>2. ASSUME NEW p \in Due(c) PROVE p \in Passed(c)
        <4>1. p \in Pids /\ ~(p > cursor[c])
          BY <1>0, <3>1 DEF Due
        <4>2. p < cursor[c] \/ p = cursor[c]
          <5>1. p \in Nat /\ cursor[c] \in Nat
            BY <1>a, <4>1
          <5> QED BY <4>1, <5>1
        <4> QED BY <2>0, <4>1, <4>2 DEF Passed
      <3>3. TableOK(procs[c], through[c])
        BY <1>0, <2>0, <3>2 DEF Scanned, TableOK, Due
      <3> QED BY <1>0, <2>0, <3>1, <3>3 DEF Scanned
    <2> QED BY <2>1, <2>2
  <1>4. CASE StatGone(c)
    <2>1. /\ UNCHANGED <<alive, procs, through, cursor>> /\ pc[c] = "stat" /\ cursor[c] \notin alive
          /\ pc'[c] \in {"scan", "dead"}
      BY <1>4 DEF StatGone, LogsTwoArgs, Goto, PicTypeOK, files
    <2>2. CASE pc'[c] = "dead"
      BY <1>b, <2>1, <2>2
    <2>3. CASE pc'[c] = "scan"
      <3>1. Passed(c) \subseteq Passed(c)' /\ Passed(c)' \subseteq Passed(c) \cup {cursor[c]}
        BY <2>1, <2>3 DEF Passed
      <3>2. cursor[c] \notin Due(c) /\ Due(c)' = Due(c)
        BY <1>0, <2>1 DEF Due
      <3> QED BY <1>0, <2>1, <2>3, <3>1, <3>2 DEF Scanned
    <2> QED BY <2>1, <2>2, <2>3
  <1>5. CASE Stat(c)
    <2> DEFINE p == cursor[c]
               q == Parsed(c, p)
               row == [pid |-> p, rest |-> q]
    <2>1. /\ UNCHANGED <<alive, through, cursor>> /\ pc[c] = "stat" /\ p \in alive
          /\ p \in Pids /\ q \in {0} \cup Pids /\ (p \notin Spaced => q = p)
      BY <1>5, ParsedType DEF Stat, files, Parsed
    <2>2. /\ InOrder(procs[c]) /\ Len(procs[c]) < MAX_PROC_ENT - 1
          /\ \A i \in 1..Len(procs[c]) : procs[c][i].pid \in Passed(c)
          /\ \A o \in Due(c) \cap Passed(c) : Shows(procs[c], o)
      BY <2>1 DEF Scanned
    <2>3. \A o \in Passed(c) : o \in Pids /\ o < p
      BY <2>1 DEF Passed
    <2>4. pc'[c] = "scan" => /\ Passed(c) \subseteq Passed(c)' /\ p \in Passed(c)'
                             /\ Passed(c)' \subseteq Passed(c) \cup {p}
      BY <2>1 DEF Passed
    <2>5. Due(c)' = Due(c)
      BY <2>1 DEF Due
    <2>6. CASE q \in InitGroup
      <3>1. procs' = procs /\ pc'[c] = "scan"
        BY <1>5, <2>6 DEF Stat, Goto, PicTypeOK
      <3>2. p \notin Due(c)
        BY <2>1, <2>6 DEF Due
      <3> QED BY <1>0, <2>1, <2>2, <2>4, <2>5, <3>1, <3>2 DEF Scanned
    <2>7. CASE q \notin InitGroup
      <3>1. /\ procs'[c] = Append(procs[c], row)
            /\ pc'[c] = IF Len(procs[c]) + 1 = MAX_PROC_ENT - 1 THEN "fopen" ELSE "scan"
        BY <1>5, <2>7 DEF Stat, Goto, PicTypeOK
      <3>2. \A i \in 1..Len(procs[c]) : procs[c][i].pid < p
        BY <2>2, <2>3
      <3> HIDE DEF q
      <3>3. /\ InOrder(procs'[c]) /\ Len(procs'[c]) = Len(procs[c]) + 1
            /\ Shows(procs'[c], p) /\ \A o : Shows(procs[c], o) => Shows(procs'[c], o)
            /\ \A i \in 1..Len(procs'[c]) :
                  procs'[c][i].pid = p \/ \E j \in 1..Len(procs[c]) : procs'[c][i].pid = procs[c][j].pid
        BY <1>0, <2>1, <2>2, <2>7, <3>1, <3>2, RowAdded
      <3>4. CASE Len(procs[c]) + 1 = MAX_PROC_ENT - 1
        <4>1. pc'[c] = "fopen" /\ Len(procs'[c]) = MAX_PROC_ENT - 1
          BY <3>1, <3>3, <3>4
        <4>2. Len(procs'[c]) < MAX_PROC_ENT
          BY <1>0, <4>1
        <4> QED BY <1>0, <2>1, <3>3, <4>1, <4>2 DEF Scanned, TableOK
      <3>5. CASE Len(procs[c]) + 1 # MAX_PROC_ENT - 1
        <4>1. pc'[c] = "scan"
          BY <3>1, <3>5
        <4>2. Len(procs'[c]) < MAX_PROC_ENT - 1 /\ Len(procs'[c]) < MAX_PROC_ENT
          BY <1>0, <2>2, <3>3, <3>5
        <4>3. \A i \in 1..Len(procs'[c]) : procs'[c][i].pid \in Passed(c)'
          BY <2>2, <2>4, <3>3, <4>1
        <4>4. \A o \in Due(c)' \cap Passed(c)' : Shows(procs'[c], o)
          BY <2>2, <2>4, <2>5, <3>3, <4>1
        <4> QED BY <1>0, <2>1, <3>3, <4>1, <4>2, <4>3, <4>4 DEF Scanned
      <3> QED BY <3>4, <3>5
    <2> QED BY <2>6, <2>7
  <1>6. CASE Fopen(c)
    BY <1>6, <1>b DEF Fopen, LogsTwoArgs, Goto, PicTypeOK
  <1>7. CASE Fclose(c)
    <2>1. pc'[c] = "unlink" /\ UNCHANGED <<alive, through, procs>>
      BY <1>7, Zenon DEF Fclose, Goto, PicTypeOK
    <2> QED BY <1>b, <2>1
  <1>8. CASE Unlink(c)
    BY <1>8, <1>b DEF Unlink, LogsTwoArgs, Goto, PicTypeOK
  <1>9. CASE Rename(c)
    BY <1>9, <1>b DEF Rename, LogsTwoArgs, Goto, PicTypeOK
  <1>10. CASE Tidy(c)
    BY <1>10, <1>b DEF Tidy, Goto, PicTypeOK
  <1> QED BY <1>1, <1>2, <1>3, <1>4, <1>5, <1>6, <1>7, <1>8, <1>9, <1>10 DEF CollectorStep

(***************************************************************************)
(* The files.                                                              *)
(***************************************************************************)
LEMMA WriteOthers ==
    ASSUME NEW d \in Collectors, Written(d), pc'[d] = pc[d], tmp'[d] = tmp[d]
    PROVE  Written(d)'
  BY DEF Written

LEMMA WriteStep ==
    ASSUME PicTypeOK, NEW c \in Collectors, Scanned(c), Written(c), CollectorStep(c)
    PROVE  Written(c)'
  <1> USE DEF PicTypeOK, local, files, LogsTwoArgs, Goto
  <1>a. ASSUME tmp'[c] = tmp[c], pc'[c] \notin {"fclose", "unlink", "rename"} PROVE Written(c)'
    BY <1>a DEF Written
  <1>1. CASE Kill(c) BY <1>1, <1>a DEF Kill
  <1>2. CASE Begin(c) BY <1>2, <1>a DEF Begin
  <1>3. CASE ReadDir(c) BY <1>3, <1>a DEF ReadDir
  <1>4. CASE StatGone(c) BY <1>4, <1>a DEF StatGone
  <1>5. CASE Stat(c) BY <1>5, <1>a DEF Stat
  <1>6. CASE Fopen(c)
    <2>1. CASE Goto(c, "fclose") /\ tmp' = [tmp EXCEPT ![c] = Contents(c, "partial")]
      <3>1. /\ Contents(c, "partial") \in Tables
            /\ Contents(c, "partial").rows = procs[c] /\ Contents(c, "partial").through = through[c]
        BY ContentsType
      <3>2. Contents(c, "partial") # None
        BY <3>1, NoneIsNoTable
      <3>3. TableOK(procs[c], through[c])
        BY <1>6 DEF Fopen, Scanned
      <3>4. tmp'[c] = Contents(c, "partial") /\ pc'[c] = "fclose"
        BY <2>1
      <3>5. Contents(c, "partial").state = "partial"
        BY DEF Contents
      <3> QED BY <3>1, <3>2, <3>3, <3>4, <3>5 DEF Written, FileOK, TableOK
    <2>2. CASE LogsTwoArgs(c, "sleep") /\ UNCHANGED tmp
      BY <2>2, <1>a
    <2> QED BY <1>6, <2>1, <2>2 DEF Fopen
  <1>7. CASE Fclose(c)
    <2>1. tmp[c] \in Tables /\ tmp[c].state = "partial" /\ FileOK(tmp[c])
      BY <1>7 DEF Fclose, Written
    <2>2. PICK f \in Tables : tmp' = [tmp EXCEPT ![c] = f] /\ f.state # "partial" /\ FileOK(f)
      BY <1>7, <2>1, FcloseWrites
    <2>3. tmp'[c] = f /\ f # None
      BY <2>2, NoneIsNoTable
    <2>4. pc'[c] = "unlink"
      BY <1>7, Zenon DEF Fclose
    <2> QED BY <2>2, <2>3, <2>4 DEF Written
  <1>8. CASE Unlink(c) BY <1>8 DEF Unlink, Written
  <1>9. CASE Rename(c)
    BY <1>9, <1>a DEF Rename, Written
  <1>10. CASE Tidy(c) BY <1>10 DEF Tidy, Written
  <1> QED BY <1>1, <1>2, <1>3, <1>4, <1>5, <1>6, <1>7, <1>8, <1>9, <1>10 DEF CollectorStep

\* Only rename publishes, and it publishes a closed private file.
LEMMA FileStep ==
    ASSUME PicTypeOK, NEW c \in Collectors, Written(c), CollectorStep(c)
    PROVE  \/ file' = file /\ published' = published
           \/ Unlink(c) /\ file' = None /\ published' = published /\ pc'[c] = "rename"
           \/ Rename(c) /\ file' = tmp[c] /\ tmp[c] # None
  <1> USE DEF files
  <1>1. CASE Kill(c) BY <1>1 DEF Kill
  <1>2. CASE Begin(c) BY <1>2 DEF Begin
  <1>3. CASE ReadDir(c) BY <1>3 DEF ReadDir
  <1>4. CASE StatGone(c) BY <1>4 DEF StatGone
  <1>5. CASE Stat(c) BY <1>5 DEF Stat
  <1>6. CASE Fopen(c) BY <1>6 DEF Fopen
  <1>7. CASE Fclose(c) BY <1>7, Zenon DEF Fclose
  <1>8. CASE Unlink(c) BY <1>8 DEF Unlink, Goto, LogsTwoArgs, PicTypeOK
  <1>9. CASE Rename(c) BY <1>9 DEF Rename, Written
  <1>10. CASE Tidy(c) BY <1>10 DEF Tidy
  <1> QED BY <1>1, <1>2, <1>3, <1>4, <1>5, <1>6, <1>7, <1>8, <1>9, <1>10 DEF CollectorStep

LEMMA ShownStep ==
    ASSUME PicTypeOK, NEW c \in Collectors, Written(c), Shown, CollectorStep(c)
    PROVE  Shown'
  <1>1. CASE Rename(c) /\ file' = tmp[c] /\ tmp[c] # None
    BY <1>1 DEF Rename, Written, Shown
  <1>2. CASE file' = file \/ file' = None
    BY <1>2 DEF Shown
  <1> QED BY <1>1, <1>2, FileStep

\* What leaves the gap between unlink and rename otherwise than by publishing
\* leaves a trace.
LEMMA GapStep ==
    ASSUME PicTypeOK, NEW c \in Collectors, CollectorStep(c)
    PROVE  /\ hole => hole'
           /\ pc[c] = "rename" => hole' \/ file' = tmp[c]
  <1> USE DEF files
  <1>1. CASE Kill(c) BY <1>1, Zenon DEF Kill
  <1>2. CASE Begin(c) BY <1>2 DEF Begin
  <1>3. CASE ReadDir(c) BY <1>3 DEF ReadDir
  <1>4. CASE StatGone(c) BY <1>4 DEF StatGone
  <1>5. CASE Stat(c) BY <1>5 DEF Stat
  <1>6. CASE Fopen(c) BY <1>6 DEF Fopen
  <1>7. CASE Fclose(c)
    <2>1. pc[c] = "fclose" /\ hole' = hole
      BY <1>7, Zenon DEF Fclose
    <2> QED BY <2>1
  <1>8. CASE Unlink(c) BY <1>8 DEF Unlink
  <1>9. CASE Rename(c) BY <1>9 DEF Rename
  <1>10. CASE Tidy(c) BY <1>10 DEF Tidy
  <1> QED BY <1>1, <1>2, <1>3, <1>4, <1>5, <1>6, <1>7, <1>8, <1>9, <1>10 DEF CollectorStep

LEMMA AbsentStep ==
    ASSUME PicTypeOK, NEW c \in Collectors, Written(c), AbsentOnlyInBetween, CollectorStep(c)
    PROVE  AbsentOnlyInBetween'
  <1> SUFFICES ASSUME published', file' = None, ~hole'
               PROVE  \E d \in Collectors : pc'[d] = "rename"
    BY DEF AbsentOnlyInBetween
  <1>1. CASE file' = file /\ published' = published
    <2>1. PICK d \in Collectors : pc[d] = "rename"
      BY <1>1, GapStep DEF AbsentOnlyInBetween
    <2>2. d # c
      BY <1>1, <2>1, GapStep DEF Written
    <2>3. pc'[d] = "rename"
      BY <2>1, <2>2, OthersUntouched
    <2> QED BY <2>3
  <1>2. CASE pc'[c] = "rename"
    BY <1>2
  <1> QED BY <1>1, <1>2, FileStep

-----------------------------------------------------------------------------
LEMMA PicInvariant == Spec => []PicInv
  <1>1. Init => PicInv
    <2> SUFFICES ASSUME Init PROVE PicInv
      OBVIOUS
    <2>1. PicTypeOK
      BY PicTypeInit
    <2>2. ASSUME NEW c \in Collectors PROVE Scanned(c) /\ Written(c)
      <3>1. /\ pc[c] = "off" /\ procs[c] = <<>> /\ through[c] = {} /\ tmp[c] = None
        BY <2>2 DEF Init
      <3>2. Len(procs[c]) = 0 /\ 0 < MAX_PROC_ENT
        BY <3>1, EmptySeq, PicAssumption
      <3> QED BY <3>1, <3>2 DEF Scanned, Written
    <2>3. Shown /\ AbsentOnlyInBetween
      BY DEF Init, Shown, AbsentOnlyInBetween
    <2> QED BY <2>1, <2>2, <2>3 DEF PicInv
  <1>2. PicInv /\ [Next]_vars => PicInv'
    <2> SUFFICES ASSUME PicInv, [Next]_vars PROVE PicInv'
      OBVIOUS
    <2> USE DEF PicInv
    <2>1. ASSUME NEW c \in Collectors, CollectorStep(c) PROVE PicInv'
      <3>1. PicTypeOK' /\ Shown' /\ AbsentOnlyInBetween'
        BY <2>1, PicTypeStep, ShownStep, AbsentStep
      <3>2. ASSUME NEW d \in Collectors PROVE Scanned(d)' /\ Written(d)'
        <4>1. CASE d = c
          BY <2>1, <4>1, ScanStep, WriteStep
        <4>2. CASE d # c
          BY <2>1, <4>2, OthersUntouched, ScanOthers, WriteOthers
        <4> QED BY <4>1, <4>2
      <3> QED BY <3>1, <3>2
    <2>2. CASE ProcessEnds
      <3>1. PICK p \in alive \ InitGroup :
              /\ alive' = alive \ {p} /\ through' = [c \in Collectors |-> through[c] \ {p}]
        BY <2>2 DEF ProcessEnds
      <3>2. /\ churn \in Nat /\ churn < MaxChurn /\ churn' = churn + 1
            /\ UNCHANGED <<local, files>>
        BY <2>2 DEF ProcessEnds, PicTypeOK
      <3>3. PicTypeOK'
        <4>1. churn' \in 0..MaxChurn
          BY <3>2, PicAssumption
        <4> QED BY <3>1, <3>2, <4>1 DEF PicTypeOK, local, files
      <3>4. ASSUME NEW c \in Collectors PROVE Scanned(c)' /\ Written(c)'
        <4>1. through'[c] = through[c] \ {p} /\ Due(c)' \subseteq Due(c) /\ Passed(c)' = Passed(c)
          BY <3>1, <3>2 DEF local, Due, Passed
        <4>2. Scanned(c)'
          BY <3>1, <3>2, <4>1 DEF local, Scanned, TableOK
        <4> QED BY <3>2, <4>2, WriteOthers DEF local, files
      <3>5. Shown' /\ AbsentOnlyInBetween'
        BY <3>2 DEF local, files, Shown, AbsentOnlyInBetween
      <3> QED BY <3>3, <3>4, <3>5
    <2>3. CASE ProcessStarts
      <3>1. PICK p \in Pids \ alive : alive' = alive \cup {p}
        BY <2>3 DEF ProcessStarts
      <3>2. /\ churn \in Nat /\ churn < MaxChurn /\ churn' = churn + 1
            /\ UNCHANGED <<local, through, files>>
        BY <2>3 DEF ProcessStarts, PicTypeOK
      <3>3. PicTypeOK'
        <4>1. churn' \in 0..MaxChurn
          BY <3>2, PicAssumption
        <4> QED BY <3>1, <3>2, <4>1 DEF PicTypeOK, local, files
      <3>4. ASSUME NEW c \in Collectors PROVE Scanned(c)' /\ Written(c)'
        <4>1. Due(c)' = Due(c) /\ Passed(c)' = Passed(c) /\ alive \subseteq alive'
          BY <3>1, <3>2 DEF local, Due, Passed
        <4>2. Scanned(c)'
          BY <3>2, <4>1 DEF local, Scanned
        <4> QED BY <3>2, <4>2, WriteOthers DEF local, files
      <3>5. Shown' /\ AbsentOnlyInBetween'
        BY <3>2 DEF local, files, Shown, AbsentOnlyInBetween
      <3> QED BY <3>3, <3>4, <3>5
    <2>4. CASE UNCHANGED vars
      BY <2>4 DEF vars, local, files, PicTypeOK, Shown, AbsentOnlyInBetween, Scanned, Written,
                  Due, Passed
    <2> QED BY <2>1, <2>2, <2>3, <2>4 DEF Next, CollectorStep
  <1> QED BY <1>1, <1>2, PTL DEF Spec

\* No scan fills procs[] beyond its last but one entry, whatever processes do.
THEOREM TableFits == Spec => []TypeOK
  <1>1. PicInv => TypeOK
    <2> SUFFICES ASSUME PicInv PROVE TypeOK
      OBVIOUS
    <2> USE DEF PicInv, PicTypeOK
    <2>1. ASSUME NEW f \in Tables \cup {None} PROVE f.state \in {"none", "partial", "short", "whole"}
      BY NoneIsNoTable DEF Tables
    <2>2. ASSUME NEW c \in Collectors
          PROVE  /\ Len(procs[c]) < MAX_PROC_ENT
                 /\ \A i \in 1..Len(procs[c]) : procs[c][i] \in Rows
      BY ElementOfSeq DEF Scanned
    <2> QED BY <2>1, <2>2 DEF TypeOK
  <1> QED BY <1>1, PicInvariant, PTL

\* Readers of infofile never meet a table that is still being written, for any
\* number of collectors killed anywhere.
THEOREM WholeOrNone == Spec => []NeverHalfWritten
  <1>1. PicInv => NeverHalfWritten
    BY NoneIsNoTable DEF PicInv, Shown, NeverHalfWritten
  <1> QED BY <1>1, PicInvariant, PTL

\* A published table goes missing only in the gap between unlink and rename.
THEOREM GapsAreShort == Spec => []AbsentOnlyInBetween
  <1>1. PicInv => AbsentOnlyInBetween
    BY DEF PicInv
  <1> QED BY <1>1, PicInvariant, PTL

\* Processes that come and go cost no long-lived process its row; only a full
\* disk does, by leaving a short file.
THEOREM LongLivedShown == Spec => []LongLivedAreListed
  <1>1. PicInv => LongLivedAreListed
    BY NoneIsNoTable DEF PicInv, Shown, FileOK, TableOK, Shows, LongLivedAreListed
  <1> QED BY <1>1, PicInvariant, PTL

\* Rows show their own process, in order, but for names with white space.
THEOREM RowsShowTheirOwn == Spec => []RowsAreOwn
  <1>1. PicInv => RowsAreOwn
    BY DEF PicInv, Shown, FileOK, InOrder, RowsAreOwn
  <1> QED BY <1>1, PicInvariant, PTL
=============================================================================
