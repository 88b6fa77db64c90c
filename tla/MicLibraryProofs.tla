-------------------------- MODULE MicLibraryProofs --------------------------
(***************************************************************************)
(* Proofs about MicLibrary and the file synchronisation in it: for any     *)
(* shares and whatever grep takes for them, any requests, configurations   *)
(* and machines, any number of descriptors, and any number of steps of the *)
(* administrator.                                                          *)
(***************************************************************************)
EXTENDS MicLibrary, TLAPS, SequenceTheorems, FiniteSetTheorems,
        WellFoundedInduction

-----------------------------------------------------------------------------
(***************************************************************************)
(* Sequences and sets of positions.                                        *)
(***************************************************************************)
\* A set of positions has a first and a last one, so a CHOOSE of it is one.
LEMMA FirstAndLast ==
    ASSUME NEW n \in Nat, NEW T \in SUBSET (1..n), T # {}
    PROVE  /\ \E x \in T : \A y \in T : x <= y
           /\ \E x \in T : \A y \in T : x >= y
  <1>1. ASSUME NEW S \in SUBSET Nat, S # {} PROVE \E x \in S : \A y \in S : x <= y
    <2>1. PICK x \in S : \A y \in S : ~(<<y, x>> \in OpToRel(<, Nat))
      BY <1>1, NatLessThanWellFounded, WFMin
    <2>2. ASSUME NEW y \in S PROVE x <= y
      <3>1. ~(y < x)
        BY <2>1 DEF OpToRel
      <3> QED BY <3>1
    <2> QED BY <2>2
  <1>2. \E x \in T : \A y \in T : x <= y
    BY <1>1
  <1> DEFINE mirror == {n - y : y \in T}
  <1>3. mirror \in SUBSET Nat /\ mirror # {}
    <2>1. \A y \in T : y \in Nat /\ n - y \in Nat
      OBVIOUS
    <2> QED BY <2>1
  <1>4. PICK m \in mirror : \A y \in mirror : m <= y
    BY <1>1, <1>3
  <1>5. PICK x \in T : m = n - x
    BY <1>4
  <1>6. ASSUME NEW y \in T PROVE x >= y
    <2>1. n - y \in mirror
      OBVIOUS
    <2>0. x \in Nat /\ y \in Nat
      BY <1>5
    <2>2. m <= n - y
      BY <1>4, <2>1
    <2> HIDE DEF mirror
    <2> QED BY <1>5, <2>0, <2>2
  <1> QED BY <1>2, <1>6

LEMMA RemoveAtElements ==
    ASSUME NEW D, NEW s \in Seq(D), NEW k \in DOMAIN s
    PROVE  /\ RemoveAt(s, k) \in Seq(D)
           /\ Len(RemoveAt(s, k)) = Len(s) - 1
           /\ \A i \in 1..(Len(s) - 1) :
                 RemoveAt(s, k)[i] = IF i < k THEN s[i] ELSE s[i + 1]
  <1>1. Len(s) \in Nat /\ k \in 1..Len(s)
    BY LenProperties
  <1>2. \A i \in 1..Len(s) : s[i] \in D
    BY ElementOfSeq
  <1> DEFINE a == SubSeq(s, 1, k - 1)
             b == SubSeq(s, k + 1, Len(s))
  <1>3. a \in Seq(D) /\ Len(a) = k - 1 /\ \A i \in 1..(k - 1) : a[i] = s[i]
    BY <1>1, <1>2, SubSeqProperties
  <1>4. b \in Seq(D) /\ Len(b) = Len(s) - k /\ \A i \in 1..(Len(s) - k) : b[i] = s[k + i]
    BY <1>1, <1>2, SubSeqProperties
  <1> HIDE DEF a, b
  <1>5. a \o b \in Seq(D) /\ Len(a \o b) = Len(s) - 1
    BY <1>1, <1>3, <1>4, ConcatProperties
  <1>6. ASSUME NEW i \in 1..(Len(s) - 1)
        PROVE  (a \o b)[i] = IF i < k THEN s[i] ELSE s[i + 1]
    <2>0. Len(a) + Len(b) = Len(s) - 1
      BY <1>1, <1>3, <1>4
    <2>1. i \in 1..(Len(a) + Len(b))
      BY <2>0
    <2>2. (a \o b)[i] = IF i <= Len(a) THEN a[i] ELSE b[i - Len(a)]
      BY <1>3, <1>4, <2>1, ConcatProperties
    <2>3. CASE i < k
      <3>1. i \in 1..(k - 1) /\ i <= Len(a)
        BY <1>1, <1>3, <2>3
      <3> QED BY <1>3, <2>2, <2>3, <3>1
    <2>4. CASE ~(i < k)
      <3>1. /\ i - (k - 1) \in 1..(Len(s) - k) /\ k + (i - (k - 1)) = i + 1
            /\ ~(i <= k - 1)
        BY <1>1, <2>4
      <3>2. b[i - (k - 1)] = s[i + 1]
        BY <1>4, <3>1
      <3> QED BY <1>3, <2>2, <2>4, <3>1, <3>2
    <2> QED BY <2>3, <2>4
  <1> QED BY <1>5, <1>6 DEF RemoveAt, a, b

-----------------------------------------------------------------------------
(***************************************************************************)
(* The mount table. OneMountPerShare, OwnMountPoints and CopiesTheShare    *)
(* are inductive with these:                                               *)
(*   TableOK        the administrator mounts on AdminDir only;             *)
(*   NotOurs        who is about to mount has no mount of that share, if   *)
(*                  the command that looked for it worked;                 *)
(*   FreshDir       and no mount is on the directory it made;              *)
(*   Shows          what is about to be copied is a share that was meant,  *)
(*                  or one of the exceptions of CopiesTheShare;            *)
(*   CopiesNothing  a command under way has copied nothing yet.            *)
(***************************************************************************)
Mounts == [share : Shares, at : TempNames \cup {AdminDir}, by : {"admin", "daemon", "blind"}]

TableOK ==
    /\ mounts \in Seq(Mounts) /\ dirs \subseteq TempNames /\ loc \in Shares
    /\ \A i \in 1..Len(mounts) : mounts[i].by = "admin" => mounts[i].at = AdminDir

NotOurs ==
    phase \in {"mktemp", "mount"} /\ lookup # "failed" =>
        \A i \in 1..Len(mounts) : mounts[i].by # "admin" => mounts[i].share # loc

NoNameLeft == tempdir = "" /\ dirs = TempNames

FreshDir ==
    phase = "mount" => NoNameLeft \/ (tempdir \in TempNames /\ At(tempdir) = {})

Shows ==
    phase = "copy" /\ lookup # "stale" =>
        \/ tempdir = AdminDir \/ NoNameLeft
        \/ tempdir \in TempNames /\ \A i \in At(tempdir) : <<loc, mounts[i].share>> \in Found

CopiesNothing == phase # "idle" => got = "nothing"

MountInv ==
    /\ TableOK /\ OneMountPerShare /\ OwnMountPoints
    /\ NotOurs /\ FreshDir /\ Shows /\ CopiesNothing /\ CopiesTheShare

\* Unmounting takes entries away and lets the others move up, in their order.
Fewer ==
    /\ \A i \in 1..Len(mounts') : \E o \in 1..Len(mounts) : mounts'[i] = mounts[o]
    /\ \A i, j \in 1..Len(mounts') : i < j =>
          \E o, p \in 1..Len(mounts) : o < p /\ mounts'[i] = mounts[o] /\ mounts'[j] = mounts[p]

LEMMA RemovedAreFewer ==
    ASSUME mounts \in Seq(Mounts), NEW k \in 1..Len(mounts), mounts' = RemoveAt(mounts, k)
    PROVE  mounts' \in Seq(Mounts) /\ Fewer
  <1>0. k \in DOMAIN mounts
    BY LenProperties
  <1> DEFINE n == Len(mounts)
             old(i) == IF i < k THEN i ELSE i + 1
  <1>1. n \in Nat
    BY LenProperties
  <1>2. /\ mounts' \in Seq(Mounts) /\ Len(mounts') = n - 1
        /\ \A i \in 1..(n - 1) : mounts'[i] = IF i < k THEN mounts[i] ELSE mounts[i + 1]
    BY <1>0, RemoveAtElements
  <1> HIDE DEF n
  <1>3. \A i \in 1..(n - 1) : old(i) \in 1..n /\ mounts'[i] = mounts[old(i)]
    BY <1>1, <1>2
  <1>4. \A i, j \in 1..(n - 1) : i < j => old(i) < old(j)
    BY <1>1, <1>2 DEF n
  <1> HIDE DEF old
  <1>5. n = Len(mounts)
    BY DEF n
  <1>6. \A i \in 1..Len(mounts') : \E o \in 1..Len(mounts) : mounts'[i] = mounts[o]
    BY <1>2, <1>3, <1>5
  <1>7. ASSUME NEW i \in 1..Len(mounts'), NEW j \in 1..Len(mounts'), i < j
        PROVE  \E o, p \in 1..Len(mounts) : o < p /\ mounts'[i] = mounts[o] /\ mounts'[j] = mounts[p]
    <2>1. i \in 1..(n - 1) /\ j \in 1..(n - 1)
      BY <1>2
    <2>2. old(i) \in 1..n /\ old(j) \in 1..n /\ old(i) < old(j)
      BY <1>3, <1>4, <1>7, <2>1
    <2> QED BY <1>3, <1>5, <2>1, <2>2
  <1> QED BY <1>2, <1>6, <1>7 DEF Fewer

LEMMA FewerStaysOK ==
    ASSUME TableOK, OneMountPerShare, OwnMountPoints, mounts' \in Seq(Mounts), Fewer,
           dirs' = dirs, loc' = loc
    PROVE  TableOK' /\ OneMountPerShare' /\ OwnMountPoints'
  <1>1. TableOK'
    <2>1. ASSUME NEW i \in 1..Len(mounts'), mounts'[i].by = "admin"
          PROVE  mounts'[i].at = AdminDir
      <3>1. PICK o \in 1..Len(mounts) : mounts'[i] = mounts[o]
        BY DEF Fewer
      <3> QED BY <2>1, <3>1 DEF TableOK
    <2> QED BY <2>1 DEF TableOK
  <1>2. OneMountPerShare'
    <2>1. ASSUME NEW i \in 1..Len(mounts'), NEW j \in 1..Len(mounts'), i < j,
                 mounts'[i].by # "admin", mounts'[j].by # "admin",
                 mounts'[i].share = mounts'[j].share
          PROVE  mounts'[j].by = "blind"
      <3>1. PICK o, p \in 1..Len(mounts) :
               o < p /\ mounts'[i] = mounts[o] /\ mounts'[j] = mounts[p]
        BY <2>1 DEF Fewer
      <3> QED BY <2>1, <3>1 DEF OneMountPerShare
    <2> QED BY <2>1 DEF OneMountPerShare
  <1>3. OwnMountPoints'
    <2> SUFFICES ASSUME NEW i \in 1..Len(mounts'), mounts'[i].by # "admin"
                 PROVE  mounts'[i].at \in dirs' /\ {j \in 1..Len(mounts') : mounts'[j].at = mounts'[i].at} = {i}
      BY DEF OwnMountPoints, At
    <2>1. PICK o \in 1..Len(mounts) : mounts'[i] = mounts[o]
      BY DEF Fewer
    <2>2. mounts'[i].at \in dirs'
      BY <2>1 DEF OwnMountPoints
    <2>3. ASSUME NEW j \in 1..Len(mounts'), mounts'[j].at = mounts'[i].at, j # i PROVE FALSE
      <3>0. i < j \/ j < i
        <4>1. Len(mounts') \in Nat
          BY LenProperties
        <4> QED BY <2>3, <4>1
      <3>1. PICK q, r \in 1..Len(mounts) :
               q # r /\ mounts'[i] = mounts[q] /\ mounts'[j] = mounts[r]
        <4>0. Len(mounts) \in Nat
          BY LenProperties DEF TableOK
        <4>1. CASE i < j
          <5>1. PICK q, r \in 1..Len(mounts) :
                   q < r /\ mounts'[i] = mounts[q] /\ mounts'[j] = mounts[r]
            BY <4>1 DEF Fewer
          <5> QED BY <4>0, <5>1
        <4>2. CASE j < i
          <5>1. PICK q, r \in 1..Len(mounts) :
                   q < r /\ mounts'[j] = mounts[q] /\ mounts'[i] = mounts[r]
            BY <4>2 DEF Fewer
          <5> QED BY <4>0, <5>1
        <4> QED BY <3>0, <4>1, <4>2
      <3>2. {k \in 1..Len(mounts) : mounts[k].at = mounts[q].at} = {q}
        BY <3>1 DEF OwnMountPoints, At
      <3> QED BY <2>3, <3>1, <3>2
    <2> QED BY <2>2, <2>3
  <1> QED BY <1>1, <1>2, <1>3

LEMMA FewerKeepsMountInv ==
    ASSUME MountInv, mounts' \in Seq(Mounts), Fewer,
           UNCHANGED <<dirs, phase, loc, tempdir, got, lookup>>
    PROVE  MountInv'
  <1>1. TableOK' /\ OneMountPerShare' /\ OwnMountPoints'
    BY FewerStaysOK DEF MountInv
  <1>2. \A i \in 1..Len(mounts') : \E o \in 1..Len(mounts) : mounts'[i] = mounts[o]
    BY DEF Fewer
  <1>3. NotOurs'
    BY <1>2 DEF MountInv, NotOurs
  <1>4. FreshDir'
    BY <1>2 DEF MountInv, FreshDir, NoNameLeft, At
  <1>5. Shows'
    BY <1>2 DEF MountInv, Shows, NoNameLeft, At
  <1>6. CopiesNothing' /\ CopiesTheShare'
    BY DEF MountInv, CopiesNothing, CopiesTheShare
  <1> QED BY <1>1, <1>3, <1>4, <1>5, <1>6 DEF MountInv

LEMMA AppendedMount ==
    ASSUME mounts \in Seq(Mounts), NEW m \in Mounts, mounts' = Append(mounts, m)
    PROVE  /\ mounts' \in Seq(Mounts) /\ Len(mounts) \in Nat /\ Len(mounts') = Len(mounts) + 1
           /\ \A i \in 1..Len(mounts) : mounts'[i] = mounts[i]
           /\ mounts'[Len(mounts')] = m
  BY AppendProperties, LenProperties

\* The administrator does nothing to what the library relies on.
LEMMA AdminKeepsMountInv ==
    ASSUME MountInv, AdminMount \/ AdminUmount
    PROVE  MountInv'
  <1>1. CASE AdminUmount
    <2>1. PICK k \in 1..Len(mounts) : mounts' = RemoveAt(mounts, k)
      BY <1>1 DEF AdminUmount
    <2>2. mounts' \in Seq(Mounts) /\ Fewer
      BY <2>1, RemovedAreFewer DEF MountInv, TableOK
    <2> QED BY <1>1, <2>2, FewerKeepsMountInv DEF AdminUmount
  <1>2. CASE AdminMount
    <2> USE <1>2 DEF AdminMount
    <2>1. PICK s \in Shares :
             mounts' = Append(mounts, [share |-> s, at |-> AdminDir, by |-> "admin"])
      OBVIOUS
    <2> DEFINE m == [share |-> s, at |-> AdminDir, by |-> "admin"]
               n == Len(mounts)
    <2>2. m \in Mounts /\ m.by = "admin" /\ m.at = AdminDir
      BY DEF Mounts
    <2> HIDE DEF m
    <2>3. /\ mounts' \in Seq(Mounts) /\ n \in Nat /\ Len(mounts') = n + 1
          /\ \A i \in 1..n : mounts'[i] = mounts[i]
          /\ mounts'[n + 1] = m
      BY <2>1, <2>2, AppendedMount DEF MountInv, TableOK, m
    <2>4. \A i \in 1..Len(mounts') :
             \/ i \in 1..n /\ mounts'[i] = mounts[i]
             \/ i = n + 1 /\ mounts'[i] = m
      BY <2>3
    <2>5. \A i \in 1..Len(mounts') : mounts'[i].by # "admin" => i \in 1..n
      BY <2>2, <2>4
    <2>6. \A d \in TempNames : At(d)' = At(d)
      <3> SUFFICES ASSUME NEW d \in TempNames
                   PROVE  {i \in 1..(n + 1) : mounts'[i].at = d} = {i \in 1..n : mounts[i].at = d}
        BY <2>3 DEF At
      <3>1. d # AdminDir
        BY FileSyncAssumption
      <3> HIDE DEF n
      <3>2. \A i \in 1..(n + 1) : mounts'[i].at = d <=> i \in 1..n /\ mounts[i].at = d
        BY <2>2, <2>3, <3>1
      <3>3. 1..n \subseteq 1..(n + 1)
        BY <2>3
      <3> QED BY <3>2, <3>3
    <2>7. TableOK'
      BY <2>2, <2>3, <2>4 DEF MountInv, TableOK
    <2>8. OneMountPerShare'
      BY <2>4, <2>5 DEF MountInv, OneMountPerShare
    <2>9. OwnMountPoints'
      <3> SUFFICES ASSUME NEW i \in 1..Len(mounts'), mounts'[i].by # "admin"
                   PROVE  mounts'[i].at \in dirs /\ At(mounts[i].at)' = {i}
        BY DEF OwnMountPoints
      <3>1. i \in 1..n /\ mounts'[i] = mounts[i]
        BY <2>3, <2>5
      <3>2. mounts[i].at \in dirs /\ At(mounts[i].at) = {i}
        BY <3>1 DEF MountInv, OwnMountPoints
      <3>3. mounts[i].at \in TempNames
        BY <3>2 DEF MountInv, TableOK
      <3> DEFINE d == mounts[i].at
      <3>4. At(d)' = {i} /\ d' = d
        BY <3>1, <3>2, <2>3, <2>4, <2>2, <3>3, FileSyncAssumption DEF At
      <3> QED BY <3>1, <3>2, <3>4
    <2>10. NotOurs' /\ FreshDir'
      <3>1. NotOurs'
        BY <2>4, <2>5 DEF MountInv, NotOurs
      <3>2. FreshDir'
        <4> SUFFICES ASSUME phase = "mount", tempdir \in TempNames, At(tempdir) = {}
                     PROVE  {i \in 1..Len(mounts') : mounts'[i].at = tempdir} = {}
          BY DEF MountInv, FreshDir, NoNameLeft, At
        <4> QED BY <2>2, <2>4, FileSyncAssumption DEF At
      <3> QED BY <3>1, <3>2
    <2>11. Shows'
      BY <2>2, <2>4, FileSyncAssumption DEF MountInv, Shows, NoNameLeft, At
    <2>12. CopiesNothing' /\ CopiesTheShare'
      BY DEF MountInv, CopiesNothing, CopiesTheShare
    <2> QED BY <2>7, <2>8, <2>9, <2>10, <2>11, <2>12 DEF MountInv
  <1> QED BY <1>1, <1>2

\* A command that starts knows nothing yet.
LEMMA StartKeepsMountInv ==
    ASSUME MountInv, Start
    PROVE  MountInv'
  <1> USE DEF Start, MountInv
  <1>1. TableOK' /\ OneMountPerShare' /\ OwnMountPoints'
    BY DEF TableOK, OneMountPerShare, OwnMountPoints, At
  <1>2. NotOurs' /\ FreshDir' /\ Shows' /\ CopiesNothing' /\ CopiesTheShare'
    BY DEF NotOurs, FreshDir, Shows, CopiesNothing, CopiesTheShare
  <1> QED BY <1>1, <1>2

\* The lookup: a share that is not found has no mount of the daemon's, and the
\* directory that is found shows the share, unless it is the administrator's.
LEMMA LookupKeepsMountInv ==
    ASSUME MountInv, IsNfsMounted
    PROVE  MountInv'
  <1>1. UNCHANGED <<mounts, dirs, loc>>
    BY DEF IsNfsMounted, Grep, Awk, AwkStale
  <1>2. TableOK' /\ OneMountPerShare' /\ OwnMountPoints'
    BY <1>1 DEF MountInv, TableOK, OneMountPerShare, OwnMountPoints, At
  <1>3. got' = got /\ phase # "idle" /\ phase' \in {"awk", "mktemp", "copy", "aborted"}
    BY DEF IsNfsMounted, Grep, Awk, AwkStale
  <1>4. CopiesNothing' /\ CopiesTheShare' /\ FreshDir'
    BY <1>3 DEF MountInv, CopiesNothing, CopiesTheShare, FreshDir
  <1>5. NotOurs'
    <2>2. CASE Grep
      <3> SUFFICES ASSUME Lines(loc) = {}, NEW i \in 1..Len(mounts), mounts[i].share = loc
                   PROVE  FALSE
        BY <1>1, <2>2 DEF Grep, NotOurs
      <3>1. <<loc, loc>> \in Found
        BY FileSyncAssumption DEF MountInv, TableOK
      <3> QED BY <3>1 DEF Lines
    <2>3. CASE Awk \/ AwkStale
      BY <2>3 DEF Awk, AwkStale, NotOurs
    <2> QED BY <2>2, <2>3 DEF IsNfsMounted
  <1>6. Shows'
    <2>1. CASE Grep
      BY <2>1 DEF Shows, Grep
    <2>2. CASE AwkStale
      BY <2>2 DEF AwkStale, Shows
    <2>3. CASE Awk
      <3> DEFINE n == Len(mounts)
                 k == CHOOSE i \in Lines(loc) : \A j \in Lines(loc) : i <= j
      <3>1. Lines(loc) # {} /\ tempdir' = mounts[k].at /\ lookup' = lookup
        BY <2>3 DEF Awk
      <3>2. n \in Nat /\ Lines(loc) \in SUBSET (1..n)
        BY LenProperties DEF MountInv, TableOK, Lines
      <3>3. \E i \in Lines(loc) : \A j \in Lines(loc) : i <= j
        <4> HIDE DEF n
        <4> QED BY <3>1, <3>2, FirstAndLast
      <3>4. k \in Lines(loc)
        BY <3>3
      <3> HIDE DEF k
      <3>5. k \in 1..Len(mounts) /\ <<loc, mounts[k].share>> \in Found
        BY <3>4 DEF Lines
      <3>6. mounts[k] \in Mounts
        BY <3>5, ElementOfSeq DEF MountInv, TableOK
      <3>7. CASE mounts[k].by = "admin"
        BY <3>1, <3>5, <3>7 DEF MountInv, TableOK, Shows
      <3>8. CASE mounts[k].by # "admin"
        <4>1. mounts[k].at \in dirs /\ At(mounts[k].at) = {k}
          BY <3>5, <3>8 DEF MountInv, OwnMountPoints
        <4>2. mounts[k].at \in TempNames
          BY <4>1 DEF MountInv, TableOK
        <4>3. {i \in 1..Len(mounts') : mounts'[i].at = tempdir'} = {k}
          BY <1>1, <3>1, <4>1 DEF At
        <4> QED BY <1>1, <3>1, <3>5, <4>2, <4>3 DEF Shows, At
      <3> QED BY <3>6, <3>7, <3>8 DEF Mounts
    <2> QED BY <2>1, <2>2, <2>3 DEF IsNfsMounted
  <1> QED BY <1>2, <1>4, <1>5, <1>6 DEF MountInv

\* A new directory carries no mount: the daemon mounts on directories it made.
LEMMA CreateKeepsMountInv ==
    ASSUME MountInv, CreateTempDir
    PROVE  MountInv'
  <1> USE DEF CreateTempDir
  <1>1. phase = "mktemp" /\ phase' = "mount" /\ UNCHANGED <<mounts, loc, got, lookup>>
    OBVIOUS
  <1>2. dirs \subseteq dirs' /\ dirs' \subseteq TempNames
    BY DEF MountInv, TableOK
  <1>3. TableOK' /\ OneMountPerShare' /\ OwnMountPoints'
    BY <1>1, <1>2 DEF MountInv, TableOK, OneMountPerShare, OwnMountPoints, At
  <1>4. NotOurs'
    BY <1>1 DEF MountInv, NotOurs
  <1>5. FreshDir'
    <2>1. CASE dirs = TempNames
      BY <2>1 DEF FreshDir, NoNameLeft
    <2>2. CASE dirs # TempNames
      <3>1. tempdir' \in TempNames \ dirs
        BY <2>2
      <3>2. ASSUME NEW i \in 1..Len(mounts), mounts[i].at = tempdir' PROVE FALSE
        <4>1. mounts[i] \in Mounts
          BY ElementOfSeq DEF MountInv, TableOK
        <4>2. CASE mounts[i].by = "admin"
          BY <3>1, <3>2, <4>2, FileSyncAssumption DEF MountInv, TableOK
        <4>3. CASE mounts[i].by # "admin"
          BY <3>1, <3>2, <4>3 DEF MountInv, OwnMountPoints
        <4> QED BY <4>1, <4>2, <4>3 DEF Mounts
      <3> QED BY <1>1, <3>1, <3>2 DEF FreshDir, At
    <2> QED BY <2>1, <2>2
  <1>6. Shows' /\ CopiesNothing' /\ CopiesTheShare'
    BY <1>1 DEF MountInv, Shows, CopiesNothing, CopiesTheShare
  <1> QED BY <1>3, <1>4, <1>5, <1>6 DEF MountInv

\* The new mount is the only one of its share and of its directory.
LEMMA MountKeepsMountInv ==
    ASSUME MountInv, MountNfs
    PROVE  MountInv'
  <1> USE DEF MountNfs
  <1>1. /\ phase = "mount" /\ phase' = "copy"
        /\ UNCHANGED <<dirs, loc, tempdir, got, lookup>>
    OBVIOUS
  <1>2. NotOurs' /\ FreshDir' /\ CopiesNothing' /\ CopiesTheShare'
    BY <1>1 DEF MountInv, NotOurs, FreshDir, CopiesNothing, CopiesTheShare
  <1>3. NoNameLeft \/ (tempdir \in TempNames /\ At(tempdir) = {})
    BY <1>1 DEF MountInv, FreshDir
  <1>4. CASE mounts' = mounts
    <2>1. TableOK' /\ OneMountPerShare' /\ OwnMountPoints'
      BY <1>1, <1>4 DEF MountInv, TableOK, OneMountPerShare, OwnMountPoints, At
    <2>2. Shows'
      BY <1>1, <1>3, <1>4 DEF Shows, NoNameLeft, At
    <2> QED BY <1>2, <2>1, <2>2 DEF MountInv
  <1>5. CASE mounts' # mounts
    <2> DEFINE by == IF lookup = "failed" THEN "blind" ELSE "daemon"
               m == [share |-> loc, at |-> tempdir, by |-> by]
               n == Len(mounts)
    <2>1. tempdir \in dirs /\ mounts' = Append(mounts, m)
      BY <1>5
    <2>2. tempdir \in TempNames /\ tempdir # "" /\ loc \in Shares
      BY <2>1, FileSyncAssumption DEF MountInv, TableOK
    <2>3. /\ m \in Mounts /\ m.by # "admin" /\ m.at = tempdir /\ m.share = loc
          /\ lookup = "failed" => m.by = "blind"
      BY <2>2 DEF Mounts
    <2> HIDE DEF m
    <2>4. /\ mounts' \in Seq(Mounts) /\ n \in Nat /\ Len(mounts') = n + 1
          /\ \A i \in 1..n : mounts'[i] = mounts[i]
          /\ mounts'[n + 1] = m
      BY <2>1, <2>3, AppendedMount DEF MountInv, TableOK
    <2>5. At(tempdir) = {}
      BY <1>3, <2>2 DEF NoNameLeft
    <2>6. \A i \in 1..n : mounts[i].at # tempdir
      BY <2>5 DEF At
    <2>7. lookup # "failed" => \A i \in 1..n : mounts[i].by # "admin" => mounts[i].share # loc
      BY <1>1 DEF MountInv, NotOurs
    <2>8. \A i \in 1..n : mounts[i].by # "admin" =>
             mounts[i].at \in dirs /\ \A j \in 1..n : mounts[j].at = mounts[i].at => j = i
      BY DEF MountInv, OwnMountPoints, At
    <2>9. \A i, j \in 1..n : /\ i < j /\ mounts[i].share = mounts[j].share
                            /\ mounts[i].by # "admin" /\ mounts[j].by # "admin"
                            => mounts[j].by = "blind"
      BY DEF MountInv, OneMountPerShare
    <2> HIDE DEF n
    <2>10. \A i \in 1..(n + 1) :
              \/ i \in 1..n /\ mounts'[i] = mounts[i]
              \/ i = n + 1 /\ mounts'[i] = m
      BY <2>4
    <2>11. TableOK'
      <3>1. \A i \in 1..n : mounts[i].by = "admin" => mounts[i].at = AdminDir
        BY DEF MountInv, TableOK, n
      <3>2. \A i \in 1..(n + 1) : mounts'[i].by = "admin" => mounts'[i].at = AdminDir
        BY <2>3, <2>10, <3>1
      <3> QED BY <1>1, <2>4, <3>2 DEF MountInv, TableOK
    <2>12. OneMountPerShare'
      <3> SUFFICES ASSUME NEW i \in 1..(n + 1), NEW j \in 1..(n + 1), i < j,
                          mounts'[i].by # "admin", mounts'[j].by # "admin",
                          mounts'[i].share = mounts'[j].share
                   PROVE  mounts'[j].by = "blind"
        BY <2>4 DEF OneMountPerShare
      <3>1. i \in 1..n /\ mounts'[i] = mounts[i]
        BY <2>4, <2>10
      <3>2. CASE j = n + 1
        BY <2>3, <2>4, <2>7, <3>1, <3>2
      <3>3. CASE j # n + 1
        <4>1. j \in 1..n /\ mounts'[j] = mounts[j]
          BY <2>10, <3>3
        <4> QED BY <2>9, <3>1, <4>1
      <3> QED BY <3>2, <3>3
    <2>13. OwnMountPoints'
      <3> SUFFICES ASSUME NEW i \in 1..(n + 1), mounts'[i].by # "admin"
                   PROVE  mounts'[i].at \in dirs' /\ {j \in 1..(n + 1) : mounts'[j].at = mounts'[i].at} = {i}
        BY <2>4 DEF OwnMountPoints, At
      <3>1. mounts'[i].at \in dirs'
        BY <1>1, <2>1, <2>3, <2>8, <2>10
      <3>2. ASSUME NEW j \in 1..(n + 1), mounts'[j].at = mounts'[i].at PROVE j = i
        BY <2>3, <2>6, <2>8, <2>10, <3>2
      <3> QED BY <3>1, <3>2
    <2>14. Shows'
      <3> SUFFICES ASSUME NEW i \in 1..(n + 1), mounts'[i].at = tempdir
                   PROVE  <<loc, mounts'[i].share>> \in Found
        BY <1>1, <2>2, <2>4 DEF Shows, At
      <3>1. mounts'[i] = m
        BY <2>6, <2>10
      <3> QED BY <2>2, <2>3, <3>1, FileSyncAssumption
    <2> QED BY <1>2, <2>11, <2>12, <2>13, <2>14 DEF MountInv
  <1> QED BY <1>4, <1>5

\* The mount that is seen at a directory is one of those on it.
LEMMA VisibleIsThere ==
    ASSUME TableOK, NEW d, At(d) # {}
    PROVE  /\ \E i \in At(d) : Visible(d) = mounts[i].share
           /\ Max(At(d)) \in At(d)
  <1> DEFINE n == Len(mounts)
             k == CHOOSE i \in At(d) : \A j \in At(d) : j <= i
  <1>1. n \in Nat /\ At(d) \in SUBSET (1..n)
    BY LenProperties DEF TableOK, At
  <1> HIDE DEF n
  <1>2. PICK x \in At(d) : \A y \in At(d) : x >= y
    BY <1>1, FirstAndLast
  <1>3. \A y \in At(d) : y <= x
    BY <1>1, <1>2
  <1>4. k \in At(d)
    BY <1>2, <1>3
  <1>5. Max(At(d)) \in At(d)
    BY <1>2 DEF Max
  <1> QED BY <1>4, <1>5 DEF Visible

\* cp takes what the directory shows.
LEMMA CopyKeepsMountInv ==
    ASSUME MountInv, Copy
    PROVE  MountInv'
  <1> USE DEF Copy
  <1>1. TableOK' /\ OneMountPerShare' /\ OwnMountPoints'
    BY DEF MountInv, TableOK, OneMountPerShare, OwnMountPoints, At
  <1>2. NotOurs' /\ FreshDir' /\ Shows' /\ CopiesNothing'
    BY DEF NotOurs, FreshDir, Shows, CopiesNothing
  <1>3. CopiesTheShare'
    <2> SUFFICES ASSUME got' = Source(tempdir), got' # "nothing", lookup # "stale"
                 PROVE  \/ <<loc, got'>> \in Found \/ tempdir = AdminDir
                        \/ got' = Root /\ tempdir = "" /\ dirs = TempNames
      BY DEF CopiesTheShare
    <2>1. CASE NoNameLeft
      BY <2>1 DEF NoNameLeft, Source
    <2>2. CASE tempdir = AdminDir
      BY <2>2
    <2>3. CASE tempdir \in TempNames /\ \A i \in At(tempdir) : <<loc, mounts[i].share>> \in Found
      <3>1. tempdir # ""
        BY <2>3, FileSyncAssumption
      <3>2. At(tempdir) # {} /\ got' = Visible(tempdir)
        BY <3>1 DEF Source
      <3> QED BY <2>3, <3>2, VisibleIsThere DEF MountInv
    <2> QED BY <2>1, <2>2, <2>3 DEF MountInv, Shows
  <1> QED BY <1>1, <1>2, <1>3 DEF MountInv

-----------------------------------------------------------------------------
(***************************************************************************)
(* The descriptors: each load that was read keeps one, nothing else does,  *)
(* and a call hangs only when there is none left, or a file is gone.       *)
(***************************************************************************)
FdsInv ==
    /\ free \in Nat /\ loads \in Nat /\ free + loads = MaxFds
    /\ status = "hung" => free = 0 \/ vanished

LEMMA ReportEnds ==
    ASSUME NEW settings, NEW exists \in BOOLEAN, NEW keys, NEW f
    PROVE  \E e, text :
              /\ Report(settings, exists, keys, f) = [ends |-> e, report |-> text, keeps |-> 0]
              /\ e = "hung" => f = 0
  <1> DEFINE r == Report(settings, exists, keys, f)
             Ended(e, text) == [ends |-> e, report |-> text, keeps |-> 0]
  <1>1. \/ r = Ended("thrown", NoReport)
        \/ f = 0 /\ r = Ended("hung", NoReport)
        \/ r = Ended("returned", [k \in keys |-> ReadValue(settings, k)])
    BY DEF Report, Thrown
  <1>2. CASE r = Ended("thrown", NoReport)
    <2>1. "thrown" = "hung" => f = 0
      OBVIOUS
    <2> QED BY <1>2, <2>1, Zenon
  <1>3. CASE f = 0 /\ r = Ended("hung", NoReport)
    BY <1>3, Zenon
  <1>4. CASE r = Ended("returned", [k \in keys |-> ReadValue(settings, k)])
    <2>1. "returned" = "hung" => f = 0
      OBVIOUS
    <2> QED BY <1>4, <2>1, Zenon
  <1> QED BY <1>1, <1>2, <1>3, <1>4

LEMMA WorkloadEnds ==
    ASSUME NEW settings, NEW exists \in BOOLEAN, NEW readable \in BOOLEAN, NEW f \in Nat
    PROVE  LET c == getworkloadinfo(settings, exists, readable, f)
           IN  IF exists /\ readable /\ f > 0
                 THEN c.keeps = 1 /\ (c.ends = "hung" => f = 1)
                 ELSE c.keeps = 0 /\ c.ends # "hung"
  <1> DEFINE c == getworkloadinfo(settings, exists, readable, f)
             memory == getmeminfo(settings, exists, f - 1)
  <1>1. CASE ~exists \/ f = 0 \/ ~readable
    <2>1. c = Thrown
      BY <1>1 DEF getworkloadinfo
    <2> QED BY <1>1, <2>1 DEF Thrown
  <1>2. CASE exists /\ readable /\ f > 0
    <2>1. PICK e, text : /\ memory = [ends |-> e, report |-> text, keeps |-> 0]
                         /\ e = "hung" => f - 1 = 0
      <3> DEFINE g == f - 1
      <3> HIDE DEF g
      <3>1. \E e, text :
              /\ Report(settings, exists, MemKeys, g) = [ends |-> e, report |-> text, keeps |-> 0]
              /\ e = "hung" => g = 0
        BY ReportEnds
      <3> QED BY <3>1 DEF getmeminfo, g
    <2>2. c = [memory EXCEPT !.keeps = 1,
                 !.report = IF @ = NoReport THEN @
                            ELSE [k \in {<<"SwapFree">>, <<"MemFree">>} |-> @[k]]]
      BY <1>2 DEF getworkloadinfo
    <2> HIDE DEF c, memory
    <2>3. c.keeps = 1 /\ c.ends = e
      BY <2>1, <2>2
    <2>4. c.ends = "hung" => f = 1
      BY <2>1, <2>3
    <2> QED BY <1>2, <2>3, <2>4 DEF c
  <1> QED BY <1>1, <1>2

LEMMA GetInfoKeepsFds ==
    ASSUME FdsInv, GetInfo
    PROVE  FdsInv'
  <1>1. PICK exists \in BOOLEAN :
          \/ Outcome(getcpuinfo(CpuSettings[machine], exists, free)) /\ UNCHANGED loads
          \/ Outcome(getmeminfo(MemSettings[machine], exists, free)) /\ UNCHANGED loads
          \/ \E readable \in BOOLEAN :
                /\ Outcome(getworkloadinfo(MemSettings[machine], exists, readable, free))
                /\ loads' = IF exists /\ readable /\ free > 0 THEN loads + 1 ELSE loads
    BY DEF GetInfo
  <1>2. ASSUME NEW settings, NEW keys, Outcome(Report(settings, exists, keys, free)), loads' = loads
        PROVE  FdsInv'
    <2>1. PICK e, text :
             /\ Report(settings, exists, keys, free) = [ends |-> e, report |-> text, keeps |-> 0]
             /\ e = "hung" => free = 0
      BY ReportEnds
    <2>2. free' = free - 0 /\ (status' = "hung" => e = "hung")
      BY <1>2, <2>1 DEF Outcome
    <2> QED BY <1>2, <2>1, <2>2 DEF FdsInv
  <1>3. ASSUME NEW readable \in BOOLEAN, NEW settings,
               Outcome(getworkloadinfo(settings, exists, readable, free)),
               loads' = IF exists /\ readable /\ free > 0 THEN loads + 1 ELSE loads
        PROVE  FdsInv'
    <2> DEFINE c == getworkloadinfo(settings, exists, readable, free)
    <2>1. IF exists /\ readable /\ free > 0
            THEN c.keeps = 1 /\ (c.ends = "hung" => free = 1)
            ELSE c.keeps = 0 /\ c.ends # "hung"
      BY WorkloadEnds DEF FdsInv
    <2>2. free' = free - c.keeps /\ (status' = "hung" => c.ends = "hung")
      BY <1>3 DEF Outcome
    <2> HIDE DEF c
    <2> QED BY <1>3, <2>1, <2>2 DEF FdsInv
  <1> QED BY <1>1, <1>2, <1>3 DEF getcpuinfo, getmeminfo

LEMMA FdsStep ==
    ASSUME FdsInv, [LibNext]_allVars
    PROVE  FdsInv'
  <1>1. CASE GetInfo
    BY <1>1, GetInfoKeepsFds
  <1>2. CASE ParseCommand
    BY <1>2 DEF ParseCommand, Hang, FdsInv
  <1>3. CASE FileSyncExecute
    <2>1. free' = free /\ loads' = loads
      BY <1>3 DEF FileSyncExecute, Rest
    <2>2. status = "executing" /\ status' \in {"executing", "aborted"}
      BY <1>3 DEF FileSyncExecute, Running
    <2> QED BY <2>1, <2>2 DEF FdsInv
  <1>4. CASE PkgExecute
    BY <1>4 DEF PkgExecute, Hang, Rest, FdsInv, Running
  <1>5. CASE ScriptExecute
    BY <1>5 DEF ScriptExecute, Hang, Rest, FdsInv, Running
  <1>6. CASE ExecuteAll \/ UpdateExecute \/ ExecuteReturns \/ LookUp \/ Find \/ UmountNothing \/ UmountNfs
    BY <1>6 DEF ExecuteAll, UpdateExecute, ExecuteReturns, LookUp, Find, UmountNothing, UmountNfs,
                Rest, Aside, FdsInv, Running
  <1>7. CASE Admin \/ UNCHANGED allVars
    BY <1>7 DEF Admin, allVars, libVars, FdsInv
  <1> QED BY <1>1, <1>2, <1>3, <1>4, <1>5, <1>6, <1>7 DEF LibNext, Library

-----------------------------------------------------------------------------
(***************************************************************************)
(* The mount table in the library.                                         *)
(***************************************************************************)
LEMMA SameTableKeepsMountInv ==
    ASSUME MountInv, UNCHANGED vars
    PROVE  MountInv'
  <1> USE DEF vars
  <1>1. TableOK' /\ OneMountPerShare' /\ OwnMountPoints'
    BY DEF MountInv, TableOK, OneMountPerShare, OwnMountPoints, At
  <1>2. FreshDir' /\ Shows' /\ CopiesNothing' /\ CopiesTheShare'
    BY DEF MountInv, FreshDir, Shows, NoNameLeft, At, CopiesNothing, CopiesTheShare
  <1>3. NotOurs'
    BY DEF MountInv, NotOurs
  <1> QED BY <1>1, <1>2, <1>3 DEF MountInv

LEMMA MountStep ==
    ASSUME MountInv, [LibNext]_allVars
    PROVE  MountInv'
  <1>1. CASE Admin
    BY <1>1, AdminKeepsMountInv DEF Admin, libVars
  <1>2. CASE FileSyncExecute
    <2> QED BY <1>2, StartKeepsMountInv, LookupKeepsMountInv, CreateKeepsMountInv,
               MountKeepsMountInv, CopyKeepsMountInv DEF FileSyncExecute
  <1>3. CASE LookUp
    BY <1>3, StartKeepsMountInv DEF LookUp, Aside
  <1>4. CASE Find
    BY <1>4, LookupKeepsMountInv DEF Find, Aside
  <1>5. CASE UmountNothing
    <2> USE <1>5 DEF UmountNothing, Aside
    <2>1. TableOK' /\ OneMountPerShare' /\ OwnMountPoints'
      BY DEF MountInv, TableOK, OneMountPerShare, OwnMountPoints, At
    <2>2. NotOurs' /\ FreshDir' /\ Shows' /\ CopiesNothing'
      BY DEF NotOurs, FreshDir, Shows, CopiesNothing
    <2>3. CopiesTheShare'
      BY DEF MountInv, CopiesNothing, CopiesTheShare
    <2> QED BY <2>1, <2>2, <2>3 DEF MountInv
  <1>6. CASE UmountNfs
    <2> USE <1>6 DEF UmountNfs, Aside
    <2>1. NotOurs' /\ FreshDir' /\ Shows' /\ CopiesNothing'
      BY DEF NotOurs, FreshDir, Shows, CopiesNothing
    <2>2. CopiesTheShare'
      BY DEF MountInv, CopiesNothing, CopiesTheShare
    <2>3. TableOK' /\ OneMountPerShare' /\ OwnMountPoints'
      <3>1. CASE mounts' = mounts
        BY <3>1 DEF MountInv, TableOK, OneMountPerShare, OwnMountPoints, At
      <3>2. CASE At(tempdir) # {} /\ mounts' = RemoveAt(mounts, Max(At(tempdir)))
        <4>1. Max(At(tempdir)) \in 1..Len(mounts)
          BY <3>2, VisibleIsThere DEF MountInv, At
        <4>2. mounts' \in Seq(Mounts) /\ Fewer
          BY <3>2, <4>1, RemovedAreFewer DEF MountInv, TableOK
        <4> QED BY <4>2, FewerStaysOK DEF MountInv
      <3> QED BY <3>1, <3>2
    <2> QED BY <2>1, <2>2, <2>3 DEF MountInv
  <1>7. CASE \/ ParseCommand \/ ExecuteAll \/ PkgExecute \/ UpdateExecute \/ ScriptExecute
             \/ ExecuteReturns \/ GetInfo \/ UNCHANGED allVars
    <2>1. UNCHANGED vars
      BY <1>7 DEF ParseCommand, ExecuteAll, PkgExecute, UpdateExecute, ScriptExecute,
                  ExecuteReturns, GetInfo, allVars
    <2> QED BY <2>1, SameTableKeepsMountInv
  <1> QED BY <1>1, <1>2, <1>3, <1>4, <1>5, <1>6, <1>7 DEF LibNext, Library

-----------------------------------------------------------------------------
(***************************************************************************)
(* What a lookup unmounts. While a call is under way there is no result,   *)
(* and only calls change what the property compares the result with.       *)
(***************************************************************************)
UmountInv ==
    /\ status \in {"executing", "unmounting"} => result.of # "umount"
    /\ UnmountsTheShare

LEMMA UmountStep ==
    ASSUME UmountInv, MountInv, [LibNext]_allVars
    PROVE  UmountInv'
  <1>1. CASE ParseCommand
    BY <1>1 DEF ParseCommand, None, UmountInv, UnmountsTheShare, vars
  <1>2. CASE ExecuteAll \/ LookUp
    BY <1>2 DEF ExecuteAll, LookUp, None, UmountInv, UnmountsTheShare
  <1>3. CASE FileSyncExecute
    BY <1>3 DEF FileSyncExecute, Running, Rest, UmountInv, UnmountsTheShare
  <1>4. CASE PkgExecute \/ UpdateExecute \/ ScriptExecute \/ ExecuteReturns
    BY <1>4 DEF PkgExecute, UpdateExecute, ScriptExecute, ExecuteReturns, Running, Rest,
                UmountInv, UnmountsTheShare
  <1>5. CASE Find \/ UmountNothing
    BY <1>5 DEF Find, UmountNothing, UmountInv, UnmountsTheShare
  <1>6. CASE UmountNfs
    <2> USE <1>6 DEF UmountNfs
    <2>1. status' = "idle" /\ UNCHANGED <<lookup, tempdir, loc>>
      OBVIOUS
    <2>2. CASE result' = result
      BY <2>1, <2>2 DEF UmountInv, UnmountsTheShare
    <2>3. CASE At(tempdir) # {} /\ result' = [of |-> "umount", share |-> Visible(tempdir)]
      <3>1. PICK i \in At(tempdir) : result'.share = mounts[i].share
        BY <2>3, VisibleIsThere DEF MountInv
      <3>2. CASE lookup # "stale" /\ tempdir # AdminDir
        <4>1. NoNameLeft \/ (tempdir \in TempNames /\ \A j \in At(tempdir) : <<loc, mounts[j].share>> \in Found)
          BY <3>2 DEF MountInv, Shows
        <4>2. i \in 1..Len(mounts) /\ mounts[i].at = tempdir
          BY <3>1 DEF At
        <4>3. mounts[i] \in Mounts
          BY <4>2, ElementOfSeq DEF MountInv, TableOK
        <4>4. tempdir # ""
          BY <3>2, <4>2, <4>3, FileSyncAssumption DEF Mounts
        <4>5. <<loc, mounts[i].share>> \in Found
          BY <3>1, <4>1, <4>4 DEF NoNameLeft
        <4> QED BY <2>1, <3>1, <4>5 DEF UmountInv, UnmountsTheShare
      <3>3. CASE lookup = "stale" \/ tempdir = AdminDir
        BY <2>1, <3>3 DEF UmountInv, UnmountsTheShare
      <3> QED BY <3>2, <3>3
    <2> QED BY <2>2, <2>3
  <1>7. CASE GetInfo
    <2>1. UNCHANGED vars /\ result'.of = "report" /\ status' \in {"hung", "idle"}
      BY <1>7 DEF GetInfo, Outcome
    <2> QED BY <2>1 DEF UmountInv, UnmountsTheShare
  <1>8. CASE Admin
    BY <1>8 DEF Admin, libVars, AdminMount, AdminUmount, UmountInv, UnmountsTheShare
  <1>9. CASE UNCHANGED allVars
    BY <1>9 DEF allVars, vars, libVars, UmountInv, UnmountsTheShare
  <1> QED BY <1>1, <1>2, <1>3, <1>4, <1>5, <1>6, <1>7, <1>8, <1>9 DEF LibNext, Library

-----------------------------------------------------------------------------
(***************************************************************************)
(* The queue. PackagesFollowFiles holds because of two things:             *)
(*   SyncFirst    the packages of a request that asked for files come      *)
(*                right after its file command;                            *)
(*   LastSynced   a file command that execute_all has just gone past was   *)
(*                the last to copy files, and the list is its own if it    *)
(*                brought one.                                             *)
(***************************************************************************)
Commands ==
    [kind : {"sync"}, of : Nat, loc : {m.loc : m \in Requests}]
    \cup [kind : {"pkg"}, of : Nat, synced : {m.sync : m \in Requests}]
    \cup [kind : {"upd", "script"}, of : Nat]

SyncFirst(q) ==
    \A i \in 1..Len(q) : q[i].kind = "pkg" /\ q[i].synced =>
        i > 1 /\ q[i - 1].kind = "sync" /\ q[i - 1].of = q[i].of

Current(request) == lastSync.of = request /\ (lastSync.list => pkglst = request)

LastSynced ==
    status = "executing" =>
        \A i \in 1..Len(queue) : it = i + 1 /\ queue[i].kind = "sync" =>
            Current(queue[i].of)

QueueInv ==
    /\ requests \in Nat /\ it \in Nat \ {0} /\ queue \in Seq(Commands)
    /\ SyncFirst(queue) /\ LastSynced

LEMMA SyncFirstConcat ==
    ASSUME NEW p \in Seq(Commands), NEW q \in Seq(Commands), SyncFirst(p), SyncFirst(q)
    PROVE  p \o q \in Seq(Commands) /\ SyncFirst(p \o q)
  <1> DEFINE m == Len(p)
             n == Len(q)
             r == p \o q
  <1>1. /\ m \in Nat /\ n \in Nat
        /\ r \in Seq(Commands) /\ Len(r) = m + n
        /\ \A i \in 1..(m + n) : r[i] = IF i <= m THEN p[i] ELSE q[i - m]
    BY ConcatProperties, LenProperties
  <1> HIDE DEF r
  <1>2. \A i \in 1..m : p[i].kind = "pkg" /\ p[i].synced =>
            i > 1 /\ p[i - 1].kind = "sync" /\ p[i - 1].of = p[i].of
    BY DEF SyncFirst
  <1>3. \A i \in 1..n : q[i].kind = "pkg" /\ q[i].synced =>
            i > 1 /\ q[i - 1].kind = "sync" /\ q[i - 1].of = q[i].of
    BY DEF SyncFirst
  <1> HIDE DEF m, n
  <1>4. ASSUME NEW i \in 1..(m + n), r[i].kind = "pkg", r[i].synced
        PROVE  i > 1 /\ r[i - 1].kind = "sync" /\ r[i - 1].of = r[i].of
    <2>1. CASE i <= m
      <3>1. i \in 1..m /\ r[i] = p[i]
        BY <1>1, <2>1
      <3>2. i > 1 /\ p[i - 1].kind = "sync" /\ p[i - 1].of = p[i].of
        BY <1>2, <1>4, <3>1
      <3>3. r[i - 1] = p[i - 1]
        BY <1>1, <2>1, <3>2
      <3> QED BY <3>1, <3>2, <3>3
    <2>2. CASE i > m
      <3> DEFINE k == i - m
      <3>1. k \in 1..n /\ r[i] = q[k]
        BY <1>1, <2>2
      <3>2. k > 1 /\ q[k - 1].kind = "sync" /\ q[k - 1].of = q[k].of
        BY <1>3, <1>4, <3>1
      <3>3. i > 1 /\ i - 1 \in 1..(m + n) /\ i - 1 > m /\ (i - 1) - m = k - 1
        BY <1>1, <2>2, <3>2
      <3>4. r[i - 1] = q[(i - 1) - m]
        BY <1>1, <3>3
      <3> QED BY <3>1, <3>2, <3>3, <3>4
    <2> QED BY <1>1, <2>1, <2>2
  <1> QED BY <1>1, <1>4 DEF SyncFirst, r

LEMMA PairIsInOrder ==
    ASSUME NEW a \in Seq(Commands), NEW b \in Seq(Commands), Len(a) = 1, Len(b) = 1,
           a[1].kind = "sync", b[1].of = a[1].of
    PROVE  a \o b \in Seq(Commands) /\ SyncFirst(a \o b)
  <1> DEFINE r == a \o b
             k == Len(a)
             n == Len(b)
  <1>0. /\ k \in Nat /\ n \in Nat
        /\ r \in Seq(Commands) /\ Len(r) = k + n
        /\ \A i \in 1..(k + n) : r[i] = IF i <= k THEN a[i] ELSE b[i - k]
    BY ConcatProperties, LenProperties
  <1> HIDE DEF r
  <1>1. /\ r \in Seq(Commands) /\ Len(r) = 2
        /\ \A i \in 1..2 : r[i] = IF i <= 1 THEN a[i] ELSE b[i - 1]
    BY <1>0
  <1>2. r[1] = a[1] /\ r[2] = b[1]
    BY <1>1
  <1>3. "sync" # "pkg"
    OBVIOUS
  <1>4. SyncFirst(r)
    BY <1>1, <1>2, <1>3 DEF SyncFirst
  <1> QED BY <1>1, <1>4 DEF r

\* The batch of a request, with its packages behind its files.
LEMMA BatchIsInOrder ==
    ASSUME NEW m \in Requests, requests \in Nat
    PROVE  Batch(m) \in Seq(Commands) /\ SyncFirst(Batch(m))
  <1> DEFINE n == requests + 1
             s == [kind |-> "sync", of |-> n, loc |-> m.loc]
             p == [kind |-> "pkg", of |-> n, synced |-> m.sync]
             u == [kind |-> "upd", of |-> n]
             e == [kind |-> "script", of |-> n]
             a == IF m.sync THEN <<s>> ELSE << >>
             b == IF m.pkg THEN <<p>> ELSE << >>
             c == IF m.upd THEN <<u>> ELSE << >>
  <1>1. n \in Nat
    OBVIOUS
  <1>2. s \in Commands /\ s.kind = "sync" /\ s.of = n
    BY <1>1 DEF Commands
  <1>3. p \in Commands /\ p.kind = "pkg" /\ p.of = n /\ p.synced = m.sync
    BY <1>1 DEF Commands
  <1>4. u \in Commands /\ u.kind = "upd"
    BY <1>1 DEF Commands
  <1>5. e \in Commands /\ e.kind = "script"
    BY <1>1 DEF Commands
  <1>6. Batch(m) = ((a \o b) \o c) \o <<e>>
    BY DEF Batch
  <1> HIDE DEF s, p, u, e
  <1>7. a \o b \in Seq(Commands) /\ SyncFirst(a \o b)
    <2>1. CASE m.sync /\ m.pkg
      <3>1. a = <<s>> /\ b = <<p>>
        BY <2>1
      <3> HIDE DEF a, b
      <3>2. a \in Seq(Commands) /\ Len(a) = 1 /\ a[1] = s
        BY <1>2, <3>1
      <3>3. b \in Seq(Commands) /\ Len(b) = 1 /\ b[1] = p
        BY <1>3, <3>1
      <3> QED BY <1>2, <1>3, <3>2, <3>3, PairIsInOrder
    <2>2. CASE ~m.sync \/ ~m.pkg
      <3>1. a \in Seq(Commands) /\ SyncFirst(a)
        BY <1>2 DEF SyncFirst
      <3>2. b \in Seq(Commands)
        BY <1>3
      <3>3. CASE ~m.pkg
        <4>1. SyncFirst(b)
          BY <3>3 DEF SyncFirst
        <4> QED BY <3>1, <3>2, <4>1, SyncFirstConcat
      <3>4. CASE ~m.sync
        <4>1. SyncFirst(b)
          BY <1>3, <3>4 DEF SyncFirst
        <4> QED BY <3>1, <3>2, <4>1, SyncFirstConcat
      <3> QED BY <2>2, <3>3, <3>4
    <2> QED BY <2>1, <2>2
  <1>8. c \in Seq(Commands) /\ SyncFirst(c)
    BY <1>4 DEF SyncFirst
  <1>9. <<e>> \in Seq(Commands) /\ SyncFirst(<<e>>)
    BY <1>5 DEF SyncFirst
  <1> HIDE DEF a, b, c
  <1>10. (a \o b) \o c \in Seq(Commands) /\ SyncFirst((a \o b) \o c)
    <2> DEFINE ab == a \o b
    <2>1. ab \in Seq(Commands) /\ SyncFirst(ab)
      BY <1>7
    <2> HIDE DEF ab
    <2>2. ab \o c \in Seq(Commands) /\ SyncFirst(ab \o c)
      BY <1>8, <2>1, SyncFirstConcat
    <2> QED BY <2>2 DEF ab
  <1>11. Batch(m) \in Seq(Commands) /\ SyncFirst(Batch(m))
    <2> DEFINE abc == (a \o b) \o c
    <2>1. abc \in Seq(Commands) /\ SyncFirst(abc) /\ Batch(m) = abc \o <<e>>
      BY <1>6, <1>10
    <2> HIDE DEF abc
    <2> QED BY <1>9, <2>1, SyncFirstConcat
  <1> QED BY <1>11

LEMMA QueueStep ==
    ASSUME QueueInv, [LibNext]_allVars
    PROVE  QueueInv'
  <1>1. CASE ParseCommand
    <2> USE <1>1 DEF ParseCommand
    <2>1. requests' \in Nat /\ it' = it /\ status' # "executing"
      BY DEF QueueInv, Hang
    <2>2. LastSynced'
      BY <2>1 DEF LastSynced
    <2>3. PICK m \in Requests : queue' = queue \/ queue' = queue \o Batch(m)
      OBVIOUS
    <2>4. queue' \in Seq(Commands) /\ SyncFirst(queue')
      <3>1. Batch(m) \in Seq(Commands) /\ SyncFirst(Batch(m))
        BY BatchIsInOrder DEF QueueInv
      <3> QED BY <2>3, <3>1, SyncFirstConcat DEF QueueInv
    <2> QED BY <2>1, <2>2, <2>4 DEF QueueInv
  <1>2. CASE ExecuteAll
    <2>1. requests' = requests /\ it' = 1 /\ queue' = queue
      BY <1>2 DEF ExecuteAll
    <2>2. LastSynced'
      BY <2>1 DEF LastSynced
    <2> QED BY <2>1, <2>2 DEF QueueInv
  <1>3. CASE FileSyncExecute
    <2> USE <1>3 DEF FileSyncExecute, Running, Rest
    <2>1. /\ requests' = requests /\ queue' = queue /\ status = "executing"
          /\ it \in DOMAIN queue
      OBVIOUS
    <2>2. CASE phase = "copy"
      <3>1. PICK list : /\ it' = it + 1 /\ lastSync' = [of |-> queue[it].of, list |-> list]
                        /\ pkglst' = IF list THEN queue[it].of ELSE pkglst
        BY <2>2
      <3>2. lastSync'.of = queue[it].of /\ (lastSync'.list => pkglst' = queue[it].of)
        BY <3>1
      <3> QED BY <2>1, <3>1, <3>2 DEF QueueInv, LastSynced, Current
    <2>3. CASE phase # "copy"
      <3>1. it' = it /\ lastSync' = lastSync /\ pkglst' = pkglst
        BY <2>3
      <3> QED BY <2>1, <3>1 DEF QueueInv, LastSynced, Current
    <2> QED BY <2>2, <2>3
  <1>4. CASE PkgExecute \/ UpdateExecute \/ ScriptExecute
    <2>1. /\ requests' = requests /\ queue' = queue /\ UNCHANGED <<lastSync, pkglst>>
          /\ status = "executing" /\ queue[it].kind # "sync" /\ it' \in {it, it + 1}
      BY <1>4 DEF PkgExecute, UpdateExecute, ScriptExecute, Running, Rest
    <2> QED BY <2>1 DEF QueueInv, LastSynced, Current
  <1>5. CASE ExecuteReturns \/ LookUp \/ Find \/ UmountNothing \/ UmountNfs \/ GetInfo
    <2>1. /\ requests' = requests /\ queue' = queue /\ it' = it
          /\ status' # "executing"
      BY <1>5 DEF ExecuteReturns, LookUp, Find, UmountNothing, UmountNfs, GetInfo, Outcome,
                  Rest, Aside
    <2> QED BY <2>1 DEF QueueInv, LastSynced
  <1>6. CASE Admin \/ UNCHANGED allVars
    <2>1. UNCHANGED libVars
      BY <1>6 DEF Admin, allVars
    <2> QED BY <2>1 DEF libVars, QueueInv, LastSynced, Current
  <1> QED BY <1>1, <1>2, <1>3, <1>4, <1>5, <1>6 DEF LibNext, Library

-----------------------------------------------------------------------------
(***************************************************************************)
(* The destination list. Split is a recursive function; its equation       *)
(* (Unfolds) has a solution, and what the solution returns follows by      *)
(* looking at the last position where it would be wrong.                   *)
(***************************************************************************)
Cuts(text, sep, i) == {j \in i..Len(text) : text[j] = sep} \cup {Len(text) + 1}
NextCut(text, sep, i) == Min(Cuts(text, sep, i))
Own(text, sep, i) ==
    IF i < NextCut(text, sep, i) THEN <<SubSeq(text, i, NextCut(text, sep, i) - 1)>> ELSE <<>>
Unfolds(f, text, sep, from) ==
    f = [i \in from..(Len(text) + 1) |->
            Own(text, sep, i) \o (IF NextCut(text, sep, i) > Len(text) THEN <<>>
                                  ELSE f[NextCut(text, sep, i) + 1])]

\* x stands between separators, or the ends of what follows position i.
Piece(text, sep, i, x) == \E a, b \in i..Len(text) :
    /\ a <= b /\ x = SubSeq(text, a, b)
    /\ a = i \/ text[a - 1] = sep
    /\ b = Len(text) \/ text[b + 1] = sep
    /\ \A j \in a..b : text[j] # sep

LEMMA NextCutIsNext ==
    ASSUME NEW D, NEW text \in Seq(D), NEW sep, NEW i \in 1..(Len(text) + 1)
    PROVE  /\ NextCut(text, sep, i) \in i..(Len(text) + 1)
           /\ NextCut(text, sep, i) <= Len(text) => text[NextCut(text, sep, i)] = sep
           /\ \A j \in i..Len(text) : text[j] = sep => NextCut(text, sep, i) <= j
  <1> DEFINE n == Len(text)
             C == Cuts(text, sep, i)
  <1>1. n \in Nat
    BY LenProperties
  <1>2. C \in SUBSET (1..(n + 1)) /\ C # {}
    BY <1>1 DEF Cuts
  <1>3. \E x \in C : \A y \in C : x <= y
    <2>1. n + 1 \in Nat
      BY <1>1
    <2> HIDE DEF C, n
    <2> QED BY <1>2, <2>1, FirstAndLast
  <1>4. Min(C) \in C /\ \A y \in C : Min(C) <= y
    BY <1>3 DEF Min
  <1>5. NextCut(text, sep, i) = Min(C)
    BY DEF NextCut
  <1> QED BY <1>1, <1>4, <1>5 DEF Cuts

LEMMA SplitUnfolds ==
    ASSUME NEW D, NEW text \in Seq(D), NEW sep
    PROVE  \E f : Unfolds(f, text, sep, 1) /\ Split(text, sep) = f[1]
  <1> DEFINE n == Len(text)
             rest(f, i) == IF NextCut(text, sep, i) > n THEN <<>>
                           ELSE f[NextCut(text, sep, i) + 1]
             Bad == {k \in 1..(n + 1) : ~ \E f : Unfolds(f, text, sep, k)}
  <1>1. n \in Nat
    BY LenProperties
  <1>2. Bad = {}
    <2> SUFFICES ASSUME Bad # {} PROVE FALSE
      OBVIOUS
    <2>1. PICK k \in Bad : \A y \in Bad : k >= y
      <3>1. Bad \in SUBSET (1..(n + 1)) /\ n + 1 \in Nat
        BY <1>1
      <3> QED BY <3>1, FirstAndLast
    <2>2. k \in 1..(n + 1) /\ ~ \E f : Unfolds(f, text, sep, k)
      OBVIOUS
    <2>3. \E g : k + 1 <= n + 1 => Unfolds(g, text, sep, k + 1)
      <3>1. CASE k + 1 <= n + 1
        <4>1. k + 1 \in 1..(n + 1) /\ ~(k >= k + 1)
          BY <1>1, <2>2, <3>1
        <4>2. k + 1 \notin Bad
          BY <2>1, <4>1
        <4> QED BY <4>1, <4>2
      <3> QED BY <3>1
    <2>4. PICK g : k + 1 <= n + 1 => Unfolds(g, text, sep, k + 1)
      BY <2>3
    <2> DEFINE f == [i \in k..(n + 1) |-> IF i = k THEN Own(text, sep, k) \o rest(g, k) ELSE g[i]]
    <2>5. ASSUME NEW i \in k..(n + 1)
          PROVE  f[i] = Own(text, sep, i) \o rest(f, i)
      <3> DEFINE c == NextCut(text, sep, i)
      <3>0. i \in 1..(n + 1) /\ k \in Nat /\ i \in Nat
        BY <1>1, <2>2
      <3>1. c \in i..(n + 1)
        BY <3>0, NextCutIsNext
      <3>2. c <= n => c + 1 \in k..(n + 1) /\ c + 1 # k
        BY <1>1, <3>0, <3>1
      <3>3. rest(f, i) = rest(g, i)
        <4>1. c <= n => f[c + 1] = g[c + 1]
          BY <3>2
        <4>2. ~(c > n) => c <= n
          BY <1>1, <3>0, <3>1
        <4> QED BY <4>1, <4>2
      <3>4. CASE i = k
        BY <3>3, <3>4
      <3>5. CASE i # k
        <4>1. k + 1 <= n + 1 /\ i \in (k + 1)..(n + 1)
          BY <1>1, <3>0, <3>5
        <4>2. g[i] = Own(text, sep, i) \o rest(g, i)
          <5>1. g = [m \in (k + 1)..(n + 1) |-> Own(text, sep, m) \o rest(g, m)]
            BY <2>4, <4>1 DEF Unfolds
          <5> HIDE DEF rest, n
          <5> QED BY <4>1, <5>1
        <4>3. f[i] = g[i]
          BY <3>5
        <4> HIDE DEF f, rest
        <4> QED BY <3>3, <4>2, <4>3
      <3> QED BY <3>4, <3>5
    <2>6. Unfolds(f, text, sep, k)
      <3>1. f = [i \in k..(n + 1) |-> f[i]]
        OBVIOUS
      <3>2. f = [i \in k..(n + 1) |-> Own(text, sep, i) \o rest(f, i)]
        <4> HIDE DEF f, rest, n
        <4> QED BY <2>5, <3>1
      <3> HIDE DEF f
      <3> QED BY <3>2 DEF Unfolds
    <2> QED BY <2>2, <2>6
  <1>3. 1 \in 1..(n + 1)
    BY <1>1
  <1>4. \E f : Unfolds(f, text, sep, 1)
    BY <1>2, <1>3
  <1> QED BY Zenon, <1>4 DEF Split, Unfolds, Own, NextCut, Cuts

LEMMA PieceStep ==
    ASSUME NEW D, NEW text \in Seq(D), NEW sep, NEW i \in 1..(Len(text) + 1), NEW x
    PROVE  Piece(text, sep, i, x) <=>
              \/ i < NextCut(text, sep, i) /\ x = SubSeq(text, i, NextCut(text, sep, i) - 1)
              \/ /\ NextCut(text, sep, i) <= Len(text)
                 /\ Piece(text, sep, NextCut(text, sep, i) + 1, x)
  <1> DEFINE n == Len(text)
             c == NextCut(text, sep, i)
  <1>1. n \in Nat /\ i \in 1..(n + 1)
    BY LenProperties
  <1>2. /\ c \in i..(n + 1) /\ (c <= n => text[c] = sep)
        /\ \A j \in i..n : text[j] = sep => c <= j
    BY NextCutIsNext
  <1> HIDE DEF n, c
  <1>3. ASSUME i < c, x = SubSeq(text, i, c - 1) PROVE Piece(text, sep, i, x)
    <2>1. i \in i..n /\ c - 1 \in i..n /\ i <= c - 1
      BY <1>1, <1>2, <1>3
    <2>2. c - 1 = n \/ text[(c - 1) + 1] = sep
      <3>1. c = n + 1 \/ c <= n
        BY <1>1, <1>2
      <3>2. (c - 1) + 1 = c /\ (c = n + 1 => c - 1 = n)
        BY <1>1, <1>2
      <3> QED BY <1>2, <3>1, <3>2
    <2>3. \A j \in i..(c - 1) : text[j] # sep
      BY <1>1, <1>2
    <2> QED BY <1>3, <2>1, <2>2, <2>3 DEF Piece, n
  <1>4. ASSUME c <= n, Piece(text, sep, c + 1, x) PROVE Piece(text, sep, i, x)
    <2>1. PICK a \in (c + 1)..n, b \in (c + 1)..n :
              /\ a <= b /\ x = SubSeq(text, a, b)
              /\ a = c + 1 \/ text[a - 1] = sep
              /\ b = n \/ text[b + 1] = sep
              /\ \A j \in a..b : text[j] # sep
      BY <1>4 DEF Piece, n
    <2>2. a \in i..n /\ b \in i..n /\ (a = c + 1 => a - 1 = c)
      BY <1>1, <1>2
    <2>3. text[a - 1] = sep
      BY <1>2, <1>4, <2>1, <2>2
    <2> QED BY <2>1, <2>2, <2>3 DEF Piece, n
  <1>5. ASSUME Piece(text, sep, i, x)
        PROVE  (i < c /\ x = SubSeq(text, i, c - 1)) \/ (c <= n /\ Piece(text, sep, c + 1, x))
    <2>1. PICK a \in i..n, b \in i..n :
              /\ a <= b /\ x = SubSeq(text, a, b)
              /\ a = i \/ text[a - 1] = sep
              /\ b = n \/ text[b + 1] = sep
              /\ \A j \in a..b : text[j] # sep
      BY <1>5 DEF Piece, n
    <2>2. CASE a = i
      <3>1. b < c
        <4> SUFFICES ASSUME ~(b < c) PROVE FALSE
          OBVIOUS
        <4>1. c \in a..b /\ c <= n
          BY <1>1, <1>2, <2>1, <2>2
        <4> QED BY <1>2, <2>1, <4>1
      <3>2. c <= b + 1
        <4>1. CASE b = n
          BY <1>1, <1>2, <4>1
        <4>2. CASE b # n
          <5>1. b + 1 \in i..n /\ text[b + 1] = sep
            BY <1>1, <2>1, <4>2
          <5> QED BY <1>2, <5>1
        <4> QED BY <4>1, <4>2
      <3>3. b = c - 1 /\ i < c
        BY <1>1, <1>2, <2>1, <2>2, <3>1, <3>2
      <3> QED BY <2>1, <2>2, <3>3
    <2>3. CASE a # i
      <3>1. a - 1 \in i..n /\ text[a - 1] = sep
        BY <1>1, <2>1, <2>3
      <3>2. c <= a - 1
        BY <1>2, <3>1
      <3>3. c <= n /\ a \in (c + 1)..n /\ b \in (c + 1)..n
        BY <1>1, <1>2, <2>1, <3>2
      <3>4. Piece(text, sep, c + 1, x)
        BY <2>1, <3>1, <3>3 DEF Piece, n
      <3> QED BY <3>3, <3>4
    <2> QED BY <2>2, <2>3
  <1> QED BY <1>3, <1>4, <1>5 DEF c, n

\* What Split returns: the pieces between separators that are not empty.
LEMMA SplitIsPieces ==
    ASSUME NEW D, NEW text \in Seq(D), NEW sep, NEW x
    PROVE  x \in Range(Split(text, sep)) <=> Piece(text, sep, 1, x)
  <1> DEFINE n == Len(text)
  <1>1. n \in Nat
    BY LenProperties
  <1>2. PICK f : Unfolds(f, text, sep, 1) /\ Split(text, sep) = f[1]
    BY SplitUnfolds
  <1> DEFINE Right(i) == /\ f[i] \in Seq(Seq(D))
                         /\ \A y : y \in Range(f[i]) <=> Piece(text, sep, i, y)
             Bad == {i \in 1..(n + 1) : ~Right(i)}
  <1>3. Bad = {}
    <2> SUFFICES ASSUME Bad # {} PROVE FALSE
      OBVIOUS
    <2>1. PICK k \in Bad : \A y \in Bad : k >= y
      <3>1. Bad \in SUBSET (1..(n + 1)) /\ n + 1 \in Nat
        BY <1>1
      <3> HIDE DEF Bad
      <3> QED BY <3>1, FirstAndLast
    <2> DEFINE c == NextCut(text, sep, k)
               own == Own(text, sep, k)
               rest == IF c > n THEN <<>> ELSE f[c + 1]
    <2>2. k \in 1..(n + 1) /\ ~Right(k)
      OBVIOUS
    <2>3. c \in k..(n + 1)
      BY <2>2, NextCutIsNext
    <2>4. f[k] = own \o rest
      <3> HIDE DEF Right
      <3>1. f = [i \in 1..(n + 1) |->
                   Own(text, sep, i) \o (IF NextCut(text, sep, i) > n THEN <<>>
                                         ELSE f[NextCut(text, sep, i) + 1])]
        BY <1>2 DEF Unfolds
      <3> HIDE DEF n
      <3> QED BY <2>2, <3>1
    <2>5. own \in Seq(Seq(D)) /\
          \A y : y \in Range(own) <=> k < c /\ y = SubSeq(text, k, c - 1)
      <3>1. CASE k < c
        <4>1. SubSeq(text, k, c - 1) \in Seq(D)
          <5>1. k \in Int /\ c - 1 \in Int
            BY <1>1, <2>2, <2>3
          <5>2. \A j \in k..(c - 1) : j \in 1..n
            BY <1>1, <2>2, <2>3
          <5>3. \A j \in k..(c - 1) : text[j] \in D
            BY <5>2, ElementOfSeq
          <5> QED BY <5>1, <5>3, SubSeqProperties
        <4> DEFINE s == SubSeq(text, k, c - 1)
        <4>2. own = <<s>>
          BY <3>1 DEF Own
        <4>3. s = SubSeq(text, k, c - 1) /\ s \in Seq(D)
          BY <4>1
        <4> HIDE DEF s, own, c, Right, Bad
        <4>4. <<s>> \in Seq(Seq(D)) /\ Len(<<s>>) = 1 /\ <<s>>[1] = s
          BY <4>3
        <4>5. Range(<<s>>) = {s}
          <5>1. Range(<<s>>) = {<<s>>[i] : i \in 1..1}
            BY <4>4, RangeEquality
          <5>2. 1..1 = {1}
            OBVIOUS
          <5> QED BY <4>4, <5>1, <5>2
        <4> QED BY <3>1, <4>2, <4>3, <4>4, <4>5
      <3>2. CASE ~(k < c)
        <4>1. own = <<>>
          BY <3>2 DEF Own
        <4> HIDE DEF own, c, Right
        <4>2. <<>> \in Seq(Seq(D)) /\ Range(<<>>) = {}
          BY DEF Range
        <4> QED BY <3>2, <4>1, <4>2
      <3> QED BY <3>1, <3>2
    <2>6. rest \in Seq(Seq(D)) /\
          \A y : y \in Range(rest) <=> c <= n /\ Piece(text, sep, c + 1, y)
      <3>1. CASE c <= n
        <4>1. c + 1 \in 1..(n + 1) /\ ~(k >= c + 1) /\ ~(c > n)
          BY <1>1, <2>2, <2>3, <3>1
        <4>2. c + 1 \notin Bad
          BY <2>1, <4>1
        <4>3. Right(c + 1)
          BY <4>1, <4>2
        <4>4. rest = f[c + 1]
          BY <4>1
        <4> HIDE DEF rest, c
        <4> QED BY <3>1, <4>3, <4>4
      <3>2. CASE ~(c <= n)
        <4>1. rest = <<>>
          BY <1>1, <2>2, <2>3, <3>2
        <4> HIDE DEF rest, c, Right
        <4>2. <<>> \in Seq(Seq(D)) /\ Range(<<>>) = {}
          BY DEF Range
        <4> QED BY <3>2, <4>1, <4>2
      <3> QED BY <3>1, <3>2
    <2>7. f[k] \in Seq(Seq(D)) /\ Range(f[k]) = Range(own) \cup Range(rest)
      <3> HIDE DEF own, rest, Right
      <3> QED BY <2>4, <2>5, <2>6, ConcatProperties, RangeConcatenation
    <2>8. ASSUME NEW y PROVE y \in Range(f[k]) <=> Piece(text, sep, k, y)
      <3>1. Piece(text, sep, k, y) <=> \/ k < c /\ y = SubSeq(text, k, c - 1)
                                       \/ c <= n /\ Piece(text, sep, c + 1, y)
        <4> HIDE DEF own, rest, Right, Bad
        <4>1. k \in 1..(Len(text) + 1)
          BY <2>2
        <4> QED BY Zenon, <4>1, PieceStep
      <3> HIDE DEF own, rest, Right, Bad, c, n
      <3>2. y \in Range(own) <=> k < c /\ y = SubSeq(text, k, c - 1)
        BY <2>5
      <3>3. y \in Range(rest) <=> c <= n /\ Piece(text, sep, c + 1, y)
        BY <2>6
      <3>4. y \in Range(f[k]) <=> y \in Range(own) \/ y \in Range(rest)
        BY <2>7
      <3> QED BY Zenon, <3>1, <3>2, <3>3, <3>4
    <2> QED BY <2>2, <2>7, <2>8
  <1>4. Right(1)
    <2>1. 1 \in 1..(n + 1)
      BY <1>1
    <2> QED BY <1>3, <2>1
  <1> QED BY <1>2, <1>4

\* in_list finds the names that stand whole between commas.
LEMMA InListIsListed ==
    ASSUME NEW D, NEW dest \in Seq(D), NEW name
    PROVE  /\ InList(dest, name) => Listed(name, dest)
           /\ Listed(name, dest) /\ name # <<>> /\ "," \notin Range(name) => InList(dest, name)
  <1> DEFINE n == Len(dest)
  <1>1. n \in Nat /\ DOMAIN dest = 1..n
    BY LenProperties
  <1>2. InList(dest, name) <=> Piece(dest, ",", 1, name)
    BY SplitIsPieces DEF InList
  <1>3. ASSUME Piece(dest, ",", 1, name) PROVE Listed(name, dest)
    BY <1>1, <1>3 DEF Piece, Listed
  <1>4. ASSUME Listed(name, dest), name # <<>>, "," \notin Range(name)
        PROVE  Piece(dest, ",", 1, name)
    <2>1. PICK i \in 1..n, j \in 1..n :
              /\ SubSeq(dest, i, j) = name
              /\ i = 1 \/ dest[i - 1] = ","
              /\ j = n \/ dest[j + 1] = ","
      BY <1>1, <1>4 DEF Listed
    <2>2. i <= j
      <3>1. i \in Int /\ j \in Int /\ (i <= j \/ j < i)
        BY <1>1
      <3>2. j < i => SubSeq(dest, i, j) = <<>>
        BY <3>1, SubSeqEmpty
      <3>3. name # <<>> /\ SubSeq(dest, i, j) = name
        BY <1>4, <2>1
      <3> QED BY <3>1, <3>2, <3>3
    <2>3. ASSUME NEW m \in i..j PROVE dest[m] # ","
      <3>1. \A o \in i..j : dest[o] \in D
        <4>1. \A o \in i..j : o \in 1..n
          BY <1>1
        <4> QED BY <4>1, ElementOfSeq
      <3>2. /\ name \in Seq(D) /\ Len(name) = j - i + 1
            /\ \A o \in 1..(j - i + 1) : name[o] = dest[i + o - 1]
        <4>1. i \in Int /\ j \in Int /\ i <= j
          BY <1>1, <2>2
        <4>2. /\ SubSeq(dest, i, j) \in Seq(D) /\ Len(SubSeq(dest, i, j)) = j - i + 1
              /\ \A o \in 1..(j - i + 1) : SubSeq(dest, i, j)[o] = dest[i + o - 1]
          BY <3>1, <4>1, SubSeqProperties
        <4> QED BY <2>1, <4>2
      <3>3. m - i + 1 \in 1..(j - i + 1) /\ i + (m - i + 1) - 1 = m
        BY <1>1
      <3>4. dest[m] = name[m - i + 1] /\ m - i + 1 \in DOMAIN name
        BY <3>2, <3>3, LenProperties
      <3>5. dest[m] \in Range(name)
        BY <3>4 DEF Range
      <3> QED BY <1>4, <3>5
    <2> QED BY <2>1, <2>2, <2>3 DEF Piece
  <1> QED BY <1>2, <1>3, <1>4

\* Only parse_command says that it took a request, so TakenAsListed is inductive.
LEMMA TakenStep == TakenAsListed /\ [LibNext]_allVars => TakenAsListed'
  <1> SUFFICES ASSUME TakenAsListed, [LibNext]_allVars, result'.of = "parse"
               PROVE  LET Names(set) == \/ result'.dest = <<>>
                                        \/ \E name \in set : Listed(name, result'.dest)
                      IN  /\ Names({Hostname}) => result'.taken
                          /\ result'.taken => Names({Hostname, <<"0.0.0.0">>} \cup Range(Nics))
    BY DEF TakenAsListed, Listed
  <1>1. CASE result' = result
    BY <1>1 DEF TakenAsListed
  <1>2. CASE ParseCommand /\ result' # None
    <2>1. PICK m \in Requests : result' = [of |-> "parse", dest |-> m.dest, taken |-> ForMe(m.dest)]
      BY <1>2 DEF ParseCommand
    <2> DEFINE d == m.dest
               own == AddressOf(Device(ConfSettings[conf]))
    <2>2. d \in Seq(Range(d)) /\ Hostname # <<>> /\ "," \notin Range(Hostname)
      BY HostnameAssumption
    <2>3. result'.dest = d /\ result'.taken = ForMe(d)
      BY <2>1
    <2>4. ForMe(d) <=> d = <<>> \/ InList(d, own) \/ InList(d, Hostname)
      BY DEF ForMe
    <2>5. own \in {<<"0.0.0.0">>} \cup Range(Nics)
      BY DEF AddressOf, Range
    <2> HIDE DEF d, own
    <2>6. Listed(Hostname, d) => InList(d, Hostname)
      BY <2>2, InListIsListed
    <2>7. (InList(d, own) => Listed(own, d)) /\ (InList(d, Hostname) => Listed(Hostname, d))
      BY <2>2, InListIsListed
    <2> QED BY Zenon, <2>3, <2>4, <2>5, <2>6, <2>7
  <1>3. CASE \/ ExecuteAll \/ FileSyncExecute \/ PkgExecute \/ UpdateExecute \/ ScriptExecute
             \/ ExecuteReturns \/ LookUp \/ Find \/ UmountNothing \/ UmountNfs \/ GetInfo
    <2>1. CASE FileSyncExecute \/ PkgExecute \/ UpdateExecute \/ ScriptExecute \/ ExecuteReturns
               \/ Find \/ UmountNothing
      <3>1. result' = result
        BY <2>1 DEF FileSyncExecute, PkgExecute, UpdateExecute, ScriptExecute, ExecuteReturns,
                    Find, UmountNothing, Rest
      <3> QED BY <1>1, <3>1
    <2>2. CASE ExecuteAll \/ LookUp
      BY <2>2 DEF ExecuteAll, LookUp, None
    <2>3. CASE UmountNfs
      <3>1. result' = result \/ result' = [of |-> "umount", share |-> Visible(tempdir)]
        BY <2>3 DEF UmountNfs
      <3> QED BY <1>1, <3>1
    <2>4. CASE GetInfo
      BY <2>4 DEF GetInfo, Outcome
    <2> QED BY <1>3, <2>1, <2>2, <2>3, <2>4
  <1>4. CASE Admin \/ UNCHANGED allVars \/ (ParseCommand /\ result' = None)
    BY <1>1, <1>4 DEF Admin, libVars, allVars, None
  <1> QED BY <1>2, <1>3, <1>4 DEF LibNext, Library

-----------------------------------------------------------------------------
(***************************************************************************)
(* The theorems.                                                           *)
(***************************************************************************)
LibInv == MountInv /\ FdsInv /\ UmountInv /\ QueueInv

LEMMA Initially == LibInit => LibInv
  <1> SUFFICES ASSUME LibInit PROVE LibInv
    OBVIOUS
  <1>0. /\ mounts = << >> /\ dirs = {} /\ phase = "idle" /\ loc \in Shares /\ got = "nothing"
        /\ status = "idle" /\ queue = << >> /\ it = 1 /\ requests = 0
        /\ free = MaxFds /\ loads = 0 /\ result = None /\ lookup = "sound"
    BY DEF LibInit, Init
  <1>1. MountInv
    <2>1. TableOK /\ OneMountPerShare /\ OwnMountPoints
      BY <1>0 DEF TableOK, OneMountPerShare, OwnMountPoints
    <2>2. NotOurs /\ FreshDir /\ Shows /\ CopiesNothing /\ CopiesTheShare
      BY <1>0 DEF NotOurs, FreshDir, Shows, CopiesNothing, CopiesTheShare
    <2> QED BY <2>1, <2>2 DEF MountInv
  <1>2. FdsInv
    <2>1. MaxFds \in Nat
      BY LibraryAssumption
    <2> QED BY <1>0, <2>1 DEF FdsInv
  <1>3. UmountInv
    BY <1>0 DEF UmountInv, UnmountsTheShare, None
  <1>4. QueueInv
    BY <1>0 DEF QueueInv, SyncFirst, LastSynced
  <1> QED BY <1>1, <1>2, <1>3, <1>4 DEF LibInv

LEMMA Inductive == LibInv /\ [LibNext]_allVars => LibInv'
  BY MountStep, FdsStep, UmountStep, QueueStep DEF LibInv

LEMMA Invariant == LibSpec => []LibInv
  BY Initially, Inductive, PTL DEF LibSpec

\* Whatever is asked for, and whatever the administrator mounts and unmounts,
\* a share that the process has mounted is mounted again only when the command
\* that looks for it failed (command.cpp:36-44).
THEOREM SharesMountedOnce == LibSpec => []OneMountPerShare
  <1>1. LibInv => OneMountPerShare
    BY DEF LibInv, MountInv
  <1> QED BY <1>1, Invariant, PTL

\* A mount of the process's own is alone on a directory that exists, for any
\* number of names mktemp can make.
THEOREM MountsStayApart == LibSpec => []OwnMountPoints
  <1>1. LibInv => OwnMountPoints
    BY DEF LibInv, MountInv
  <1> QED BY <1>1, Invariant, PTL

\* A file command copies the share it names or one that grep takes for it, if
\* no mount vanished and no command failed between its two looks, outside the
\* administrator's directory, while mktemp has a name left.
THEOREM RightShareCopied == LibSpec => []CopiesTheShare
  <1>1. LibInv => CopiesTheShare
    BY DEF LibInv, MountInv
  <1> QED BY <1>1, Invariant, PTL

\* And a lookup lets umount_nfs unmount no other share either.
THEOREM RightShareUnmounted == LibSpec => []UnmountsTheShare
  <1>1. LibInv => UnmountsTheShare
    BY DEF LibInv, UmountInv
  <1> QED BY <1>1, Invariant, PTL

\* With any limit on descriptors, a call that never returns was preceded by as
\* many successful reads of the load (sysutils.cpp:146-172), or met a file that
\* went away between the check and the opening.
THEOREM HangsExplained == LibSpec => []HangsAreExplained
  <1>1. LibInv => HangsAreExplained
    BY LibraryAssumption DEF LibInv, FdsInv, HangsAreExplained
  <1> QED BY <1>1, Invariant, PTL

\* In every pass over a queue of any length packages follow the synchronisation
\* of their own request, and the list is from it if it brought one
\* (command.cpp:336-346).
THEOREM FilesBeforePackages == LibSpec => []PackagesFollowFiles
  <1>1. LibInv => PackagesFollowFiles
    <2> SUFFICES ASSUME LibInv, Running("pkg"), queue[it].synced
                 PROVE  Current(queue[it].of)
      BY DEF PackagesFollowFiles, Current
    <2>1. status = "executing" /\ it \in 1..Len(queue) /\ queue[it].kind = "pkg" /\ it \in Nat
      BY LenProperties DEF Running, LibInv, QueueInv
    <2>2. it > 1 /\ queue[it - 1].kind = "sync" /\ queue[it - 1].of = queue[it].of
      BY <2>1 DEF LibInv, QueueInv, SyncFirst
    <2> DEFINE n == Len(queue)
               k == it - 1
    <2>3. n \in Nat
      BY LenProperties DEF LibInv, QueueInv
    <2> HIDE DEF n
    <2>4. k \in 1..n /\ it = k + 1
      BY <2>1, <2>2, <2>3 DEF n
    <2>5. k \in 1..n /\ it = k + 1 /\ queue[k].kind = "sync" => Current(queue[k].of)
      BY <2>1 DEF LibInv, QueueInv, LastSynced, n
    <2> QED BY <2>2, <2>4, <2>5
  <1> QED BY <1>1, Invariant, PTL

\* A request of any text is taken if it names nobody or this host, and only if
\* it names nobody or a name of this host, whole (strutils.cpp:117-120).
THEOREM TakenByTheListed == LibSpec => []TakenAsListed
  <1>1. LibInit => TakenAsListed
    BY DEF LibInit, None, TakenAsListed
  <1> QED BY <1>1, TakenStep, PTL DEF LibSpec

-----------------------------------------------------------------------------
(***************************************************************************)
(* The hardware reports. What trim returns is part of what it was given,   *)
(* and only blanks are left out, so in a tidy line the key comes first,    *)
(* the value last, and between them blanks and the one colon.              *)
(***************************************************************************)
LEMMA MinAndMax ==
    ASSUME NEW n \in Nat, NEW T \in SUBSET (1..n), T # {}
    PROVE  /\ Min(T) \in T /\ \A y \in T : Min(T) <= y
           /\ Max(T) \in T /\ \A y \in T : Max(T) >= y
  BY FirstAndLast DEF Min, Max

LEMMA PartIs ==
    ASSUME NEW S, NEW s \in Seq(S), NEW a \in Nat \ {0}, NEW b \in Nat, a <= b + 1, b <= Len(s)
    PROVE  /\ SubSeq(s, a, b) \in Seq(S) /\ Len(SubSeq(s, a, b)) = b - a + 1
           /\ \A k \in 1..(b - a + 1) : SubSeq(s, a, b)[k] = s[a + k - 1]
  <1>1. \A k \in a..b : s[k] \in S
    BY LenProperties, ElementOfSeq
  <1>2. Len(SubSeq(s, a, b)) = IF a <= b THEN b - a + 1 ELSE 0
    BY <1>1, SubSeqProperties
  <1>3. ~(a <= b) => b - a + 1 = 0
    OBVIOUS
  <1> QED BY <1>1, <1>2, <1>3, SubSeqProperties

LEMMA PartOfPart ==
    ASSUME NEW S, NEW s \in Seq(S), NEW a \in Nat \ {0}, NEW b \in Nat, a <= b + 1, b <= Len(s),
           NEW c \in Nat \ {0}, NEW d \in Nat, c <= d + 1, d <= b - a + 1
    PROVE  SubSeq(SubSeq(s, a, b), c, d) = SubSeq(s, a + c - 1, a + d - 1)
  <1> DEFINE t == SubSeq(s, a, b)
             u == SubSeq(t, c, d)
             v == SubSeq(s, a + c - 1, a + d - 1)
             m == d - c + 1
  <1>1. t \in Seq(S) /\ Len(t) = b - a + 1 /\ \A k \in 1..(b - a + 1) : t[k] = s[a + k - 1]
    BY PartIs
  <1> HIDE DEF t
  <1>2. u \in Seq(S) /\ Len(u) = m /\ \A k \in 1..m : u[k] = t[c + k - 1]
    <2>1. t \in Seq(S) /\ d <= Len(t) /\ d - c + 1 = m
      BY <1>1
    <2> HIDE DEF m
    <2> QED BY <2>1, PartIs
  <1> HIDE DEF u
  <1>3. v \in Seq(S) /\ Len(v) = m /\ \A k \in 1..m : v[k] = s[(a + c - 1) + k - 1]
    <2> DEFINE p == a + c - 1
               q == a + d - 1
    <2>1. p \in Nat \ {0} /\ q \in Nat /\ p <= q + 1 /\ q <= Len(s) /\ q - p + 1 = m
      BY LenProperties
    <2> HIDE DEF m, p, q
    <2>2. /\ SubSeq(s, p, q) \in Seq(S) /\ Len(SubSeq(s, p, q)) = q - p + 1
          /\ \A k \in 1..(q - p + 1) : SubSeq(s, p, q)[k] = s[p + k - 1]
      BY <2>1, PartIs
    <2>3. /\ SubSeq(s, p, q) \in Seq(S) /\ Len(SubSeq(s, p, q)) = m
          /\ \A k \in 1..m : SubSeq(s, p, q)[k] = s[p + k - 1]
      BY <2>1, <2>2
    <2> QED BY <2>3 DEF p, q
  <1> HIDE DEF v
  <1>4. ASSUME NEW k \in 1..m PROVE u[k] = v[k]
    <2>1. c + k - 1 \in 1..(b - a + 1) /\ (a + c - 1) + k - 1 = a + (c + k - 1) - 1
      OBVIOUS
    <2> HIDE DEF m
    <2> QED BY <1>1, <1>2, <1>3, <2>1
  <1>5. u = v
    BY <1>2, <1>3, <1>4, SeqEqual
  <1> QED BY <1>5 DEF u, v, t

\* What is cut off are characters of Out.
Cut(text, part, Out) ==
    \E a \in 1..(Len(text) + 1), b \in 0..Len(text) :
        /\ a <= b + 1 /\ part = SubSeq(text, a, b)
        /\ \A k \in 1..(a - 1) : text[k] \in Out
        /\ \A k \in (b + 1)..Len(text) : text[k] \in Out

LEMMA WholeIsPart ==
    ASSUME NEW S, NEW text \in Seq(S) PROVE SubSeq(text, 1, Len(text)) = text
  <1>1. Len(text) \in Nat /\ \A k \in 1..Len(text) : text[k] \in S
    BY LenProperties, ElementOfSeq
  <1> DEFINE s == SubSeq(text, 1, Len(text))
  <1>2. s \in Seq(S) /\ Len(s) = Len(text) /\ \A k \in 1..Len(text) : s[k] = text[k]
    BY <1>1, SubSeqProperties
  <1> HIDE DEF s
  <1>3. s = text
    BY <1>2, SeqEqual
  <1> QED BY <1>3 DEF s

LEMMA StripCuts ==
    ASSUME NEW S, NEW text \in Seq(S), NEW c
    PROVE  Cut(text, Strip(text, c), {c}) /\ Strip(text, c) \in Seq(S)
  <1> DEFINE N(t) == {i \in 1..Len(t) : t[i] # c}
             first == IF N(text) # {} THEN Min(N(text)) ELSE 0
             left == IF first > 1 THEN SubSeq(text, first, Len(text)) ELSE text
             last == IF N(left) # {} THEN Max(N(left)) ELSE 0
             part == IF last > 1 \/ (last = 1 /\ left[1] \notin OneChar) THEN SubSeq(left, 1, last) ELSE left
             len == Len(text)
             a == IF first > 1 THEN first ELSE 1
             n == len - a + 1
             m == IF last > 1 \/ (last = 1 /\ left[1] \notin OneChar) THEN last ELSE n
  <1>1. Strip(text, c) = part
    BY DEF Strip, SelectInSeq, SelectLastInSeq
  <1>2. len \in Nat /\ \A k \in 1..len : text[k] \in S
    BY LenProperties, ElementOfSeq
  <1>3. first \in 0..len /\ \A k \in 1..(first - 1) : text[k] = c
    <2>1. CASE N(text) = {}
      BY <1>2, <2>1
    <2>2. CASE N(text) # {}
      <3>1. first \in N(text) /\ \A y \in N(text) : first <= y
        BY <1>2, <2>2, MinAndMax
      <3> HIDE DEF first
      <3> QED BY <1>2, <3>1
    <2> QED BY <2>1, <2>2
  <1> HIDE DEF first, len
  <1>4. a \in 1..(len + 1) /\ n \in Nat /\ \A k \in 1..(a - 1) : text[k] = c
    BY <1>2, <1>3
  <1>5. left = SubSeq(text, a, len)
    BY WholeIsPart DEF len
  <1> HIDE DEF left, a
  <1>6. left \in Seq(S) /\ Len(left) = n /\ \A k \in 1..n : left[k] = text[a + k - 1]
    <2>1. \A k \in a..len : text[k] \in S
      BY <1>2, <1>4
    <2>2. a \in Int /\ len \in Int
      BY <1>2, <1>4
    <2>3. /\ left \in Seq(S) /\ Len(left) = IF a <= len THEN len - a + 1 ELSE 0
          /\ \A k \in 1..(len - a + 1) : left[k] = text[a + k - 1]
      BY <1>5, <2>1, <2>2, SubSeqProperties
    <2>4. ~(a <= len) => n = 0
      BY <1>2, <1>4
    <2> QED BY <2>3, <2>4
  <1>7. last \in 0..n /\ \A k \in (last + 1)..n : left[k] = c
    <2>1. CASE N(left) = {}
      <3>1. \A k \in 1..n : left[k] = c
        BY <1>6, <2>1
      <3> QED BY <1>4, <2>1, <3>1
    <2>2. CASE N(left) # {}
      <3>1. last \in N(left) /\ \A y \in N(left) : last >= y
        BY <1>4, <1>6, <2>2, MinAndMax
      <3> HIDE DEF last
      <3>2. last \in 1..n
        BY <1>6, <3>1
      <3>3. ASSUME NEW k \in (last + 1)..n PROVE left[k] = c
        <4>1. k \in 1..n /\ ~(last >= k)
          BY <1>4, <3>2
        <4> QED BY <1>6, <3>1, <4>1
      <3> QED BY <1>4, <3>2, <3>3
    <2> QED BY <2>1, <2>2
  <1> HIDE DEF last, n
  <1>8. part = SubSeq(left, 1, m) /\ m \in 0..n /\ \A k \in (m + 1)..n : left[k] = c
    <2>1. CASE last > 1 \/ (last = 1 /\ left[1] \notin OneChar)
      BY <1>7, <2>1
    <2>2. CASE ~(last > 1 \/ (last = 1 /\ left[1] \notin OneChar))
      <3>1. part = left /\ m = n
        BY <2>2
      <3> HIDE DEF part, m
      <3>2. left = SubSeq(left, 1, n)
        BY <1>6, WholeIsPart
      <3> QED BY <1>4, <3>1, <3>2
    <2> QED BY <2>1, <2>2
  <1> HIDE DEF part, m
  <1>9. part = SubSeq(text, a, a + m - 1)
    <2>1. a \in Nat \ {0} /\ len \in Nat /\ a <= len + 1 /\ len <= Len(text) /\ m \in Nat
          /\ m <= len - a + 1 /\ a + 1 - 1 = a
      BY <1>2, <1>4, <1>8 DEF n, len
    <2>2. SubSeq(SubSeq(text, a, len), 1, m) = SubSeq(text, a + 1 - 1, a + m - 1)
      BY <2>1, PartOfPart
    <2> QED BY <1>5, <1>8, <2>1, <2>2
  <1>10. a + m - 1 \in 0..len /\ a <= a + m - 1 + 1
    BY <1>2, <1>4, <1>8 DEF n
  <1>11. ASSUME NEW k \in (a + m - 1 + 1)..len PROVE text[k] = c
    <2>1. k - a + 1 \in (m + 1)..n /\ k - a + 1 \in 1..n /\ a + (k - a + 1) - 1 = k
      BY <1>2, <1>4, <1>8 DEF n
    <2> QED BY <1>6, <1>8, <2>1
  <1>12. part \in Seq(S)
    <2>1. \A k \in a..(a + m - 1) : text[k] \in S
      BY <1>2, <1>4, <1>10
    <2> QED BY <1>4, <1>9, <1>10, <2>1, SubSeqProperties
  <1> QED BY <1>1, <1>4, <1>9, <1>10, <1>11, <1>12 DEF Cut, len

LEMMA CutOfCut ==
    ASSUME NEW S, NEW text \in Seq(S), NEW O, NEW P, NEW s, Cut(text, s, O), NEW t, Cut(s, t, P)
    PROVE  Cut(text, t, O \cup P)
  <1>1. PICK a \in 1..(Len(text) + 1), b \in 0..Len(text) :
           /\ a <= b + 1 /\ s = SubSeq(text, a, b)
           /\ \A k \in 1..(a - 1) : text[k] \in O
           /\ \A k \in (b + 1)..Len(text) : text[k] \in O
    BY DEF Cut
  <1>2. PICK c \in 1..(Len(s) + 1), d \in 0..Len(s) :
           /\ c <= d + 1 /\ t = SubSeq(s, c, d)
           /\ \A k \in 1..(c - 1) : s[k] \in P
           /\ \A k \in (d + 1)..Len(s) : s[k] \in P
    BY DEF Cut
  <1> DEFINE len == Len(text)
             first == a + c - 1
             last == a + d - 1
  <1>3. len \in Nat /\ a \in Nat \ {0} /\ b \in Nat /\ b <= len
    BY LenProperties
  <1>4. Len(s) = b - a + 1 /\ \A k \in 1..(b - a + 1) : s[k] = text[a + k - 1]
    BY <1>1, <1>3, PartIs
  <1>5. c \in Nat \ {0} /\ d \in Nat /\ d <= b - a + 1
    BY <1>1, <1>2, <1>3, <1>4
  <1>6. t = SubSeq(text, first, last)
    BY <1>1, <1>2, <1>3, <1>5, PartOfPart
  <1>7. first \in 1..(len + 1) /\ last \in 0..len /\ first <= last + 1
    BY <1>1, <1>2, <1>3, <1>4, <1>5
  <1>8. ASSUME NEW k \in 1..(first - 1) PROVE text[k] \in O \cup P
    <2>1. CASE k < a
      BY <1>1, <1>3, <2>1
    <2>2. CASE k >= a
      <3>1. k - a + 1 \in 1..(c - 1) /\ k - a + 1 \in 1..(b - a + 1) /\ a + (k - a + 1) - 1 = k
        BY <1>1, <1>2, <1>3, <1>4, <1>5, <2>2
      <3> QED BY <1>2, <1>4, <3>1
    <2> QED BY <1>3, <2>1, <2>2
  <1>9. ASSUME NEW k \in (last + 1)..len PROVE text[k] \in O \cup P
    <2>1. CASE k > b
      BY <1>1, <1>3, <1>5, <2>1
    <2>2. CASE k <= b
      <3>1. k - a + 1 \in (d + 1)..Len(s) /\ k - a + 1 \in 1..(b - a + 1) /\ a + (k - a + 1) - 1 = k
        BY <1>1, <1>2, <1>3, <1>4, <1>5, <2>2
      <3> QED BY <1>2, <1>4, <3>1
    <2> QED BY <1>3, <1>5, <2>1, <2>2
  <1> QED BY <1>6, <1>7, <1>8, <1>9 DEF Cut

LEMMA TrimCuts ==
    ASSUME NEW S, NEW text \in Seq(S)
    PROVE  Cut(text, Trim(text), {"sp", "tab"}) /\ Trim(text) \in Seq(S)
  <1> DEFINE s == Strip(text, "sp")
  <1>1. Cut(text, s, {"sp"}) /\ s \in Seq(S)
    BY StripCuts
  <1> HIDE DEF s
  <1>2. Cut(s, Strip(s, "tab"), {"tab"}) /\ Strip(s, "tab") \in Seq(S)
    BY <1>1, StripCuts
  <1>3. Cut(text, Strip(s, "tab"), {"sp"} \cup {"tab"})
    BY <1>1, <1>2, CutOfCut
  <1>4. {"sp"} \cup {"tab"} = {"sp", "tab"}
    OBVIOUS
  <1> QED BY <1>2, <1>3, <1>4 DEF Trim, s

\* Nothing is cut off where a text does not begin or end with a blank.
LEMMA CutStops ==
    ASSUME NEW S, NEW text \in Seq(S), NEW O, NEW part, Cut(text, part, O)
    PROVE  /\ (text # <<>> => text[1] \notin O) =>
                 \E b \in 0..Len(text) : /\ part = SubSeq(text, 1, b)
                                         /\ \A k \in (b + 1)..Len(text) : text[k] \in O
           /\ (text # <<>> => text[Len(text)] \notin O) =>
                 \E a \in 1..(Len(text) + 1) : /\ part = SubSeq(text, a, Len(text))
                                               /\ \A k \in 1..(a - 1) : text[k] \in O
  <1>1. PICK a \in 1..(Len(text) + 1), b \in 0..Len(text) :
           /\ a <= b + 1 /\ part = SubSeq(text, a, b)
           /\ \A k \in 1..(a - 1) : text[k] \in O
           /\ \A k \in (b + 1)..Len(text) : text[k] \in O
    BY DEF Cut
  <1>2. Len(text) \in Nat /\ (Len(text) > 0 => text # <<>>)
    BY LenProperties, EmptySeq
  <1>3. ASSUME text # <<>> => text[1] \notin O PROVE a = 1
    <2>1. CASE a > 1
      <3>1. 1 \in 1..(a - 1) /\ Len(text) > 0
        BY <1>2, <2>1
      <3> QED BY <1>1, <1>2, <1>3, <3>1
    <2> QED BY <1>2, <2>1
  <1>4. ASSUME text # <<>> => text[Len(text)] \notin O PROVE b = Len(text)
    <2>1. CASE b < Len(text)
      <3>1. Len(text) \in (b + 1)..Len(text) /\ Len(text) > 0
        BY <1>2, <2>1
      <3> QED BY <1>1, <1>2, <1>4, <3>1
    <2> QED BY <1>2, <2>1
  <1> QED BY <1>1, <1>3, <1>4

\* A tidy line does not begin or end with a blank.
TidyLine(line) ==
    /\ line \in Seq(Range(line))
    /\ line # <<>> => {line[1], line[Len(line)]} \cap {"sp", "tab"} = {}

LEMMA TidyIsTrimmed ==
    ASSUME NEW line, TidyLine(line) PROVE Trim(line) = line
  <1> DEFINE O == {"sp", "tab"}
             S == Range(line)
  <1>1. line \in Seq(S) /\ (line # <<>> => line[1] \notin O) /\ (line # <<>> => line[Len(line)] \notin O)
    BY DEF TidyLine
  <1> HIDE DEF O, S
  <1>2. Cut(line, Trim(line), O)
    BY <1>1, TrimCuts DEF O
  <1>3. PICK b \in 0..Len(line) :
           Trim(line) = SubSeq(line, 1, b) /\ \A k \in (b + 1)..Len(line) : line[k] \in O
    BY <1>1, <1>2, CutStops
  <1>4. Len(line) \in Nat /\ (Len(line) > 0 => line # <<>>)
    BY <1>1, LenProperties, EmptySeq
  <1>5. b = Len(line)
    <2>1. CASE b < Len(line)
      <3>1. Len(line) \in (b + 1)..Len(line) /\ Len(line) > 0
        BY <1>4, <2>1
      <3> QED BY <1>1, <1>3, <1>4, <3>1
    <2> QED BY <1>4, <2>1
  <1> QED BY <1>1, <1>3, <1>5, WholeIsPart

LEMMA ThreeParts ==
    ASSUME NEW S, NEW s \in Seq(S), NEW b \in Nat, NEW e \in Nat, b <= e, e <= Len(s)
    PROVE  s = SubSeq(s, 1, b) \o SubSeq(s, b + 1, e) \o SubSeq(s, e + 1, Len(s))
  <1> DEFINE len == Len(s)
             x == SubSeq(s, 1, b)
             y == SubSeq(s, b + 1, e)
             z == SubSeq(s, e + 1, len)
             w == x \o y
             q == w \o z
  <1>1. len \in Nat
    BY LenProperties
  <1>2. x \in Seq(S) /\ Len(x) = b /\ \A k \in 1..b : x[k] = s[k]
    <2>1. 1 \in Nat \ {0} /\ 1 <= b + 1 /\ b <= Len(s) /\ b - 1 + 1 = b /\ \A k \in 1..b : 1 + k - 1 = k
      BY <1>1
    <2> QED BY <2>1, PartIs
  <1>3. y \in Seq(S) /\ Len(y) = e - b /\ \A k \in 1..(e - b) : y[k] = s[b + k]
    <2>1. /\ b + 1 \in Nat \ {0} /\ b + 1 <= e + 1 /\ e - (b + 1) + 1 = e - b
          /\ \A k \in 1..(e - b) : (b + 1) + k - 1 = b + k
      OBVIOUS
    <2> QED BY <2>1, PartIs
  <1>4. z \in Seq(S) /\ Len(z) = len - e /\ \A k \in 1..(len - e) : z[k] = s[e + k]
    <2>1. /\ e + 1 \in Nat \ {0} /\ e + 1 <= len + 1 /\ len - (e + 1) + 1 = len - e /\ len <= Len(s)
          /\ \A k \in 1..(len - e) : (e + 1) + k - 1 = e + k
      BY <1>1
    <2> HIDE DEF len
    <2>2. z \in Seq(S) /\ Len(z) = len - (e + 1) + 1 /\ \A k \in 1..(len - (e + 1) + 1) : z[k] = s[(e + 1) + k - 1]
      BY <1>1, <2>1, PartIs
    <2> HIDE DEF z
    <2> QED BY <2>1, <2>2
  <1> HIDE DEF x, y, z, len
  <1>5. /\ w \in Seq(S) /\ Len(w) = e
        /\ \A k \in 1..e : w[k] = IF k <= b THEN x[k] ELSE y[k - b]
    <2>1. b + (e - b) = e
      OBVIOUS
    <2>2. /\ w \in Seq(S) /\ Len(w) = Len(x) + Len(y)
          /\ \A k \in 1..(Len(x) + Len(y)) : w[k] = IF k <= Len(x) THEN x[k] ELSE y[k - Len(x)]
      BY <1>2, <1>3, ConcatProperties
    <2> HIDE DEF w
    <2> QED BY <1>2, <1>3, <2>1, <2>2
  <1> HIDE DEF w
  <1>6. /\ q \in Seq(S) /\ Len(q) = len
        /\ \A k \in 1..len : q[k] = IF k <= e THEN w[k] ELSE z[k - e]
    <2>1. e + (len - e) = len
      BY <1>1
    <2>2. /\ q \in Seq(S) /\ Len(q) = Len(w) + Len(z)
          /\ \A k \in 1..(Len(w) + Len(z)) : q[k] = IF k <= Len(w) THEN w[k] ELSE z[k - Len(w)]
      BY <1>4, <1>5, ConcatProperties
    <2> HIDE DEF q
    <2> QED BY <1>4, <1>5, <2>1, <2>2
  <1> HIDE DEF q
  <1>7. ASSUME NEW k \in 1..len PROVE s[k] = q[k]
    <2>1. CASE k <= b
      <3>1. k \in 1..b /\ k \in 1..e /\ k <= e
        BY <2>1
      <3> QED BY <1>2, <1>5, <1>6, <2>1, <3>1
    <2>2. CASE ~(k <= b) /\ k <= e
      <3>1. k \in 1..e /\ k - b \in 1..(e - b) /\ b + (k - b) = k
        BY <2>2
      <3> QED BY <1>3, <1>5, <1>6, <2>2, <3>1
    <2>3. CASE ~(k <= e)
      <3>1. k - e \in 1..(len - e) /\ e + (k - e) = k
        BY <1>1, <2>3
      <3> QED BY <1>4, <1>6, <2>3, <3>1
    <2> QED BY <2>1, <2>2, <2>3
  <1>8. s = q
    BY <1>6, <1>7, SeqEqual DEF len
  <1> QED BY <1>8 DEF q, w, z, y, x, len

\* A line that is a setting says its value of its key.
LEMMA SettingSays ==
    ASSUME NEW line, TidyLine(line), IsSetting(line, ":")
    PROVE  Says(line, KeyOf(line, ":"), ValueOf(line, ":"))
  <1> DEFINE O == {"sp", "tab"}
             S == Range(line)
             len == Len(line)
             d == Delimiter(line, ":")
             I == {i \in 1..len : line[i] = ":"}
             left == SubSeq(line, 1, d - 1)
             right == SubSeq(line, d + 1, len)
  <1>1. line \in Seq(S) /\ (line # <<>> => line[1] \notin O) /\ (line # <<>> => line[len] \notin O)
    BY DEF TidyLine
  <1>2. d = IF I # {} THEN Max(I) ELSE 0
    BY DEF Delimiter, SelectLastInSeq
  <1>3. len \in Nat
    BY <1>1, LenProperties
  <1>4. d \in 1..len /\ line[d] = ":"
    <2>1. I # {}
      BY <1>2 DEF IsSetting
    <2>2. I \in SUBSET (1..len)
      OBVIOUS
    <2>3. Max(I) \in I
      <3> HIDE DEF I, len
      <3> QED BY <1>3, <2>1, <2>2, MinAndMax
    <2> QED BY <1>2, <2>1, <2>3
  <1> HIDE DEF O, S, d
  <1>5. line # <<>>
    BY <1>1, <1>3, <1>4, EmptySeq
  <1>6. /\ left \in Seq(S) /\ Len(left) = d - 1 /\ \A k \in 1..(d - 1) : left[k] = line[k]
    <2>1. /\ 1 \in Nat \ {0} /\ d - 1 \in Nat /\ 1 <= (d - 1) + 1 /\ d - 1 <= Len(line)
          /\ (d - 1) - 1 + 1 = d - 1 /\ \A k \in 1..(d - 1) : 1 + k - 1 = k
      BY <1>3, <1>4
    <2> QED BY <1>1, <2>1, PartIs
  <1>7. right \in Seq(S) /\ Len(right) = len - d /\ \A k \in 1..(len - d) : right[k] = line[d + k]
    <2>1. /\ d + 1 \in Nat \ {0} /\ len \in Nat /\ d + 1 <= len + 1 /\ len <= Len(line)
          /\ len - (d + 1) + 1 = len - d /\ \A k \in 1..(len - d) : (d + 1) + k - 1 = d + k
      BY <1>3, <1>4
    <2> QED BY <1>1, <2>1, PartIs
  <1> HIDE DEF left, right, I
  <1>8. PICK b \in 0..(d - 1) : Trim(left) = SubSeq(left, 1, b) /\ \A k \in (b + 1)..(d - 1) : left[k] \in O
    <2>1. Cut(left, Trim(left), O)
      BY <1>6, TrimCuts DEF O
    <2>2. left # <<>> => left[1] \notin O
      <3>1. left # <<>> => 1 \in 1..(d - 1)
        BY <1>4, <1>6, EmptySeq
      <3> QED BY <1>1, <1>5, <1>6, <3>1
    <2> QED BY <1>6, <2>1, <2>2, CutStops
  <1>9. PICK a \in 1..(len - d + 1) :
           Trim(right) = SubSeq(right, a, len - d) /\ \A k \in 1..(a - 1) : right[k] \in O
    <2>1. Cut(right, Trim(right), O)
      BY <1>7, TrimCuts DEF O
    <2>2. right # <<>> => right[Len(right)] \notin O
      <3>1. right # <<>> => len - d \in 1..(len - d) /\ d + (len - d) = len
        BY <1>3, <1>4, <1>7, EmptySeq
      <3> QED BY <1>1, <1>5, <1>7, <3>1
    <2> QED BY <1>7, <2>1, <2>2, CutStops
  <1> DEFINE e == d + a - 1
             key == SubSeq(line, 1, b)
             value == SubSeq(line, e + 1, len)
             gap == SubSeq(line, b + 1, e)
  <1>10. KeyOf(line, ":") = key
    <2>1. 1 \in Nat \ {0} /\ d - 1 \in Nat /\ 1 <= (d - 1) + 1 /\ d - 1 <= Len(line) /\ b \in Nat
          /\ 1 <= b + 1 /\ b <= (d - 1) - 1 + 1 /\ 1 + 1 - 1 = 1 /\ 1 + b - 1 = b
      BY <1>3, <1>4
    <2>2. SubSeq(left, 1, b) = SubSeq(line, 1 + 1 - 1, 1 + b - 1)
      BY <1>1, <2>1, PartOfPart DEF left
    <2> QED BY <1>8, <2>1, <2>2 DEF KeyOf, left, d
  <1>11. ValueOf(line, ":") = value
    <2>1. /\ d + 1 \in Nat \ {0} /\ len \in Nat /\ d + 1 <= len + 1 /\ len <= Len(line)
          /\ a \in Nat \ {0} /\ len - d \in Nat /\ a <= (len - d) + 1 /\ len - d <= len - (d + 1) + 1
          /\ d + 1 + a - 1 = e + 1 /\ d + 1 + (len - d) - 1 = len
      BY <1>3, <1>4
    <2> HIDE DEF e, len
    <2>2. SubSeq(right, a, len - d) = SubSeq(line, (d + 1) + a - 1, (d + 1) + (len - d) - 1)
      <3> DEFINE m == d + 1
                 n == len - d
      <3>1. m \in Nat \ {0} /\ n \in Nat /\ m <= len + 1 /\ a <= n + 1 /\ n <= len - m + 1
        BY <2>1
      <3> HIDE DEF m, n
      <3>2. SubSeq(SubSeq(line, m, len), a, n) = SubSeq(line, m + a - 1, m + n - 1)
        BY <1>1, <2>1, <3>1, PartOfPart
      <3> QED BY <3>2 DEF m, n, right
    <2> QED BY <1>9, <2>1, <2>2 DEF ValueOf, right, d, len
  <1>12. /\ b \in Nat /\ e \in Nat /\ b <= e /\ e <= len /\ d \in (b + 1)..e
         /\ b + 1 \in Nat \ {0} /\ b + 1 <= e + 1 /\ e - (b + 1) + 1 = e - b
         /\ e + 1 \in Nat \ {0} /\ e + 1 <= len + 1 /\ len - (e + 1) + 1 = len - e
         /\ 1 <= b + 1 /\ b <= len /\ b - 1 + 1 = b /\ len - (len - e) = e
    BY <1>3, <1>4
  <1>13. ASSUME NEW k \in (b + 1)..e PROVE line[k] \in O \/ k = d
    <2>1. CASE k < d
      <3>1. k \in (b + 1)..(d - 1) /\ k \in 1..(d - 1)
        BY <1>4, <2>1
      <3> QED BY <1>6, <1>8, <3>1
    <2>2. CASE k > d
      <3>1. k - d \in 1..(a - 1) /\ k - d \in 1..(len - d) /\ d + (k - d) = k
        BY <1>3, <1>4, <2>2
      <3> QED BY <1>7, <1>9, <3>1
    <2> QED BY <1>4, <2>1, <2>2
  <1> HIDE DEF e, len
  <1>14. Len(key) = b
    <2>1. 1 \in Nat \ {0} /\ b \in Nat /\ 1 <= b + 1 /\ b <= Len(line) /\ b - 1 + 1 = b
      BY <1>12 DEF len
    <2> QED BY <1>1, <2>1, PartIs
  <1>15. Len(value) = len - e
    <2>1. e + 1 <= Len(line) + 1 /\ len <= Len(line)
      BY <1>3, <1>12 DEF len
    <2>2. Len(value) = len - (e + 1) + 1
      BY <1>1, <1>3, <1>12, <2>1, PartIs
    <2> QED BY <1>12, <2>2
  <1>16. gap \in Seq(S) /\ Len(gap) = e - b /\ \A k \in 1..(e - b) : gap[k] = line[b + k]
    <2>1. \A k \in 1..(e - b) : (b + 1) + k - 1 = b + k
      BY <1>12
    <2>2. e <= Len(line)
      BY <1>12 DEF len
    <2> QED BY <1>1, <1>12, <2>1, <2>2, PartIs
  <1>17. line = key \o gap \o value
    BY <1>1, <1>12, ThreeParts DEF len
  <1> HIDE DEF key, value, gap
  <1>18. gap = SubSeq(line, Len(key) + 1, len - Len(value))
    BY <1>12, <1>14, <1>15 DEF gap
  <1>19. DOMAIN gap = 1..(e - b)
    BY <1>16, LenProperties
  <1>20. ASSUME NEW k \in 1..(e - b)
         PROVE  gap[k] \in {"sp", "tab", ":"} /\ (gap[k] = ":" <=> k = d - b)
    <2>1. b + k \in (b + 1)..e /\ (b + k = d <=> k = d - b)
      BY <1>12
    <2>2. line[b + k] \in O \/ b + k = d
      BY <1>13, <2>1
    <2> QED BY <1>4, <1>16, <2>1, <2>2 DEF O
  <1>21. Range(gap) \subseteq {"sp", "tab", ":"}
    BY <1>19, <1>20 DEF Range
  <1>22. Cardinality({i \in DOMAIN gap : gap[i] = ":"}) = 1
    <2>1. d - b \in 1..(e - b)
      BY <1>12
    <2>2. {i \in DOMAIN gap : gap[i] = ":"} = {d - b}
      BY <1>19, <1>20, <2>1
    <2> QED BY <2>2, FS_Singleton
  <1> QED BY <1>10, <1>11, <1>17, <1>18, <1>21, <1>22 DEF Says, len

LEMMA SettingsSay ==
    ASSUME NEW text, Tidy(text), NEW key, HasKey(ProcSettings(text), key)
    PROVE  \E n \in Places(text, ":", key) :
              /\ Says(text[n], key, ReadValue(ProcSettings(text), key))
              /\ \A m \in Places(text, ":", key) : n <= m
  <1> DEFINE P == Places(text, ":", key)
             n == Kept(P)
             Key(m) == KeyOf(Trim(text[m]), ":")
             keys == {Key(m) : m \in SettingLines(text, ":")}
  <1>1. ProcSettings(text).value = [k \in keys |-> ValueOf(Trim(text[Kept(Places(text, ":", k))]), ":")]
    BY DEF ProcSettings, Settings
  <1>2. key \in keys /\ ReadValue(ProcSettings(text), key) = ValueOf(Trim(text[n]), ":")
    <2> HIDE DEF keys
    <2> QED BY <1>1 DEF HasKey, ReadValue
  <1>3. P # {}
    BY <1>2 DEF Places
  <1>4. P \subseteq SettingLines(text, ":") /\ \A m \in P : Key(m) = key
    BY DEF Places
  <1>5. Len(text) \in Nat /\ P \in SUBSET (1..Len(text))
    <2>1. text \in Seq(Range(text))
      BY DEF Tidy
    <2> QED BY <1>4, <2>1, LenProperties DEF SettingLines, KeptLines
  <1> HIDE DEF P
  <1>6. n \in P /\ \A m \in P : n <= m
    BY <1>3, <1>5, MinAndMax DEF Kept
  <1> HIDE DEF n
  <1>7. n \in SettingLines(text, ":") /\ Key(n) = key
    BY <1>4, <1>6
  <1>8. IsSetting(Trim(text[n]), ":") /\ n \in DOMAIN text
    BY <1>7 DEF SettingLines, KeptLines
  <1>9. TidyLine(text[n])
    BY <1>8 DEF Tidy, TidyLine
  <1>10. Trim(text[n]) = text[n]
    BY <1>9, TidyIsTrimmed
  <1>11. Says(text[n], KeyOf(text[n], ":"), ValueOf(text[n], ":"))
    BY <1>8, <1>9, <1>10, SettingSays
  <1>12. Says(text[n], key, ReadValue(ProcSettings(text), key))
    BY <1>2, <1>7, <1>10, <1>11
  <1> QED BY <1>6, <1>12 DEF P

\* What is in a report is in the settings it was made from.
Copies(report, settings) ==
    \A k \in DOMAIN report : HasKey(settings, k) /\ report[k] = ReadValue(settings, k)

LEMMA ReportCopies ==
    ASSUME NEW settings, NEW exists, NEW keys, NEW f
    PROVE  LET report == Report(settings, exists, keys, f).report
           IN  Copies(report, settings) /\ (report = NoReport \/ DOMAIN report = keys)
  <1> DEFINE r == Report(settings, exists, keys, f)
             all == [k \in keys |-> ReadValue(settings, k)]
  <1>1. r.report = NoReport \/ (r.report = all /\ \A k \in keys : HasKey(settings, k))
    BY DEF Report, Thrown
  <1> HIDE DEF r
  <1>2. DOMAIN NoReport = {}
    BY DEF NoReport
  <1> QED BY <1>1, <1>2 DEF Copies, r

LEMMA WorkloadCopies ==
    ASSUME NEW settings, NEW exists \in BOOLEAN, NEW readable, NEW f
    PROVE  Copies(getworkloadinfo(settings, exists, readable, f).report, settings)
  <1> DEFINE c == getworkloadinfo(settings, exists, readable, f)
             memory == getmeminfo(settings, exists, f - 1)
             two == {<<"SwapFree">>, <<"MemFree">>}
  <1>1. DOMAIN NoReport = {}
    BY DEF NoReport
  <1>2. Copies(memory.report, settings) /\ (memory.report = NoReport \/ DOMAIN memory.report = MemKeys)
    BY ReportCopies DEF getmeminfo
  <1>3. CASE c = Thrown
    <2>1. c.report = NoReport
      BY <1>3 DEF Thrown
    <2> QED BY <1>1, <2>1 DEF Copies
  <1>4. CASE c # Thrown
    <2>1. PICK e, t : memory = [ends |-> e, report |-> t, keeps |-> 0]
      <3> DEFINE g == f - 1
      <3> HIDE DEF g
      <3>1. \E e, t : Report(settings, exists, MemKeys, g) = [ends |-> e, report |-> t, keeps |-> 0]
        BY ReportEnds
      <3> QED BY <3>1 DEF getmeminfo, g
    <2>2. c = [memory EXCEPT !.keeps = 1,
                 !.report = IF @ = NoReport THEN @ ELSE [k \in two |-> @[k]]]
      BY <1>4 DEF getworkloadinfo
    <2> HIDE DEF c, memory, two
    <2>3. c.report = IF t = NoReport THEN t ELSE [k \in two |-> t[k]]
      BY <2>1, <2>2
    <2>4. Copies(t, settings) /\ (t = NoReport \/ DOMAIN t = MemKeys)
      BY <1>2, <2>1
    <2>5. CASE t = NoReport
      BY <2>3, <2>4, <2>5 DEF c
    <2>6. CASE t # NoReport
      <3>1. two \subseteq DOMAIN t
        BY <2>4, <2>6 DEF two, MemKeys
      <3>2. c.report = [k \in two |-> t[k]]
        BY <2>3, <2>6
      <3> QED BY <2>4, <3>1, <3>2 DEF Copies, c
    <2> QED BY <2>5, <2>6
  <1> QED BY <1>3, <1>4

From(report, text, places) ==
    \A k \in DOMAIN report : \E n \in places : Says(text[n], k, report[k])

LEMMA TrueOfCpu ==
    ASSUME ProcIsTidy, NEW m \in Machines, NEW report,
           Copies(report, CpuSettings[m]), DOMAIN report \subseteq CpuKeys
    PROVE  From(report, m.cpu, OfFirst(m.cpu))
  <1> SUFFICES ASSUME NEW k \in DOMAIN report
               PROVE  \E n \in OfFirst(m.cpu) : Says(m.cpu[n], k, report[k])
    BY DEF From
  <1>1. Tidy(m.cpu)
    BY DEF ProcIsTidy
  <1>2. CpuSettings[m] = ProcSettings(m.cpu)
    BY DEF CpuSettings
  <1>3. HasKey(ProcSettings(m.cpu), k) /\ report[k] = ReadValue(ProcSettings(m.cpu), k)
    BY <1>2 DEF Copies
  <1>4. PICK n \in Places(m.cpu, ":", k) :
           /\ Says(m.cpu[n], k, ReadValue(ProcSettings(m.cpu), k))
           /\ \A i \in Places(m.cpu, ":", k) : n <= i
    BY <1>1, <1>3, SettingsSay
  <1>5. PICK i \in Places(m.cpu, ":", k) : i \in OfFirst(m.cpu)
    BY <1>4 DEF ProcIsTidy
  <1>6. n \in OfFirst(m.cpu)
    <2>1. n \in DOMAIN m.cpu /\ i \in DOMAIN m.cpu
      BY DEF Places, SettingLines, KeptLines
    <2>2. n \in Nat /\ i \in Nat /\ n <= i
      <3>1. m.cpu \in Seq(Range(m.cpu))
        BY <1>1 DEF Tidy
      <3> QED BY <1>4, <2>1, <3>1, LenProperties
    <2>3. 1..n \subseteq 1..i
      BY <2>2
    <2> QED BY <1>5, <2>1, <2>3 DEF OfFirst
  <1> QED BY <1>3, <1>4, <1>6

LEMMA TrueOfMem ==
    ASSUME ProcIsTidy, NEW m \in Machines, NEW report, Copies(report, MemSettings[m])
    PROVE  From(report, m.mem, DOMAIN m.mem)
  <1> SUFFICES ASSUME NEW k \in DOMAIN report
               PROVE  \E n \in DOMAIN m.mem : Says(m.mem[n], k, report[k])
    BY DEF From
  <1>1. Tidy(m.mem)
    BY DEF ProcIsTidy
  <1>2. MemSettings[m] = ProcSettings(m.mem)
    BY DEF MemSettings
  <1>3. HasKey(ProcSettings(m.mem), k) /\ report[k] = ReadValue(ProcSettings(m.mem), k)
    BY <1>2 DEF Copies
  <1>4. PICK n \in Places(m.mem, ":", k) : Says(m.mem[n], k, ReadValue(ProcSettings(m.mem), k))
    BY <1>1, <1>3, SettingsSay
  <1>5. n \in DOMAIN m.mem
    BY DEF Places, SettingLines, KeptLines
  <1> QED BY <1>3, <1>4, <1>5

ReportInv == machine \in Machines /\ ReportsAreTrue

LEMMA ReportStep == ProcIsTidy /\ ReportInv /\ [LibNext]_allVars => ReportInv'
  <1> SUFFICES ASSUME ProcIsTidy, ReportInv, [LibNext]_allVars PROVE ReportInv'
    OBVIOUS
  <1>0. machine' = machine
    BY DEF LibNext, Library, ParseCommand, ExecuteAll, FileSyncExecute, PkgExecute, UpdateExecute,
           ScriptExecute, ExecuteReturns, LookUp, Find, UmountNothing, UmountNfs, GetInfo, Admin,
           Rest, Aside, allVars, libVars
  <1>1. CASE GetInfo
    <2>1. PICK exists \in BOOLEAN :
            \/ Outcome(getcpuinfo(CpuSettings[machine], exists, free))
            \/ Outcome(getmeminfo(MemSettings[machine], exists, free))
            \/ \E readable \in BOOLEAN :
                  Outcome(getworkloadinfo(MemSettings[machine], exists, readable, free))
      BY <1>1 DEF GetInfo
    <2>2. ASSUME NEW c, Outcome(c), From(c.report, machine.cpu, OfFirst(machine.cpu))
                                    \/ From(c.report, machine.mem, DOMAIN machine.mem)
          PROVE  ReportInv'
      <3>1. result' = [of |-> "report", report |-> c.report]
        BY <2>2 DEF Outcome
      <3>2. result'.report = c.report
        BY <3>1
      <3>3. ReportsAreTrue'
        BY <1>0, <2>2, <3>2 DEF ReportsAreTrue, From
      <3> QED BY <1>0, <3>3 DEF ReportInv
    <2>3. CASE Outcome(getcpuinfo(CpuSettings[machine], exists, free))
      <3>1. DOMAIN NoReport = {}
        BY DEF NoReport
      <3>2. Copies(getcpuinfo(CpuSettings[machine], exists, free).report, CpuSettings[machine])
            /\ DOMAIN getcpuinfo(CpuSettings[machine], exists, free).report \subseteq CpuKeys
        BY <3>1, ReportCopies DEF getcpuinfo
      <3> QED BY <2>2, <2>3, <3>2, TrueOfCpu DEF ReportInv
    <2>4. CASE Outcome(getmeminfo(MemSettings[machine], exists, free))
      <3>1. Copies(getmeminfo(MemSettings[machine], exists, free).report, MemSettings[machine])
        BY ReportCopies DEF getmeminfo
      <3> QED BY <2>2, <2>4, <3>1, TrueOfMem DEF ReportInv
    <2>5. ASSUME NEW readable \in BOOLEAN,
                 Outcome(getworkloadinfo(MemSettings[machine], exists, readable, free))
          PROVE  ReportInv'
      BY <2>2, <2>5, WorkloadCopies, TrueOfMem DEF ReportInv
    <2> QED BY <2>1, <2>3, <2>4, <2>5
  <1>2. CASE result' = result
    BY <1>0, <1>2 DEF ReportInv, ReportsAreTrue
  <1>3. CASE ~GetInfo /\ result' # result
    <2>1. result'.of # "report"
      <3>1. CASE ParseCommand
        <4>1. PICK m \in Requests :
                result' = None \/ result' = [of |-> "parse", dest |-> m.dest, taken |-> ForMe(m.dest)]
          BY <3>1 DEF ParseCommand
        <4> QED BY <4>1 DEF None
      <3>2. CASE UmountNfs
        <4>1. result' = [of |-> "umount", share |-> Visible(tempdir)]
          BY <1>3, <3>2 DEF UmountNfs
        <4> QED BY <4>1
      <3>3. CASE ExecuteAll \/ LookUp
        BY <3>3 DEF ExecuteAll, LookUp, None
      <3> QED BY <1>3, <3>1, <3>2, <3>3
           DEF LibNext, Library, FileSyncExecute, PkgExecute, UpdateExecute, ScriptExecute,
               ExecuteReturns, Find, UmountNothing, Admin, Rest, allVars, libVars
    <2> QED BY <1>0, <2>1 DEF ReportInv, ReportsAreTrue
  <1> QED BY <1>1, <1>2, <1>3

\* As long as the lines of /proc/cpuinfo and /proc/meminfo have no blanks around
\* them, and what /proc/cpuinfo says of any processor it says of the first, a
\* report that is returned has what is said of the first processor, or of the
\* memory, value for value (sysutils.cpp:63-80, 115-129).
THEOREM ReportsTellTheTruth == ProcIsTidy => (LibSpec => []ReportsAreTrue)
  <1> SUFFICES ASSUME ProcIsTidy PROVE LibSpec => []ReportsAreTrue
    OBVIOUS
  <1>1. LibInit => ReportInv
    BY DEF LibInit, ReportInv, ReportsAreTrue, None
  <1>2. ReportInv /\ [LibNext]_allVars => ReportInv'
    BY ReportStep
  <1>3. ReportInv => ReportsAreTrue
    BY DEF ReportInv
  <1> QED BY <1>1, <1>2, <1>3, PTL DEF LibSpec
=============================================================================
