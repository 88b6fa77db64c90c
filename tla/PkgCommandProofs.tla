-------------------------- MODULE PkgCommandProofs --------------------------
(***************************************************************************)
(* Proofs about PkgCommand: for list files of any number of well-formed    *)
(* lines of any length, any distribution and any host.                     *)
(***************************************************************************)
EXTENDS PkgCommand, TLAPS, SequenceTheorems, FiniteSetTheorems, WellFoundedInduction

-----------------------------------------------------------------------------
(***************************************************************************)
(* Least and greatest positions.                                           *)
(***************************************************************************)
LEMMA LeastAndGreatest ==
    ASSUME NEW n \in Nat, NEW T \in SUBSET (1..n), T # {}
    PROVE  /\ Min(T) \in T /\ \A y \in T : Min(T) <= y
           /\ Max(T) \in T /\ \A y \in T : Max(T) >= y
  <1>1. ASSUME NEW S \in SUBSET Nat, S # {} PROVE \E x \in S : \A y \in S : x <= y
    <2>1. PICK x \in S : \A y \in S : ~(<<y, x>> \in OpToRel(<, Nat))
      BY <1>1, NatLessThanWellFounded, WFMin
    <2>2. ASSUME NEW y \in S PROVE x <= y
      <3>1. ~(y < x)
        BY <2>1 DEF OpToRel
      <3> QED BY <3>1
    <2> QED BY <2>2
  <1>2. \E x \in T : \A y \in T : x <= y
    BY <1>1
  <1> DEFINE mirror == {n - y : y \in T}
  <1>3. mirror \in SUBSET Nat /\ mirror # {}
    <2>1. \A y \in T : y \in Nat /\ n - y \in Nat
      OBVIOUS
    <2> QED BY <2>1
  <1>4. PICK m \in mirror : \A y \in mirror : m <= y
    BY <1>1, <1>3
  <1>5. PICK x \in T : m = n - x
    BY <1>4
  <1>6. ASSUME NEW y \in T PROVE x >= y
    <2>1. n - y \in mirror
      OBVIOUS
    <2>2. x \in Nat /\ y \in Nat
      BY <1>5
    <2>3. m <= n - y
      BY <1>4, <2>1
    <2> HIDE DEF mirror
    <2> QED BY <1>5, <2>2, <2>3
  <1>7. \E z \in T : \A y \in T : z >= y
    BY <1>6
  <1> QED BY <1>2, <1>7 DEF Min, Max

-----------------------------------------------------------------------------
(***************************************************************************)
(* trim: from the last of the leading blanks and what comes after them     *)
(* that is in the bracket expression, to the end of its run.               *)
(***************************************************************************)
LEMMA TrimFromStart ==
    ASSUME NEW line \in Seq(Chars), NEW m \in 1..Len(line), MatchesAt(line, 1, m)
    PROVE  \E p \in 1..Len(line) : \E d \in p..Len(line) :
              /\ Trim(line) = SubSeq(line, p, d)
              /\ MatchesAt(line, 1, p) /\ p >= m
              /\ \A k \in p..d : line[k] \in Class
              /\ d = Len(line) \/ line[d + 1] \notin Class
  <1> DEFINE n      == Len(line)
             starts == {i \in 1..n : \E j \in i..n : MatchesAt(line, i, j)}
             firsts == {j \in Min(starts)..n : MatchesAt(line, Min(starts), j)}
             lasts  == {d \in Max(firsts)..n : \A k \in Max(firsts)..d : line[k] \in Class}
  <1>1. n \in Nat /\ m \in 1..n
    BY LenProperties
  <1>2. Min(starts) = 1
    <2>1. 1 \in starts /\ starts \in SUBSET (1..n)
      BY <1>1
    <2>2. Min(starts) \in 1..n /\ Min(starts) <= 1
      <3> HIDE DEF starts, n
      <3> QED BY <1>1, <2>1, LeastAndGreatest
    <2> QED BY <1>1, <2>2
  <1> HIDE DEF starts
  <1>3. Max(firsts) \in firsts /\ Max(firsts) >= m
    <2>1. m \in firsts /\ firsts \in SUBSET (1..n)
      BY <1>1, <1>2
    <2> HIDE DEF firsts, n
    <2> QED BY <1>1, <2>1, LeastAndGreatest
  <1> DEFINE p == Max(firsts)
  <1>4. p \in 1..n /\ MatchesAt(line, 1, p) /\ p >= m
    BY <1>1, <1>2, <1>3
  <1> HIDE DEF firsts
  <1>5. Max(lasts) \in lasts /\ \A y \in lasts : Max(lasts) >= y
    <2>1. p \in lasts
      BY <1>1, <1>4 DEF MatchesAt
    <2>2. lasts \in SUBSET (1..n)
      BY <1>1, <1>4
    <2> HIDE DEF lasts, n
    <2> QED BY <1>1, <2>1, <2>2, LeastAndGreatest
  <1> DEFINE d == Max(lasts)
  <1>6. d \in p..n /\ \A k \in p..d : line[k] \in Class
    BY <1>5
  <1>7. d = n \/ line[d + 1] \notin Class
    <2> SUFFICES ASSUME d # n, line[d + 1] \in Class PROVE FALSE
      OBVIOUS
    <2> HIDE DEF p
    <2>0. d \in p..n /\ p \in 1..n
      BY <1>4, <1>6
    <2>1. d + 1 \in p..n /\ ~(d >= d + 1)
      <3> HIDE DEF d
      <3> QED BY <1>1, <2>0
    <2>2. \A k \in p..(d + 1) : line[k] \in Class
      <3> HIDE DEF d
      <3>1. \A k \in p..(d + 1) : k \in p..d \/ k = d + 1
        BY <1>1, <2>0
      <3> QED BY <1>6, <3>1
    <2>3. d + 1 \in lasts
      BY <2>1, <2>2 DEF p
    <2> HIDE DEF lasts
    <2> QED BY <1>5, <2>1, <2>3
  <1>8. Trim(line) = SubSeq(line, p, d)
    BY DEF Trim, starts, firsts
  <1> HIDE DEF p, d
  <1> QED BY <1>4, <1>6, <1>7, <1>8

-----------------------------------------------------------------------------
(***************************************************************************)
(* Well-formed lines: verify_pkg_list tells them apart by their first      *)
(* visible character, and what it takes from a list are the names on it.   *)
(***************************************************************************)
LEMMA Characters ==
    /\ "tab" \notin Class /\ "hash" \notin Class
    /\ {"+", "-", "sp"} \subseteq Class /\ Names \subseteq Class
    /\ Names \cap {"+", "-", "sp", "tab", "hash"} = {}
  BY NamesAssumption DEF Class

LEMMA FirstVisible ==
    ASSUME NEW line \in Seq(Chars)
    PROVE  \/ \E f \in 1..Len(line) : First(line, f) /\ SignOf(line) = line[f]
           \/ (\A k \in 1..Len(line) : line[k] \in Blank) /\ SignOf(line) = "none"
  <1> DEFINE n == Len(line)
             visible == {i \in 1..n : line[i] \notin Blank}
  <1>1. n \in Nat
    BY LenProperties
  <1>2. CASE visible = {}
    BY <1>2 DEF SignOf
  <1>3. CASE visible # {}
    <2>1. Min(visible) \in visible /\ \A y \in visible : Min(visible) <= y
      <3>1. visible \in SUBSET (1..n)
        OBVIOUS
      <3> HIDE DEF visible, n
      <3> QED BY <1>1, <1>3, <3>1, LeastAndGreatest
    <2> DEFINE f == Min(visible)
    <2>2. SignOf(line) = line[f]
      BY <1>3 DEF SignOf
    <2>3. f \in 1..n /\ line[f] \notin Blank
      BY <2>1
    <2>4. ASSUME NEW k \in 1..(f - 1) PROVE line[k] \in Blank
      <3>1. k \in 1..n /\ ~(f <= k)
        <4> HIDE DEF f
        <4> QED BY <1>1, <2>3
      <3>2. k \notin visible
        <4> HIDE DEF visible
        <4> QED BY <2>1, <3>1
      <3> QED BY <3>1, <3>2
    <2> HIDE DEF f
    <2> QED BY <2>2, <2>3, <2>4 DEF First
  <1> QED BY <1>2, <1>3

\* If something of the line can be matched from its start, trim's result begins
\* at some p that is a sign of the line or is not.
LEMMA MarkedAt ==
    ASSUME NEW line \in Seq(Chars), NEW sign, NEW p \in 1..Len(line), NEW d \in p..Len(line),
           Trim(line) = SubSeq(line, p, d), line[p] \in Class
    PROVE  Marked(line, sign) <=> line[p] = sign
  <1>1. Len(line) \in Nat
    BY LenProperties
  <1>2. Head(Trim(line)) = line[p]
    BY HeadTailOfSubSeq
  <1>3. Trim(line) # <<>> /\ line # <<>>
    <2>1. \A k \in p..d : line[k] \in Chars
      <3>1. \A k \in p..d : k \in 1..Len(line)
        BY <1>1
      <3> QED BY <3>1, ElementOfSeq
    <2>2. p \in Int /\ d \in Int /\ p <= d
      BY <1>1
    <2>3. Len(SubSeq(line, p, d)) = d - p + 1
      BY <2>1, <2>2, SubSeqProperties
    <2>4. Len(Trim(line)) # 0 /\ Len(line) # 0
      BY <1>1, <2>2, <2>3
    <2> QED BY <2>4, EmptySeq
  <1>4. TrimMatches(line)
    BY DEF TrimMatches
  <1> QED BY <1>2, <1>3, <1>4 DEF Marked, StartsWith

LEMMA MarkedBySign ==
    ASSUME NEW line, WellFormed(line), NEW sign \in {"+", "-"}
    PROVE  /\ Marked(line, sign) <=> SignOf(line) = sign
           /\ SignOf(line) = sign =>
                 \E f \in 1..Len(line) : \E e \in f..Len(line) :
                    /\ First(line, f) /\ line[f] = sign /\ ListUpTo(line, f, e)
                    /\ Trim(line) = SubSeq(line, f, e)
  <1> DEFINE n == Len(line)
  <1>0. line \in Seq(Chars) /\ sign \in Class /\ sign \notin Blank \cup Names \cup {"none", "hash"}
    BY NamesAssumption DEF WellFormed, Class, Blank
  <1>1. n \in Nat
    BY <1>0, LenProperties
  <1>2. CASE (\A k \in 1..n : line[k] \in Blank) /\ SignOf(line) = "none"
    <2>1. ASSUME Marked(line, sign) PROVE FALSE
      <3>1. PICK j \in 1..n : line[j] \in Class
        BY <2>1 DEF Marked, TrimMatches
      <3>2. MatchesAt(line, 1, j)
        BY <1>1, <1>2, <3>1 DEF MatchesAt
      <3>3a. PICK p \in 1..n : \E d \in p..n :
                Trim(line) = SubSeq(line, p, d) /\ MatchesAt(line, 1, p)
        BY <1>0, <3>2, TrimFromStart
      <3>3. PICK d \in p..n : Trim(line) = SubSeq(line, p, d) /\ MatchesAt(line, 1, p)
        BY <3>3a
      <3>4. line[p] \in Class /\ line[p] \in Blank
        BY <1>2, <3>3 DEF MatchesAt
      <3>5. line[p] = sign
        BY <1>0, <2>1, <3>3, <3>4, MarkedAt
      <3> QED BY <1>0, <3>4, <3>5
    <2>2. SignOf(line) # sign
      BY <1>0, <1>2
    <2> QED BY <2>1, <2>2
  <1>3. ASSUME NEW f \in 1..n, First(line, f), SignOf(line) = line[f]
        PROVE  /\ Marked(line, sign) <=> SignOf(line) = sign
               /\ SignOf(line) = sign =>
                     \E e \in f..n : /\ line[f] = sign /\ ListUpTo(line, f, e)
                                     /\ Trim(line) = SubSeq(line, f, e)
    <2>0. f \in 1..n /\ line[f] \notin Blank /\ \A k \in 1..(f - 1) : line[k] \in Blank
      BY <1>3 DEF First
    <2>1. ASSUME NEW q \in 1..n, MatchesAt(line, 1, q) PROVE q <= f
      <3> SUFFICES ASSUME ~(q <= f) PROVE FALSE
        OBVIOUS
      <3>1. f \in 1..(q - 1)
        BY <1>1, <2>0
      <3> QED BY <2>0, <2>1, <3>1 DEF MatchesAt
    <2>2. ASSUME line[f] \in Class
          PROVE  /\ Marked(line, sign) <=> line[f] = sign
                 /\ \E d \in f..n : /\ Trim(line) = SubSeq(line, f, d)
                                    /\ \A k \in f..d : line[k] \in Class
                                    /\ d = n \/ line[d + 1] \notin Class
      <3>1. MatchesAt(line, 1, f)
        BY <2>0, <2>2 DEF MatchesAt
      <3>2. PICK p \in 1..n : \E d \in p..n :
                /\ Trim(line) = SubSeq(line, p, d)
                /\ MatchesAt(line, 1, p) /\ p >= f
                /\ \A k \in p..d : line[k] \in Class
                /\ d = n \/ line[d + 1] \notin Class
        BY <1>0, <2>0, <3>1, TrimFromStart
      <3>3. p = f
        BY <1>1, <2>0, <2>1, <3>2
      <3>4. PICK d \in f..n :
                /\ Trim(line) = SubSeq(line, f, d)
                /\ \A k \in f..d : line[k] \in Class
                /\ d = n \/ line[d + 1] \notin Class
        BY <3>2, <3>3
      <3>5. Marked(line, sign) <=> line[f] = sign
        BY <1>0, <2>0, <2>2, <3>4, MarkedAt
      <3> QED BY <3>4, <3>5
    <2>3. CASE line[f] \in {"+", "-"} /\ \E e \in f..n : ListUpTo(line, f, e)
      <3>1. PICK e \in f..n : ListUpTo(line, f, e)
        BY <2>3
      <3>2. line[f] \in Class
        BY <2>3, Characters
      <3>3. PICK d \in f..n : /\ Trim(line) = SubSeq(line, f, d)
                              /\ \A k \in f..d : line[k] \in Class
                              /\ d = n \/ line[d + 1] \notin Class
        BY <2>2, <3>2
      <3>4. d = e
        <4>1. ASSUME d < e PROVE FALSE
          <5>1. d + 1 \in (f + 1)..e /\ d # n
            BY <1>1, <2>0, <4>1
          <5>2. line[d + 1] \in Class
            BY <3>1, <5>1, Characters DEF ListUpTo
          <5> QED BY <3>3, <5>1, <5>2
        <4>2. ASSUME e < d PROVE FALSE
          <5>1. e + 1 \in f..d /\ e # n
            BY <1>1, <2>0, <4>2
          <5>2. line[e + 1] = "tab"
            BY <3>1, <5>1 DEF ListUpTo
          <5> QED BY <3>3, <5>1, <5>2, Characters
        <4>3. d \in Nat /\ e \in Nat
          BY <1>1, <2>0
        <4> QED BY <4>1, <4>2, <4>3
      <3>5. Marked(line, sign) <=> line[f] = sign
        BY <2>2, <3>2
      <3> QED BY <1>3, <3>1, <3>3, <3>4, <3>5
    <2>4. CASE line[f] \in Names
      <3>1. line[f] \in Class /\ line[f] # sign
        BY <1>0, <2>4, Characters
      <3> QED BY <1>3, <2>2, <3>1
    <2>5. CASE line[f] = "hash" /\ \E k \in 1..(f - 1) : line[k] = "sp"
      <3>1. PICK k \in 1..(f - 1) : line[k] = "sp"
        BY <2>5
      <3>2. k \in 1..n /\ \A i \in 1..(k - 1) : i \in 1..(f - 1)
        BY <1>1, <2>0
      <3>3. MatchesAt(line, 1, k)
        BY <2>0, <3>1, <3>2, Characters DEF MatchesAt
      <3>4a. PICK p \in 1..n : \E d \in p..n :
                Trim(line) = SubSeq(line, p, d) /\ MatchesAt(line, 1, p)
        BY <1>0, <3>2, <3>3, TrimFromStart
      <3>4. PICK d \in p..n : Trim(line) = SubSeq(line, p, d) /\ MatchesAt(line, 1, p)
        BY <3>4a
      <3>5. line[p] \in Class
        BY <3>4 DEF MatchesAt
      <3>6. p \in 1..(f - 1)
        <4>1. p <= f /\ p # f
          BY <2>1, <2>5, <3>4, <3>5, Characters
        <4> QED BY <1>1, <2>0, <4>1
      <3>7. line[p] # sign /\ line[f] # sign
        BY <1>0, <2>0, <2>5, <3>6
      <3>8. Marked(line, sign) <=> line[p] = sign
        BY <1>0, <3>4, <3>5, MarkedAt
      <3> QED BY <1>3, <3>7, <3>8
    <2> QED BY <1>3, <2>3, <2>4, <2>5 DEF WellFormed
  <1>4. CASE \E f \in 1..n : First(line, f) /\ SignOf(line) = line[f]
    <2>1. PICK f \in 1..n : First(line, f) /\ SignOf(line) = line[f]
      BY <1>4
    <2>2. /\ Marked(line, sign) <=> SignOf(line) = sign
          /\ SignOf(line) = sign =>
                \E e \in f..n : /\ line[f] = sign /\ ListUpTo(line, f, e)
                                /\ Trim(line) = SubSeq(line, f, e)
      BY <1>3, <2>1
    <2> QED BY Zenon, <2>1, <2>2
  <1> QED BY <1>0, <1>2, <1>4, FirstVisible

-----------------------------------------------------------------------------
(***************************************************************************)
(* The words of a list.                                                    *)
(***************************************************************************)
Word(s, i, j) ==
    /\ i <= j /\ \A k \in i..j : s[k] # "sp"
    /\ i = 1 \/ s[i - 1] = "sp"
    /\ j = Len(s) \/ s[j + 1] = "sp"

LEMMA WordsAre ==
    ASSUME NEW s, NEW w
    PROVE  w \in WordsOf(s) <=> \E i, j \in 1..Len(s) : Word(s, i, j) /\ w = SubSeq(s, i, j)
  <1> DEFINE Pairs == {q \in (1..Len(s)) \X (1..Len(s)) : Word(s, q[1], q[2])}
  <1>1. WordsOf(s) = {SubSeq(s, p[1], p[2]) : p \in Pairs}
    BY Zenon DEF WordsOf, Word
  <1>2. ASSUME NEW i \in 1..Len(s), NEW j \in 1..Len(s), Word(s, i, j), w = SubSeq(s, i, j)
        PROVE  w \in WordsOf(s)
    <2>1. <<i, j>> \in Pairs /\ <<i, j>>[1] = i /\ <<i, j>>[2] = j
      BY <1>2
    <2> HIDE DEF Pairs
    <2> QED BY Zenon, <1>1, <1>2, <2>1
  <1>3. ASSUME w \in WordsOf(s)
        PROVE  \E i, j \in 1..Len(s) : Word(s, i, j) /\ w = SubSeq(s, i, j)
    <2>1. PICK p \in Pairs : w = SubSeq(s, p[1], p[2])
      BY <1>1, <1>3
    <2>2. p[1] \in 1..Len(s) /\ p[2] \in 1..Len(s) /\ Word(s, p[1], p[2])
      OBVIOUS
    <2> QED BY Zenon, <2>1, <2>2
  <1> QED BY <1>2, <1>3

LEMMA SamePart ==
    ASSUME NEW D, NEW s \in Seq(D), NEW t \in Seq(D), NEW o \in Int,
           NEW i \in 1..Len(s), NEW j \in i..Len(s),
           i + o \in 1..Len(t), j + o \in 1..Len(t), \A k \in i..j : s[k] = t[k + o]
    PROVE  SubSeq(s, i, j) = SubSeq(t, i + o, j + o)
  <1>1. Len(s) \in Nat /\ Len(t) \in Nat
    BY LenProperties
  <1> DEFINE a == SubSeq(s, i, j)
             b == SubSeq(t, i + o, j + o)
  <1>2. /\ a \in Seq(D) /\ Len(a) = j - i + 1
        /\ \A k \in 1..(j - i + 1) : a[k] = s[i + k - 1]
    <2>1. i \in Int /\ j \in Int /\ i <= j
      BY <1>1
    <2>2. \A k \in i..j : k \in 1..Len(s)
      BY <1>1
    <2>3. \A k \in i..j : s[k] \in D
      BY <2>2, ElementOfSeq
    <2> QED BY <2>1, <2>3, SubSeqProperties
  <1>3. /\ b \in Seq(D) /\ Len(b) = j - i + 1
        /\ \A k \in 1..(j - i + 1) : b[k] = t[i + o + k - 1]
    <2> DEFINE x == i + o
               y == j + o
    <2>1. x \in Int /\ y \in Int /\ x <= y /\ y - x + 1 = j - i + 1 /\ x \in 1..Len(t) /\ y \in 1..Len(t)
      BY <1>1
    <2> HIDE DEF x, y
    <2>2. \A k \in x..y : k \in 1..Len(t)
      BY <1>1, <2>1
    <2>3. \A k \in x..y : t[k] \in D
      BY <2>2, ElementOfSeq
    <2>4. /\ SubSeq(t, x, y) \in Seq(D) /\ Len(SubSeq(t, x, y)) = y - x + 1
          /\ \A k \in 1..(y - x + 1) : SubSeq(t, x, y)[k] = t[x + k - 1]
      BY <2>1, <2>3, SubSeqProperties
    <2> QED BY <2>1, <2>4 DEF x, y
  <1> HIDE DEF a, b
  <1>4. ASSUME NEW k \in 1..(j - i + 1) PROVE a[k] = b[k]
    <2>1. i + k - 1 \in i..j /\ (i + k - 1) + o = i + o + k - 1
      BY <1>1
    <2>2. s[i + k - 1] = t[(i + k - 1) + o]
      BY <2>1
    <2> QED BY <1>2, <1>3, <2>1, <2>2
  <1>5. a = b
    BY <1>2, <1>3, <1>4, SeqEqual
  <1> QED BY <1>5 DEF a, b

\* The words of two lists with a space between them are those of both.
LEMMA WordsOfJoin ==
    ASSUME NEW a \in Seq(Chars), NEW b \in Seq(Chars)
    PROVE  /\ a \o <<"sp">> \o b \in Seq(Chars)
           /\ a \o <<"sp">> \o b # <<>>
           /\ Range(a \o <<"sp">> \o b) = Range(a) \cup {"sp"} \cup Range(b)
           /\ WordsOf(a \o <<"sp">> \o b) = WordsOf(a) \cup WordsOf(b)
  <1> DEFINE n == Len(a)
             m == Len(b)
             c == a \o <<"sp">>
             s == c \o b
  <1>1. n \in Nat /\ m \in Nat
    BY LenProperties
  <1>2. <<"sp">> \in Seq(Chars) /\ Len(<<"sp">>) = 1 /\ <<"sp">>[1] = "sp"
    BY DEF Chars, Class
  <1>3. /\ c \in Seq(Chars) /\ Len(c) = n + 1 /\ c[n + 1] = "sp"
        /\ \A k \in 1..n : c[k] = a[k]
    <2>1. /\ c \in Seq(Chars) /\ Len(c) = n + 1
          /\ \A k \in 1..(n + 1) : c[k] = IF k <= n THEN a[k] ELSE <<"sp">>[k - n]
      BY <1>1, <1>2, ConcatProperties
    <2>2. n + 1 \in 1..(n + 1) /\ ~(n + 1 <= n) /\ (n + 1) - n = 1
      BY <1>1
    <2>3. \A k \in 1..n : k \in 1..(n + 1) /\ k <= n
      BY <1>1
    <2> HIDE DEF c, n
    <2> QED BY <1>2, <2>1, <2>2, <2>3
  <1> HIDE DEF c
  <1>4. /\ s \in Seq(Chars) /\ Len(s) = n + 1 + m
        /\ s[n + 1] = "sp"
        /\ \A k \in 1..n : s[k] = a[k]
        /\ \A k \in 1..m : s[n + 1 + k] = b[k]
    <2>1. /\ s \in Seq(Chars) /\ Len(s) = n + 1 + m
          /\ \A k \in 1..(n + 1 + m) : s[k] = IF k <= n + 1 THEN c[k] ELSE b[k - (n + 1)]
      <3>1. /\ s \in Seq(Chars) /\ Len(s) = Len(c) + m
            /\ \A k \in 1..(Len(c) + m) : s[k] = IF k <= Len(c) THEN c[k] ELSE b[k - Len(c)]
        BY <1>3, ConcatProperties
      <3> HIDE DEF s, n, m
      <3>2. Len(c) = n + 1
        BY <1>3
      <3> QED BY <3>1, <3>2
    <2>2. \A k \in 1..n : k \in 1..(n + 1 + m) /\ k <= n + 1
      BY <1>1
    <2>3. n + 1 \in 1..(n + 1 + m) /\ n + 1 <= n + 1
      BY <1>1
    <2>4. \A k \in 1..m : /\ n + 1 + k \in 1..(n + 1 + m) /\ ~(n + 1 + k <= n + 1)
                          /\ (n + 1 + k) - (n + 1) = k
      BY <1>1
    <2> HIDE DEF s, n, m
    <2>5. \A k \in 1..m : s[n + 1 + k] = b[k]
      BY <2>1, <2>4
    <2> QED BY <1>3, <2>1, <2>2, <2>3, <2>5
  <1>5. s = a \o <<"sp">> \o b
    BY DEF c
  <1>6. Range(s) = Range(a) \cup {"sp"} \cup Range(b)
    <2>1. Range(<<"sp">>) = {"sp"}
      <3>1. Range(<<"sp">>) = {<<"sp">>[k] : k \in 1..1}
        BY <1>2, RangeEquality
      <3>2. 1..1 = {1}
        OBVIOUS
      <3> QED BY <1>2, <3>1, <3>2
    <2>2. Range(c) = Range(a) \cup Range(<<"sp">>)
      BY <1>2, RangeConcatenation DEF c
    <2>3. Range(s) = Range(c) \cup Range(b)
      BY <1>3, RangeConcatenation
    <2> QED BY <2>1, <2>2, <2>3
  <1> HIDE DEF s, n, m
  <1>7. ASSUME NEW w \in WordsOf(a) PROVE w \in WordsOf(s)
    <2>1. PICK i \in 1..n, j \in 1..n : Word(a, i, j) /\ w = SubSeq(a, i, j)
      BY WordsAre DEF n
    <2>2. i \in 1..Len(s) /\ j \in 1..Len(s) /\ i <= j /\ \A k \in i..j : k \in 1..n
      BY <1>1, <1>4, <2>1 DEF Word
    <2>3. Word(s, i, j)
      <3>1. \A k \in i..j : s[k] # "sp"
        BY <1>4, <2>1, <2>2 DEF Word
      <3>2. i = 1 \/ s[i - 1] = "sp"
        <4>1. i = 1 \/ i - 1 \in 1..n
          BY <1>1
        <4> QED BY <1>4, <2>1, <4>1 DEF Word
      <3>3. s[j + 1] = "sp"
        <4>1. j = n \/ j + 1 \in 1..n
          BY <1>1
        <4>2. j = n \/ a[j + 1] = "sp"
          BY <2>1 DEF Word, n
        <4> QED BY <1>4, <4>1, <4>2
      <3> QED BY <2>2, <3>1, <3>2, <3>3 DEF Word
    <2>4. w = SubSeq(s, i, j)
      <3>1. i + 0 = i /\ j + 0 = j /\ j \in i..n /\ \A k \in i..j : k + 0 = k
        BY <1>1, <2>2
      <3>2. \A k \in i..j : a[k] = s[k + 0]
        BY <1>4, <2>2, <3>1
      <3>3. SubSeq(a, i, j) = SubSeq(s, i + 0, j + 0)
        BY <1>4, <2>2, <3>1, <3>2, SamePart DEF n
      <3> QED BY <2>1, <3>1, <3>3
    <2> QED BY <2>2, <2>3, <2>4, WordsAre
  <1>8. ASSUME NEW w \in WordsOf(b) PROVE w \in WordsOf(s)
    <2>1. PICK i \in 1..m, j \in 1..m : Word(b, i, j) /\ w = SubSeq(b, i, j)
      BY WordsAre DEF m
    <2> DEFINE o == n + 1
               x == i + o
               y == j + o
    <2>2. /\ x \in 1..Len(s) /\ y \in 1..Len(s) /\ x <= y /\ o \in Int
          /\ i <= j /\ j \in i..m
      BY <1>1, <1>4, <2>1 DEF Word
    <2>3. ASSUME NEW k \in 1..m PROVE s[k + o] = b[k]
      <3>1. k + o = n + 1 + k
        BY <1>1
      <3> QED BY <1>4, <3>1
    <2>4. Word(s, x, y)
      <3>1. ASSUME NEW k \in x..y PROVE s[k] # "sp"
        <4>1. k - o \in i..j /\ k - o \in 1..m /\ (k - o) + o = k
          BY <1>1, <2>2
        <4>2. s[k] = b[k - o]
          BY <2>3, <4>1
        <4> QED BY <2>1, <4>1, <4>2 DEF Word
      <3>2. s[x - 1] = "sp"
        <4>1. CASE i = 1
          <5>1. x - 1 = n + 1
            BY <1>1, <4>1
          <5> QED BY <1>4, <5>1
        <4>2. CASE i # 1
          <5>1. i - 1 \in 1..m /\ (i - 1) + o = x - 1
            BY <1>1, <4>2
          <5>2. b[i - 1] = "sp"
            BY <2>1, <4>2 DEF Word
          <5>3. s[(i - 1) + o] = b[i - 1]
            BY <2>3, <5>1
          <5> QED BY <5>1, <5>2, <5>3
        <4> QED BY <4>1, <4>2
      <3>3. y = Len(s) \/ s[y + 1] = "sp"
        <4>1. CASE j = m
          BY <1>1, <1>4, <4>1
        <4>2. CASE j # m
          <5>1. j + 1 \in 1..m /\ (j + 1) + o = y + 1
            BY <1>1, <4>2
          <5>2. b[j + 1] = "sp"
            BY <2>1, <4>2 DEF Word, m
          <5>3. s[(j + 1) + o] = b[j + 1]
            BY <2>3, <5>1
          <5> QED BY <5>1, <5>2, <5>3
        <4> QED BY <4>1, <4>2
      <3> HIDE DEF x, y
      <3> QED BY <2>2, <3>1, <3>2, <3>3 DEF Word
    <2>5. w = SubSeq(s, x, y)
      <3>1. \A k \in i..j : k \in 1..m
        BY <1>1, <2>2
      <3>2. \A k \in i..j : b[k] = s[k + o]
        BY <2>3, <3>1
      <3> HIDE DEF o
      <3>3. SubSeq(b, i, j) = SubSeq(s, i + o, j + o)
        BY <1>4, <2>2, <3>2, SamePart DEF m
      <3> QED BY <2>1, <3>3
    <2> HIDE DEF x, y
    <2> QED BY <2>2, <2>4, <2>5, WordsAre
  <1>9. ASSUME NEW w \in WordsOf(s) PROVE w \in WordsOf(a) \cup WordsOf(b)
    <2>1. PICK i \in 1..Len(s), j \in 1..Len(s) : Word(s, i, j) /\ w = SubSeq(s, i, j)
      BY WordsAre
    <2>2. i <= j /\ j \in i..Len(s) /\ n + 1 \notin i..j
      BY <1>1, <1>4, <2>1 DEF Word
    <2>3. CASE j <= n
      <3>1. i \in 1..n /\ j \in 1..n /\ \A k \in i..j : k \in 1..n
        BY <1>1, <1>4, <2>2, <2>3
      <3>2. Word(a, i, j)
        <4>1. \A k \in i..j : a[k] # "sp"
          BY <1>4, <2>1, <3>1 DEF Word
        <4>2. i = 1 \/ a[i - 1] = "sp"
          <5>1. i = 1 \/ i - 1 \in 1..n
            BY <1>1, <3>1
          <5> QED BY <1>4, <2>1, <5>1 DEF Word
        <4>3. j = Len(a) \/ a[j + 1] = "sp"
          <5>1. j = n \/ (j + 1 \in 1..n /\ j # Len(s))
            BY <1>1, <1>4, <3>1
          <5> QED BY <1>4, <2>1, <5>1 DEF Word, n
        <4> QED BY <2>2, <4>1, <4>2, <4>3 DEF Word
      <3>3. SubSeq(s, i, j) = SubSeq(a, i, j)
        <4>1. i + 0 = i /\ j + 0 = j /\ \A k \in i..j : k + 0 = k
          BY <1>1, <2>2
        <4>2. \A k \in i..j : s[k] = a[k + 0]
          BY <1>4, <3>1, <4>1
        <4>3. SubSeq(s, i, j) = SubSeq(a, i + 0, j + 0)
          BY <1>4, <2>2, <3>1, <4>1, <4>2, SamePart DEF n
        <4> QED BY <4>1, <4>3
      <3>4. w \in WordsOf(a)
        BY <2>1, <3>1, <3>2, <3>3, WordsAre DEF n
      <3> QED BY <3>4
    <2>4. CASE i >= n + 2
      <3> DEFINE o == n + 1
                 x == i - o
                 y == j - o
      <3>1. /\ x \in 1..m /\ y \in 1..m /\ x <= y /\ y \in x..m /\ o \in Int
            /\ x + o = i /\ y + o = j
        BY <1>1, <1>4, <2>2, <2>4
      <3>2. ASSUME NEW k \in 1..m PROVE s[k + o] = b[k]
        <4>1. k + o = n + 1 + k
          BY <1>1
        <4> QED BY <1>4, <4>1
      <3>3. Word(b, x, y)
        <4>1. ASSUME NEW k \in x..y PROVE b[k] # "sp"
          <5>1. k \in 1..m /\ k + o \in i..j
            BY <1>1, <3>1
          <5>2. s[k + o] # "sp"
            BY <2>1, <5>1 DEF Word
          <5> QED BY <3>2, <5>1, <5>2
        <4>2. x = 1 \/ b[x - 1] = "sp"
          <5>1. x = 1 \/ (x - 1 \in 1..m /\ (x - 1) + o = i - 1 /\ i # 1)
            BY <1>1, <3>1
          <5>2. i = 1 \/ s[i - 1] = "sp"
            BY <2>1 DEF Word
          <5>3. x - 1 \in 1..m => s[(x - 1) + o] = b[x - 1]
            BY <3>2
          <5> HIDE DEF x, o
          <5> QED BY <5>1, <5>2, <5>3
        <4>3. y = Len(b) \/ b[y + 1] = "sp"
          <5>1. y = m \/ (y + 1 \in 1..m /\ (y + 1) + o = j + 1 /\ j # Len(s))
            BY <1>1, <1>4, <3>1
          <5>2. j = Len(s) \/ s[j + 1] = "sp"
            BY <2>1 DEF Word
          <5>3. y + 1 \in 1..m => s[(y + 1) + o] = b[y + 1]
            BY <3>2
          <5> HIDE DEF y, o
          <5> QED BY <5>1, <5>2, <5>3 DEF m
        <4> HIDE DEF x, y
        <4> QED BY <3>1, <4>1, <4>2, <4>3 DEF Word
      <3>4. SubSeq(b, x, y) = SubSeq(s, x + o, y + o)
        <4>1. \A k \in x..y : k \in 1..m
          BY <1>1, <3>1
        <4>2. \A k \in x..y : b[k] = s[k + o]
          BY <3>2, <4>1
        <4> HIDE DEF x, y, o
        <4> QED BY <1>4, <3>1, <4>2, SamePart DEF m
      <3>5. w = SubSeq(b, x, y)
        BY <2>1, <3>1, <3>4
      <3> HIDE DEF x, y
      <3>6. w \in WordsOf(b)
        BY <3>1, <3>3, <3>5, WordsAre DEF m
      <3> QED BY <3>6
    <2>5. j <= n \/ i >= n + 2
      BY <1>1, <1>4, <2>2
    <2> QED BY <2>3, <2>4, <2>5
  <1>10. WordsOf(s) = WordsOf(a) \cup WordsOf(b)
    BY <1>7, <1>8, <1>9
  <1>11. s # <<>>
    <2>1. Len(s) # 0
      BY <1>1, <1>4
    <2> QED BY <2>1, EmptySeq
  <1> QED BY <1>4, <1>5, <1>6, <1>10, <1>11

LEMMA NoWords == WordsOf(<<>>) = {}
  <1>1. Len(<<>>) = 0
    OBVIOUS
  <1>2. ASSUME NEW w \in WordsOf(<<>>) PROVE FALSE
    <2>1. PICK i \in 1..Len(<<>>) : TRUE
      BY WordsAre
    <2> QED BY <1>1, <2>1
  <1> QED BY <1>2

\* What follows the sign of a well-formed line: its words are the names.
LEMMA ListWords ==
    ASSUME NEW line \in Seq(Chars), NEW f \in 1..Len(line), NEW e \in f..Len(line),
           First(line, f), line[f] \in {"+", "-"}, ListUpTo(line, f, e)
    PROVE  /\ SubSeq(line, f + 1, e) \in Seq(Chars)
           /\ WordsOf(SubSeq(line, f + 1, e)) = NamesIn(line)
           /\ \A c \in Range(SubSeq(line, f + 1, e)) : c = "sp" \/ <<c>> \in NamesIn(line)
  <1> DEFINE n == Len(line)
             t == SubSeq(line, f + 1, e)
  <1>1. n \in Nat /\ f \in 1..n /\ e \in f..n
    BY LenProperties
  <1>2. /\ t \in Seq(Chars) /\ Len(t) = e - f
        /\ \A k \in 1..(e - f) : t[k] = line[f + k]
    <2>1. f + 1 \in Int /\ e \in Int /\ \A k \in (f + 1)..e : k \in 1..n
      BY <1>1
    <2>2. \A k \in (f + 1)..e : line[k] \in Chars
      BY <2>1, ElementOfSeq
    <2>3. /\ t \in Seq(Chars) /\ Len(t) = IF f + 1 <= e THEN e - (f + 1) + 1 ELSE 0
          /\ \A k \in 1..(e - (f + 1) + 1) : t[k] = line[(f + 1) + k - 1]
      BY <2>1, <2>2, SubSeqProperties
    <2>4. (IF f + 1 <= e THEN e - (f + 1) + 1 ELSE 0) = e - f /\ e - (f + 1) + 1 = e - f
      BY <1>1
    <2>5. \A k \in 1..(e - f) : (f + 1) + k - 1 = f + k
      BY <1>1
    <2> HIDE DEF t
    <2> QED BY <2>3, <2>4, <2>5
  <1>3. ASSUME NEW k \in 1..(e - f)
        PROVE  t[k] \in Names \cup {"sp"} /\ (t[k] # "sp" <=> line[f + k] \in Names)
    <2>1. f + k \in (f + 1)..e
      BY <1>1
    <2>2. line[f + k] \in Names \cup {"sp"}
      BY <2>1 DEF ListUpTo
    <2> QED BY <1>2, <2>2, Characters
  <1>4. ASSUME NEW k \in 1..(e - f), k + 1 \in 1..(e - f) PROVE t[k] = "sp" \/ t[k + 1] = "sp"
    <2>1. f + k \in (f + 1)..(e - 1) /\ f + (k + 1) = (f + k) + 1
      BY <1>1, <1>4
    <2>2. "sp" \in {line[f + k], line[f + (k + 1)]}
      BY <2>1 DEF ListUpTo
    <2> QED BY <1>2, <1>4, <2>2
  <1>5. ASSUME NEW i \in 1..n, line[i] \in Names
        PROVE  i - f \in 1..(e - f) /\ f + (i - f) = i
    <2>1. ~(i < f)
      <3> SUFFICES ASSUME i < f PROVE FALSE
        OBVIOUS
      <3>1. i \in 1..(f - 1)
        BY <1>1
      <3>2. line[i] \in Blank
        BY <3>1 DEF First
      <3> QED BY <1>5, <3>2, Characters DEF Blank
    <2>2. i # f
      BY <1>5, Characters
    <2>3. ~(i > e)
      <3> SUFFICES ASSUME i > e PROVE FALSE
        OBVIOUS
      <3>1. i \in (e + 1)..n
        BY <1>1
      <3>2. line[i] \in Blank
        BY <3>1 DEF ListUpTo
      <3> QED BY <1>5, <3>2, Characters DEF Blank
    <2> QED BY <1>1, <2>1, <2>2, <2>3
  <1> HIDE DEF t
  <1>6. ASSUME NEW k \in 1..(e - f) PROVE SubSeq(t, k, k) = <<t[k]>>
    <2>1. k \in 1..Len(t) /\ k \in Int
      BY <1>1, <1>2
    <2>2. t[k] \in Chars /\ k..k = {k}
      BY <1>2, <2>1, ElementOfSeq
    <2>3. SubSeq(t, k, k) \in Seq(Chars) /\ Len(SubSeq(t, k, k)) = 1 /\ SubSeq(t, k, k)[1] = t[k]
      <3>1. \A j \in k..k : t[j] \in Chars
        BY <2>2
      <3>2. /\ SubSeq(t, k, k) \in Seq(Chars)
            /\ Len(SubSeq(t, k, k)) = IF k <= k THEN k - k + 1 ELSE 0
            /\ \A j \in 1..(k - k + 1) : SubSeq(t, k, k)[j] = t[k + j - 1]
        BY <2>1, <3>1, SubSeqProperties
      <3>3. k <= k /\ k - k + 1 = 1 /\ k + 1 - 1 = k /\ 1 \in 1..1
        BY <2>1
      <3> QED BY <3>2, <3>3
    <2> DEFINE one == <<t[k]>>
    <2>4. one \in Seq(Chars) /\ Len(one) = 1 /\ one[1] = t[k]
      BY <2>2
    <2>5. \A j \in 1..Len(one) : j = 1
      BY <2>4
    <2> HIDE DEF one
    <2>6. SubSeq(t, k, k) = one
      BY <2>3, <2>4, <2>5, SeqEqual
    <2> QED BY <2>6 DEF one
  <1>7. ASSUME NEW w \in WordsOf(t) PROVE w \in NamesIn(line)
    <2>1. PICK i \in 1..Len(t), j \in 1..Len(t) : Word(t, i, j) /\ w = SubSeq(t, i, j)
      BY WordsAre
    <2>2. i \in 1..(e - f) /\ j \in 1..(e - f) /\ i <= j /\ \A k \in i..j : t[k] # "sp"
      BY <1>2, <2>1 DEF Word
    <2>3. i = j
      <3> SUFFICES ASSUME i # j PROVE FALSE
        OBVIOUS
      <3>1. i \in i..j /\ i + 1 \in i..j /\ i + 1 \in 1..(e - f)
        BY <1>1, <2>2
      <3> QED BY <1>4, <2>2, <3>1
    <2>4. w = <<t[i]>> /\ t[i] # "sp"
      <3>1. i \in i..j
        BY <1>1, <2>2
      <3> QED BY <1>6, <2>1, <2>2, <2>3, <3>1
    <2>5. line[f + i] \in Names /\ w = <<line[f + i]>> /\ f + i \in 1..n
      BY <1>1, <1>2, <1>3, <2>2, <2>4
    <2> QED BY <2>5 DEF NamesIn
  <1>8. ASSUME NEW w \in NamesIn(line) PROVE w \in WordsOf(t)
    <2>1. PICK i \in 1..n : line[i] \in Names /\ w = <<line[i]>>
      BY DEF NamesIn
    <2> DEFINE k == i - f
    <2>2. k \in 1..(e - f) /\ f + k = i
      BY <1>5, <2>1
    <2> HIDE DEF k
    <2>3. t[k] = line[i] /\ t[k] # "sp" /\ w = SubSeq(t, k, k)
      BY <1>2, <1>3, <1>6, <2>1, <2>2
    <2>4. Word(t, k, k)
      <3>1. k..k = {k} /\ k <= k
        BY <1>1, <2>2
      <3>2. k = 1 \/ t[k - 1] = "sp"
        <4>1. CASE k # 1
          <5>1. k - 1 \in 1..(e - f) /\ (k - 1) + 1 = k
            BY <1>1, <2>2, <4>1
          <5> QED BY <1>4, <2>2, <2>3, <5>1
        <4> QED BY <4>1
      <3>3. k = Len(t) \/ t[k + 1] = "sp"
        <4>1. CASE k # Len(t)
          <5>1. k + 1 \in 1..(e - f)
            BY <1>1, <1>2, <2>2, <4>1
          <5> QED BY <1>4, <2>2, <2>3, <5>1
        <4> QED BY <4>1
      <3> QED BY <2>3, <3>1, <3>2, <3>3 DEF Word
    <2>5. k \in 1..Len(t)
      BY <1>2, <2>2
    <2> QED BY <2>3, <2>4, <2>5, WordsAre
  <1>9. ASSUME NEW c \in Range(t) PROVE c = "sp" \/ <<c>> \in NamesIn(line)
    <2>1. PICK k \in 1..(e - f) : c = t[k]
      BY <1>2, RangeEquality
    <2>2. CASE c # "sp"
      <3>1. line[f + k] \in Names /\ c = line[f + k] /\ f + k \in 1..n
        BY <1>1, <1>2, <1>3, <2>1, <2>2
      <3> QED BY <3>1 DEF NamesIn
    <2> QED BY <2>2
  <1> QED BY <1>2, <1>7, <1>8, <1>9 DEF t

LEMMA LineTaken ==
    ASSUME NEW line, WellFormed(line), NEW sign \in {"+", "-"}, SignOf(line) = sign
    PROVE  /\ Tail(Trim(line)) \in Seq(Chars)
           /\ WordsOf(Tail(Trim(line))) = NamesIn(line)
           /\ \A c \in Range(Tail(Trim(line))) : c = "sp" \/ <<c>> \in NamesIn(line)
  <1>1. line \in Seq(Chars)
    BY DEF WellFormed
  <1>2. PICK f \in 1..Len(line) : \E e \in f..Len(line) :
            /\ First(line, f) /\ line[f] = sign /\ ListUpTo(line, f, e)
            /\ Trim(line) = SubSeq(line, f, e)
    BY MarkedBySign
  <1>3. PICK e \in f..Len(line) :
            /\ First(line, f) /\ line[f] = sign /\ ListUpTo(line, f, e)
            /\ Trim(line) = SubSeq(line, f, e)
    BY <1>2
  <1>4. Tail(Trim(line)) = SubSeq(line, f + 1, e)
    BY <1>1, <1>3, HeadTailOfSubSeq
  <1> QED BY <1>1, <1>3, <1>4, ListWords

-----------------------------------------------------------------------------
(***************************************************************************)
(* The invariant.                                                          *)
(***************************************************************************)
\* The lines with one sign among the first k, the names on them, and what is
\* right for the two strings when these lines have been read. A second "-"
\* line spoils the words, but brings no other characters.
LinesUpTo(sign, k) == {n \in LinesWith(sign) : n <= k}
MeantUpTo(sign, k) == UNION {NamesIn(lines[n]) : n \in LinesUpTo(sign, k)}
Collected(k) ==
    /\ WordsOf(install) = MeantUpTo("+", k)
    /\ \A c \in Range(remove) : c = "sp" \/ <<c>> \in MeantUpTo("-", k)
    /\ LinesUpTo("-", k) = {} => remove = <<>>
    /\ \A n \in LinesUpTo("-", k) : LinesUpTo("-", k) = {n} => WordsOf(remove) = NamesIn(lines[n])

Texts == lines \in Files /\ install \in Seq(Chars) /\ remove \in Seq(Chars)

ReadSoFar ==
    /\ phase \in {"isfile", "open", "spin"} => install = <<>> /\ remove = <<>>
    /\ phase = "read" => \E k \in 0..Len(lines) : rest = SubSeq(lines, k + 1, Len(lines)) /\ Collected(k)
    /\ phase \in {"install", "remove", "done"} =>
          Collected(Len(lines)) \/ (~present /\ install = <<>> /\ remove = <<>>)

\* What was done to the host, by the commands run so far.
Commands ==
    [op : {"install", "remove"}, words : SUBSET Seq(Chars), ok : {TRUE, FALSE}]
AllOk == \A i \in 1..Len(ran) : ran[i].ok = TRUE
Host ==
    /\ ran \in Seq(Commands)
    /\ phase \in {"isfile", "open", "spin", "read", "install"} => ran = <<>> /\ installed = Initially
    /\ \A i \in 1..Len(ran) :
          ran[i].op = "install" => install # <<>> /\ ran[i].words = WordsOf(install)
    /\ phase = "remove" /\ AllOk => installed = Initially \cup WordsOf(install)
    /\ phase = "done" /\ AllOk => installed = (Initially \cup WordsOf(install)) \ WordsOf(remove)
    /\ Initially \ Meant("-") \subseteq installed

PkgInv ==
    /\ phase \in {"isfile", "open", "spin", "read", "install", "remove", "done"}
    /\ Texts /\ ReadSoFar /\ Host

\* With the file as it is, these are the same after a step as before.
LEMMA FileStays ==
    ASSUME lines' = lines, NEW sign, NEW k
    PROVE  /\ LinesUpTo(sign, k)' = LinesUpTo(sign, k) /\ MeantUpTo(sign, k)' = MeantUpTo(sign, k)
           /\ Meant(sign)' = Meant(sign)
  BY DEF LinesUpTo, MeantUpTo, LinesWith, Meant

LEMMA OneMoreLine ==
    ASSUME lines \in Seq(Seq(Chars)), NEW sign, NEW k \in 0..(Len(lines) - 1)
    PROVE  /\ LinesUpTo(sign, k + 1) =
                 LinesUpTo(sign, k) \cup (IF SignOf(lines[k + 1]) = sign THEN {k + 1} ELSE {})
           /\ MeantUpTo(sign, k + 1) =
                 MeantUpTo(sign, k) \cup (IF SignOf(lines[k + 1]) = sign THEN NamesIn(lines[k + 1]) ELSE {})
           /\ \A n \in LinesUpTo(sign, k) : n # k + 1
  <1>1. Len(lines) \in Nat
    BY LenProperties
  <1>2. /\ LinesUpTo(sign, k + 1) =
              LinesUpTo(sign, k) \cup (IF SignOf(lines[k + 1]) = sign THEN {k + 1} ELSE {})
        /\ \A n \in LinesUpTo(sign, k) : n # k + 1
    BY <1>1 DEF LinesUpTo, LinesWith
  <1>3. MeantUpTo(sign, k + 1) =
           MeantUpTo(sign, k) \cup (IF SignOf(lines[k + 1]) = sign THEN NamesIn(lines[k + 1]) ELSE {})
    BY <1>2 DEF MeantUpTo
  <1> QED BY <1>2, <1>3

LEMMA AllLines ==
    ASSUME lines \in Seq(Seq(Chars)), NEW sign
    PROVE  LinesUpTo(sign, Len(lines)) = LinesWith(sign) /\ MeantUpTo(sign, Len(lines)) = Meant(sign)
  <1>1. Len(lines) \in Nat
    BY LenProperties
  <1>2. LinesUpTo(sign, Len(lines)) = LinesWith(sign)
    BY <1>1 DEF LinesUpTo, LinesWith
  <1> QED BY <1>2 DEF MeantUpTo, Meant

\* What a "-" line does to the list: the old list comes twice.
LEMMA RemovalGrows ==
    ASSUME NEW list \in Seq(Chars), NEW text \in Seq(Chars)
    PROVE  /\ AddToRemove(list, text) \in Seq(Chars)
           /\ Range(AddToRemove(list, text)) = Range(list) \cup {"sp"} \cup Range(text)
           /\ list = <<>> => WordsOf(AddToRemove(list, text)) = WordsOf(text)
  <1> DEFINE twice == list \o <<"sp">> \o list
  <1>1. twice \in Seq(Chars) /\ Range(twice) = Range(list) \cup {"sp"} \cup Range(list)
    BY WordsOfJoin
  <1>2. AddToRemove(list, text) = twice \o text
    BY DEF AddToRemove
  <1>3. ASSUME list = <<>> PROVE WordsOf(AddToRemove(list, text)) = WordsOf(text)
    <2>1. <<"sp">> \in Seq(Chars)
      BY DEF Chars, Class
    <2>2. list \o <<"sp">> \in Seq(Chars)
      BY <2>1, ConcatProperties
    <2>3. twice = list \o <<"sp">>
      BY <1>3, <2>2, ConcatEmptySeq
    <2>4. AddToRemove(list, text) = list \o <<"sp">> \o text
      BY <1>2, <2>3
    <2>5. WordsOf(AddToRemove(list, text)) = WordsOf(list) \cup WordsOf(text)
      BY <2>4, WordsOfJoin
    <2> QED BY <1>3, <2>5, NoWords
  <1> HIDE DEF twice
  <1> QED BY <1>1, <1>2, <1>3, ConcatProperties, RangeConcatenation

\* Reading a line keeps what was collected right.
LEMMA ReadLineCollects ==
    ASSUME FilesWellFormed, Texts, ReadLine, NEW k \in 0..(Len(lines) - 1),
           Head(rest) = lines[k + 1], Collected(k)
    PROVE  Texts' /\ Collected(k + 1)'
  <1> DEFINE line == lines[k + 1]
             text == Tail(Trim(line))
  <1>1. lines \in Seq(Seq(Chars)) /\ Len(lines) \in Nat /\ WellFormed(line) /\ lines' = lines
    <2>1. lines \in Seq(Seq(Chars)) /\ \A n \in DOMAIN lines : WellFormed(lines[n])
      BY DEF FilesWellFormed, Texts
    <2>2. Len(lines) \in Nat /\ DOMAIN lines = 1..Len(lines)
      BY <2>1, LenProperties
    <2>3. k + 1 \in 1..Len(lines)
      BY <2>2
    <2> QED BY <2>1, <2>2, <2>3 DEF ReadLine
  <1>2. /\ install' = IF SignOf(line) = "+" THEN AddToInstall(install, text) ELSE install
        /\ remove'  = IF SignOf(line) = "-" THEN AddToRemove(remove, text) ELSE remove
    BY <1>1, MarkedBySign DEF ReadLine
  <1>3. SignOf(line) \in {"+", "-"} =>
           /\ text \in Seq(Chars) /\ WordsOf(text) = NamesIn(line)
           /\ \A c \in Range(text) : c = "sp" \/ <<c>> \in NamesIn(line)
    BY <1>1, LineTaken
  <1> HIDE DEF line, text
  <1>4. /\ install' \in Seq(Chars)
        /\ WordsOf(install') = MeantUpTo("+", k + 1)
    <2>1. MeantUpTo("+", k + 1) =
             MeantUpTo("+", k) \cup (IF SignOf(line) = "+" THEN NamesIn(line) ELSE {})
      BY <1>1, OneMoreLine DEF line
    <2>2. CASE SignOf(line) = "+"
      <3>1. install' = install \o <<"sp">> \o text
        BY <1>2, <2>2 DEF AddToInstall
      <3>2. install' \in Seq(Chars) /\ WordsOf(install') = WordsOf(install) \cup WordsOf(text)
        BY <1>3, <2>2, <3>1, WordsOfJoin DEF Texts
      <3> QED BY <1>3, <2>1, <2>2, <3>2 DEF Collected
    <2>3. CASE SignOf(line) # "+"
      BY <1>2, <2>1, <2>3 DEF Collected, Texts
    <2> QED BY <2>2, <2>3
  <1>5. /\ remove' \in Seq(Chars)
        /\ \A c \in Range(remove') : c = "sp" \/ <<c>> \in MeantUpTo("-", k + 1)
    <2>1. MeantUpTo("-", k + 1) =
             MeantUpTo("-", k) \cup (IF SignOf(line) = "-" THEN NamesIn(line) ELSE {})
      BY <1>1, OneMoreLine DEF line
    <2>2. CASE SignOf(line) = "-"
      <3>1. /\ remove' \in Seq(Chars)
            /\ Range(remove') = Range(remove) \cup {"sp"} \cup Range(text)
        BY <1>2, <1>3, <2>2, RemovalGrows DEF Texts
      <3> QED BY <1>3, <2>1, <2>2, <3>1 DEF Collected
    <2>3. CASE SignOf(line) # "-"
      BY <1>2, <2>1, <2>3 DEF Collected, Texts
    <2> QED BY <2>2, <2>3
  <1>6. /\ LinesUpTo("-", k + 1) = {} => remove' = <<>>
        /\ \A n \in LinesUpTo("-", k + 1) :
              LinesUpTo("-", k + 1) = {n} => WordsOf(remove') = NamesIn(lines[n])
    <2>1. /\ LinesUpTo("-", k + 1) =
                LinesUpTo("-", k) \cup (IF SignOf(line) = "-" THEN {k + 1} ELSE {})
          /\ \A n \in LinesUpTo("-", k) : n # k + 1
      BY <1>1, OneMoreLine DEF line
    <2>2. CASE SignOf(line) = "-"
      <3>1. k + 1 \in LinesUpTo("-", k + 1)
        BY <2>1, <2>2
      <3>2. ASSUME NEW n \in LinesUpTo("-", k + 1), LinesUpTo("-", k + 1) = {n}
            PROVE  WordsOf(remove') = NamesIn(lines[n])
        <4>1. n = k + 1 /\ LinesUpTo("-", k) = {}
          BY <2>1, <3>1, <3>2
        <4>2. remove = <<>>
          BY <4>1 DEF Collected
        <4>3. WordsOf(remove') = WordsOf(text)
          BY <1>2, <1>3, <2>2, <4>2, RemovalGrows DEF Texts
        <4> QED BY <1>3, <2>2, <4>1, <4>3 DEF line
      <3> QED BY <3>1, <3>2
    <2>3. CASE SignOf(line) # "-"
      BY <1>2, <2>1, <2>3 DEF Collected
    <2> QED BY <2>2, <2>3
  <1>7. Texts'
    BY <1>1, <1>4, <1>5 DEF Texts
  <1>8. /\ Collected(k + 1)'
    <2>1. /\ LinesUpTo("-", k + 1)' = LinesUpTo("-", k + 1)
          /\ MeantUpTo("-", k + 1)' = MeantUpTo("-", k + 1)
          /\ MeantUpTo("+", k + 1)' = MeantUpTo("+", k + 1)
      BY <1>1, FileStays
    <2> QED BY <1>1, <1>4, <1>5, <1>6, <2>1 DEF Collected
  <1> QED BY <1>7, <1>8

LEMMA ReadStep ==
    ASSUME FilesWellFormed, PkgInv, [Next]_vars
    PROVE  /\ phase' \in {"isfile", "open", "spin", "read", "install", "remove", "done"}
           /\ Texts' /\ ReadSoFar'
  <1>0. lines \in Seq(Seq(Chars)) /\ Len(lines) \in Nat
    <2>1. lines \in Seq(Seq(Chars))
      BY DEF FilesWellFormed, PkgInv, Texts
    <2> QED BY <2>1, LenProperties
  <1> DEFINE kept == UNCHANGED <<lines, install, remove>>
  <1>1. ASSUME kept, NEW k PROVE Collected(k)' <=> Collected(k)
    <2>1. /\ LinesUpTo("-", k)' = LinesUpTo("-", k)
          /\ MeantUpTo("-", k)' = MeantUpTo("-", k)
          /\ MeantUpTo("+", k)' = MeantUpTo("+", k)
      BY <1>1, FileStays
    <2> QED BY <1>1, <2>1 DEF Collected
  <1>2. kept => Texts'
    BY DEF PkgInv, Texts
  <1>3. CASE Vanish
    <2>1. kept /\ phase' = phase /\ phase \in {"isfile", "open"}
      BY <1>3 DEF Vanish
    <2> QED BY <1>2, <2>1 DEF PkgInv, ReadSoFar
  <1>4. CASE IsFile
    <2>1. /\ kept /\ present' = present /\ phase = "isfile"
          /\ phase' = IF present THEN "open" ELSE "install"
      BY <1>4 DEF IsFile
    <2> QED BY <1>2, <2>1 DEF PkgInv, ReadSoFar
  <1>5. CASE Open
    <2>1. kept /\ phase = "open" /\ install = <<>> /\ remove = <<>>
      BY <1>5 DEF Open, PkgInv, ReadSoFar
    <2>2. CASE present
      <3>1. phase' = "read" /\ rest' = SubSeq(lines, 0 + 1, Len(lines)) /\ lines' = lines
        <4>1. SubSeq(lines, 1, Len(lines)) = lines /\ 0 + 1 = 1
          BY <1>0, SubSeqFull
        <4> QED BY <1>5, <2>2, <4>1 DEF Open
      <3>2. Collected(0)
        <4>1. LinesUpTo("+", 0) = {} /\ LinesUpTo("-", 0) = {}
          BY <1>0 DEF LinesUpTo, LinesWith
        <4>2. MeantUpTo("+", 0) = {}
          BY <4>1 DEF MeantUpTo
        <4>3. Range(remove) = {}
          <5>1. DOMAIN remove = {}
            BY <2>1
          <5> QED BY <5>1 DEF Range
        <4> QED BY <2>1, <4>1, <4>2, <4>3, NoWords DEF Collected
      <3>3. 0 \in 0..Len(lines) /\ Collected(0)'
        BY <1>0, <1>1, <2>1, <3>2
      <3>4. \E k \in 0..Len(lines) : rest' = SubSeq(lines, k + 1, Len(lines)) /\ Collected(k)'
        BY Zenon, <3>1, <3>3
      <3> QED BY <1>2, <2>1, <3>1, <3>4 DEF ReadSoFar
    <2>3. CASE ~present
      <3>1. phase' = "spin"
        BY <1>5, <2>3 DEF Open
      <3> QED BY <1>2, <2>1, <3>1 DEF ReadSoFar
    <2> QED BY <2>2, <2>3
  <1>6. CASE ReadLine
    <2>1. phase = "read" /\ phase' = "read" /\ rest # <<>> /\ rest' = Tail(rest) /\ lines' = lines
      BY <1>6 DEF ReadLine
    <2>2. PICK k \in 0..Len(lines) : rest = SubSeq(lines, k + 1, Len(lines)) /\ Collected(k)
      BY <2>1 DEF PkgInv, ReadSoFar
    <2>3. k \in 0..(Len(lines) - 1)
      <3> SUFFICES ASSUME k \notin 0..(Len(lines) - 1) PROVE FALSE
        OBVIOUS
      <3>1. k + 1 \in Int /\ Len(lines) \in Int /\ Len(lines) < k + 1
        BY <1>0
      <3>2. rest = <<>>
        BY <2>2, <3>1, SubSeqEmpty
      <3> QED BY <2>1, <3>2
    <2>4. Head(rest) = lines[k + 1] /\ rest' = SubSeq(lines, (k + 1) + 1, Len(lines))
      <3>1. k + 1 \in 1..Len(lines) /\ Len(lines) \in (k + 1)..Len(lines)
        BY <1>0, <2>3
      <3> QED BY <1>0, <2>1, <2>2, <3>1, HeadTailOfSubSeq
    <2>5. Texts' /\ Collected(k + 1)'
      BY <1>6, <2>2, <2>3, <2>4, ReadLineCollects DEF PkgInv
    <2>6. k + 1 \in 0..Len(lines)
      BY <1>0, <2>3
    <2>7. \E m \in 0..Len(lines) : rest' = SubSeq(lines, m + 1, Len(lines)) /\ Collected(m)'
      BY Zenon, <2>4, <2>5, <2>6
    <2> QED BY <2>1, <2>5, <2>7 DEF ReadSoFar
  <1>7. CASE EndOfFile
    <2>1. /\ kept /\ present' = present
          /\ phase = "read" /\ phase' = "install" /\ rest = <<>>
      BY <1>7 DEF EndOfFile
    <2>2. PICK k \in 0..Len(lines) : rest = SubSeq(lines, k + 1, Len(lines)) /\ Collected(k)
      BY <2>1 DEF PkgInv, ReadSoFar
    <2>3. k = Len(lines)
      <3> SUFFICES ASSUME k # Len(lines) PROVE FALSE
        OBVIOUS
      <3>1. k + 1 \in Int /\ Len(lines) \in Int /\ k + 1 <= Len(lines)
        BY <1>0
      <3>2. \A i \in (k + 1)..Len(lines) : lines[i] \in Seq(Chars)
        <4>1. \A i \in (k + 1)..Len(lines) : i \in 1..Len(lines)
          BY <1>0
        <4> QED BY <1>0, <4>1, ElementOfSeq
      <3>3. Len(rest) = Len(lines) - (k + 1) + 1
        BY <2>2, <3>1, <3>2, SubSeqProperties
      <3>4. Len(rest) # 0
        BY <3>1, <3>3
      <3> QED BY <2>1, <3>4
    <2>4. Collected(Len(lines))'
      BY <1>1, <2>1, <2>2, <2>3
    <2>5. lines' = lines
      BY <2>1
    <2> QED BY <1>2, <2>1, <2>4, <2>5 DEF ReadSoFar, Collected
  <1>8. CASE Install \/ Remove
    <2>1. /\ kept /\ present' = present
          /\ phase \in {"install", "remove"} /\ phase' \in {"remove", "done"}
      BY <1>8 DEF Install, Remove
    <2>2. Collected(Len(lines))' <=> Collected(Len(lines))
      BY <1>1, <2>1
    <2>3. Collected(Len(lines)) \/ (~present /\ install = <<>> /\ remove = <<>>)
      BY <2>1 DEF PkgInv, ReadSoFar
    <2>4. Collected(Len(lines))' \/ (~present' /\ install' = <<>> /\ remove' = <<>>)
      BY <2>1, <2>2, <2>3
    <2> QED BY <1>2, <2>1, <2>4 DEF ReadSoFar, Collected
  <1>9. CASE UNCHANGED vars
    <2>1. UNCHANGED <<lines, present, rest, install, remove, phase>>
      BY <1>9 DEF vars
    <2>2. kept
      BY <2>1
    <2>3. \A k : Collected(k)' <=> Collected(k)
      BY <1>1, <2>2
    <2>4. Collected(Len(lines))' <=> Collected(Len(lines))
      BY <1>1, <2>1
    <2>5. ReadSoFar'
      <3>1. phase = "read" => \E k \in 0..Len(lines) : rest = SubSeq(lines, k + 1, Len(lines)) /\ Collected(k)'
        BY <2>3 DEF PkgInv, ReadSoFar
      <3> QED BY <2>1, <2>4, <3>1 DEF PkgInv, ReadSoFar, Collected
    <2> QED BY <1>2, <2>1, <2>2, <2>5 DEF PkgInv
  <1> QED BY <1>3, <1>4, <1>5, <1>6, <1>7, <1>8, <1>9 DEF Next, Command

LEMMA WordChars ==
    ASSUME NEW s \in Seq(Chars), NEW w \in WordsOf(s)
    PROVE  w \in Seq(Chars) /\ w[1] \in Range(s) /\ w[1] # "sp"
  <1>1. PICK i \in 1..Len(s), j \in 1..Len(s) : Word(s, i, j) /\ w = SubSeq(s, i, j)
    BY WordsAre
  <1>2. i <= j /\ i \in Int /\ j \in Int /\ \A k \in i..j : k \in 1..Len(s) /\ s[k] # "sp"
    BY <1>1, LenProperties DEF Word
  <1>3. /\ SubSeq(s, i, j) \in Seq(Chars)
        /\ \A k \in 1..(j - i + 1) : SubSeq(s, i, j)[k] = s[i + k - 1]
    <2>1. \A k \in i..j : s[k] \in Chars
      BY <1>2, ElementOfSeq
    <2> QED BY <1>2, <2>1, SubSeqProperties
  <1>4. 1 \in 1..(j - i + 1) /\ i + 1 - 1 = i /\ i \in i..j
    BY <1>2
  <1>5. w[1] = s[i]
    BY <1>1, <1>3, <1>4
  <1>6. s[i] \in Range(s)
    BY LenProperties DEF Range
  <1> QED BY <1>1, <1>2, <1>3, <1>4, <1>5, <1>6

\* A known package that is removed was meant.
LEMMA OnlyMeantRemoved ==
    ASSUME FilesWellFormed, PkgInv, phase = "remove", remove # <<>>, WordsOf(remove) \subseteq Known
    PROVE  WordsOf(remove) \subseteq Meant("-")
  <1>1. lines \in Seq(Seq(Chars)) /\ remove \in Seq(Chars)
    BY DEF FilesWellFormed, PkgInv, Texts
  <1>2. Collected(Len(lines))
    BY DEF PkgInv, ReadSoFar
  <1>3. MeantUpTo("-", Len(lines)) = Meant("-")
    BY <1>1, AllLines
  <1>4. ASSUME NEW w \in WordsOf(remove) PROVE w \in Meant("-")
    <2>1. PICK c \in Names : w = <<c>>
      BY KnownAssumption
    <2>2. c \in Range(remove) /\ c # "sp"
      <3>1. w[1] = c
        BY <2>1
      <3> QED BY <1>1, <3>1, WordChars
    <2> QED BY <1>2, <1>3, <2>1, <2>2 DEF Collected
  <1> QED BY <1>4

LEMMA HostStep ==
    ASSUME FilesWellFormed, PkgInv, [Next]_vars
    PROVE  Host'
  <1>0. /\ ran \in Seq(Commands) /\ Len(ran) \in Nat
        /\ install \in Seq(Chars) /\ remove \in Seq(Chars)
    BY LenProperties DEF PkgInv, Host, Texts
  <1>1. CASE Vanish \/ IsFile \/ Open \/ EndOfFile \/ UNCHANGED vars
    <2>1. UNCHANGED <<lines, install, remove, ran, installed>>
      BY <1>1 DEF Vanish, IsFile, Open, EndOfFile, vars
    <2>2. \/ phase' = phase
          \/ /\ phase \in {"isfile", "open", "read"}
             /\ phase' \in {"isfile", "open", "spin", "read", "install"}
      BY <1>1 DEF Vanish, IsFile, Open, EndOfFile, vars
    <2>3. Meant("-")' = Meant("-")
      BY <2>1, FileStays
    <2> QED BY <2>1, <2>2, <2>3 DEF PkgInv, Host, AllOk
  <1>2. CASE ReadLine
    <2>1. lines' = lines /\ phase = "read" /\ phase' = "read" /\ ran' = ran /\ installed' = installed
      BY <1>2 DEF ReadLine
    <2>2. ran' = <<>> /\ installed' = Initially
      BY <2>1 DEF PkgInv, Host
    <2>3. ran' \in Seq(Commands) /\ Len(ran') = 0
      BY <2>2
    <2>4. \A i \in 1..Len(ran') : FALSE
      BY <2>3
    <2> QED BY <2>1, <2>2, <2>3, <2>4 DEF Host
  <1>3. CASE Install
    <2>1. /\ UNCHANGED <<lines, install, remove>>
          /\ phase = "install" /\ phase' = "remove" /\ ran = <<>> /\ installed = Initially
          /\ Len(ran) = 0
      BY <1>3 DEF Install, PkgInv, Host
    <2>2. CASE install = <<>> /\ Skip
      <3>1. ran' = <<>> /\ installed' = Initially /\ WordsOf(install) = {}
        BY <2>1, <2>2, NoWords DEF Skip
      <3>2. ran' \in Seq(Commands) /\ Len(ran') = 0
        BY <3>1
      <3>3. \A i \in 1..Len(ran') : FALSE
        BY <3>2
      <3> QED BY <2>1, <3>1, <3>2, <3>3 DEF Host
    <2>3. CASE install # <<>> /\ PackageManager("install", WordsOf(install), installed \cup WordsOf(install))
      <3>1. PICK b \in {TRUE, FALSE} :
              /\ ran' = Append(ran, [op |-> "install", words |-> WordsOf(install), ok |-> b])
              /\ installed' = IF b = TRUE THEN installed \cup WordsOf(install) ELSE installed
        BY <2>3 DEF PackageManager
      <3> DEFINE r == [op |-> "install", words |-> WordsOf(install), ok |-> b]
      <3>2. r \in Commands /\ r.op = "install" /\ r.words = WordsOf(install) /\ r.ok = b
        <4>1. WordsOf(install) \in SUBSET Seq(Chars)
          BY <1>0, WordChars
        <4> QED BY Zenon, <4>1 DEF Commands
      <3> HIDE DEF r
      <3>3. ran' \in Seq(Commands) /\ Len(ran') = 1 /\ ran'[1] = r
        <4>1. ran' = Append(ran, r)
          BY <3>1 DEF r
        <4> QED BY <1>0, <2>1, <3>2, <4>1, AppendProperties
      <3>4. \A i \in 1..Len(ran') : i = 1
        BY <3>3
      <3>5. AllOk' => b = TRUE
        BY <3>2, <3>3 DEF AllOk
      <3>6. \A i \in 1..Len(ran') :
              ran'[i].op = "install" => install' # <<>> /\ ran'[i].words = WordsOf(install')
        BY <2>1, <2>3, <3>2, <3>3, <3>4
      <3>7. Initially \subseteq installed'
        BY <2>1, <3>1
      <3> QED BY <2>1, <3>1, <3>3, <3>5, <3>6, <3>7 DEF Host
    <2> QED BY <1>3, <2>2, <2>3 DEF Install
  <1>4. CASE Remove
    <2>1. /\ UNCHANGED <<lines, install, remove>> /\ Meant("-")' = Meant("-")
          /\ phase = "remove" /\ phase' = "done"
      BY <1>4, FileStays DEF Remove
    <2>2. /\ \A i \in 1..Len(ran) :
                ran[i].op = "install" => install # <<>> /\ ran[i].words = WordsOf(install)
          /\ AllOk => installed = Initially \cup WordsOf(install)
          /\ Initially \ Meant("-") \subseteq installed
      BY <2>1 DEF PkgInv, Host
    <2>3. CASE remove = <<>> /\ Skip
      <3>1. ran' = ran /\ installed' = installed /\ WordsOf(remove) = {}
        BY <2>3, NoWords DEF Skip
      <3> QED BY <1>0, <2>1, <2>2, <3>1 DEF Host, AllOk
    <2>4. CASE remove # <<>> /\ PackageManager("remove", WordsOf(remove), installed \ WordsOf(remove))
      <3>1. PICK b \in {TRUE, FALSE} :
              /\ b = TRUE => WordsOf(remove) \subseteq Known
              /\ ran' = Append(ran, [op |-> "remove", words |-> WordsOf(remove), ok |-> b])
              /\ installed' = IF b = TRUE THEN installed \ WordsOf(remove) ELSE installed
        BY <2>4 DEF PackageManager
      <3> DEFINE r == [op |-> "remove", words |-> WordsOf(remove), ok |-> b]
      <3>2. r \in Commands /\ r.op = "remove" /\ r.ok = b
        <4>1. WordsOf(remove) \in SUBSET Seq(Chars)
          BY <1>0, WordChars
        <4> QED BY Zenon, <4>1 DEF Commands
      <3> HIDE DEF r
      <3> DEFINE n == Len(ran)
      <3>3. /\ ran' \in Seq(Commands) /\ Len(ran') = n + 1 /\ ran'[n + 1] = r
            /\ \A i \in 1..n : ran'[i] = ran[i]
        <4>1. ran' = Append(ran, r)
          BY <3>1 DEF r
        <4> QED BY <1>0, <3>2, <4>1, AppendProperties
      <3>4. \A i \in 1..(n + 1) : i \in 1..n \/ i = n + 1
        BY <1>0
      <3>5. n + 1 \in 1..(n + 1) /\ \A i \in 1..n : i \in 1..(n + 1)
        BY <1>0
      <3> HIDE DEF n
      <3>6. AllOk' => b = TRUE /\ AllOk
        BY <3>2, <3>3, <3>5 DEF AllOk, n
      <3>7. \A i \in 1..Len(ran') :
              ran'[i].op = "install" => install' # <<>> /\ ran'[i].words = WordsOf(install')
        BY <2>1, <2>2, <3>2, <3>3, <3>4 DEF n
      <3>8. b = TRUE => WordsOf(remove) \subseteq Meant("-")
        BY <2>1, <2>4, <3>1, OnlyMeantRemoved
      <3>9. Initially \ Meant("-") \subseteq installed'
        BY <2>2, <3>1, <3>8
      <3>10. AllOk' => installed' = (Initially \cup WordsOf(install)) \ WordsOf(remove)
        BY <2>2, <3>1, <3>6
      <3> QED BY <2>1, <3>3, <3>7, <3>9, <3>10 DEF Host
    <2> QED BY <1>4, <2>3, <2>4 DEF Remove
  <1> QED BY <1>1, <1>2, <1>3, <1>4 DEF Next, Command

LEMMA Initial == ASSUME Init, FilesWellFormed PROVE PkgInv
  <1>1. /\ install = <<>> /\ remove = <<>> /\ phase = "isfile" /\ ran = <<>>
        /\ installed = Initially /\ lines \in Files /\ Len(ran) = 0
    BY DEF Init
  <1>2. \A i \in 1..Len(ran) : FALSE
    BY <1>1
  <1>3. <<>> \in Seq(Chars) /\ <<>> \in Seq(Commands)
    OBVIOUS
  <1>4. Texts
    BY <1>1, <1>3 DEF Texts
  <1>5. ReadSoFar
    BY <1>1 DEF ReadSoFar
  <1>6. Host
    BY <1>1, <1>2, <1>3 DEF Host
  <1> QED BY <1>1, <1>4, <1>5, <1>6 DEF PkgInv

-----------------------------------------------------------------------------
(***************************************************************************)
(* The theorems.                                                           *)
(***************************************************************************)
LEMMA Invariant == FilesWellFormed => (Spec => []PkgInv)
  <1> SUFFICES ASSUME FilesWellFormed PROVE Spec => []PkgInv
    OBVIOUS
  <1>1. Init => PkgInv
    BY Initial
  <1>2. PkgInv /\ [Next]_vars => PkgInv'
    BY ReadStep, HostStep DEF PkgInv
  <1> QED BY <1>1, <1>2, PTL DEF Spec

\* Whatever well-formed list the file holds, the package manager is told to
\* install the names on its "+" lines and nothing else (command.cpp:117-121).
THEOREM MeantIsInstalled == FilesWellFormed => (Spec => []InstallsWhatIsMeant)
  <1> SUFFICES ASSUME FilesWellFormed PROVE Spec => []InstallsWhatIsMeant
    OBVIOUS
  <1>1. PkgInv => InstallsWhatIsMeant
    <2> SUFFICES ASSUME PkgInv, NEW i \in Ran("install") PROVE ran[i].words = Meant("+")
      BY DEF InstallsWhatIsMeant
    <2>1. i \in 1..Len(ran) /\ ran[i].words = WordsOf(install) /\ install # <<>>
      BY DEF Ran, PkgInv, Host
    <2>2. phase \in {"remove", "done"}
      <3>1. ran # <<>>
        BY <2>1
      <3> QED BY <3>1 DEF PkgInv, Host
    <2>3. Collected(Len(lines))
      BY <2>1, <2>2 DEF PkgInv, ReadSoFar
    <2>4. lines \in Seq(Seq(Chars))
      BY DEF FilesWellFormed, PkgInv, Texts
    <2> QED BY <2>1, <2>3, <2>4, AllLines DEF Collected
  <1> QED BY <1>1, Invariant, PTL

\* Whatever the list, what is on a "+" and on the only "-" line ends up removed,
\* and what is on "+" lines alone installed (command.cpp:145-161).
THEOREM RemovedAtTheEnd == FilesWellFormed => (Spec => []RemovalWins)
  <1> SUFFICES ASSUME FilesWellFormed PROVE Spec => []RemovalWins
    OBVIOUS
  <1>1. PkgInv => RemovalWins
    <2> SUFFICES ASSUME PkgInv, AllRanWell, present, Cardinality(LinesWith("-")) <= 1
                 PROVE  /\ Meant("-") \cap installed = {}
                        /\ Meant("+") \ Meant("-") \subseteq installed
      BY DEF RemovalWins
    <2>1. phase = "done" /\ AllOk
      BY DEF AllRanWell, AllOk
    <2>2. Collected(Len(lines))
      BY <2>1 DEF PkgInv, ReadSoFar
    <2>3. lines \in Seq(Seq(Chars)) /\ Len(lines) \in Nat
      <3>1. lines \in Seq(Seq(Chars))
        BY DEF FilesWellFormed, PkgInv, Texts
      <3> QED BY <3>1, LenProperties
    <2>4. installed = (Initially \cup WordsOf(install)) \ WordsOf(remove)
      BY <2>1 DEF PkgInv, Host
    <2>5. WordsOf(install) = Meant("+") /\ LinesUpTo("-", Len(lines)) = LinesWith("-")
      BY <2>2, <2>3, AllLines DEF Collected
    <2>6. WordsOf(remove) = Meant("-")
      <3>1. CASE LinesWith("-") = {}
        <4>1. remove = <<>> /\ Meant("-") = {}
          BY <2>2, <2>5, <3>1 DEF Collected, Meant
        <4> QED BY <4>1, NoWords
      <3>2. CASE LinesWith("-") # {}
        <4>1. PICK n \in LinesWith("-") : TRUE
          BY <3>2
        <4>2. ASSUME NEW m \in LinesWith("-") PROVE m = n
          <5> SUFFICES ASSUME m # n PROVE FALSE
            OBVIOUS
          <5>1. IsFiniteSet(LinesWith("-")) /\ {n, m} \subseteq LinesWith("-")
            <6>1. IsFiniteSet(1..Len(lines)) /\ LinesWith("-") \subseteq 1..Len(lines)
              BY <2>3, FS_Interval DEF LinesWith
            <6> QED BY <6>1, FS_Subset
          <5>2. IsFiniteSet({n}) /\ Cardinality({n}) = 1
            BY FS_Singleton
          <5>3. {n, m} = {n} \cup {m} /\ m \notin {n}
            OBVIOUS
          <5>4. Cardinality({n, m}) = 1 + 1
            BY <5>2, <5>3, FS_AddElement
          <5>5. Cardinality({n, m}) <= Cardinality(LinesWith("-")) /\ Cardinality(LinesWith("-")) \in Nat
            BY <5>1, FS_Subset, FS_CardinalityType
          <5> QED BY <5>4, <5>5
        <4>3. LinesWith("-") = {n}
          BY <4>2
        <4>4. WordsOf(remove) = NamesIn(lines[n])
          BY <2>2, <2>5, <4>3 DEF Collected
        <4>5. Meant("-") = NamesIn(lines[n])
          BY <4>3 DEF Meant
        <4> QED BY <4>4, <4>5
      <3> QED BY <3>1, <3>2
    <2> QED BY <2>4, <2>5, <2>6
  <1> QED BY <1>1, Invariant, PTL

\* However many "-" lines there are, and though the second spoils the command,
\* no package is removed that none of them names.
THEOREM OthersAreKept == FilesWellFormed => (Spec => []OthersStayInstalled)
  <1> SUFFICES ASSUME FilesWellFormed PROVE Spec => []OthersStayInstalled
    OBVIOUS
  <1>1. PkgInv => OthersStayInstalled
    BY DEF PkgInv, Host, OthersStayInstalled
  <1> QED BY <1>1, Invariant, PTL

-----------------------------------------------------------------------------
(***************************************************************************)
(* The command ends. The hypothesis is only that the file has lines.       *)
(***************************************************************************)
FilesHaveLines == \A file \in Files : file \in Seq(Seq(Chars))

\* How far the command is: the statement, and for the loop the lines left.
Stage == [isfile |-> 5, open |-> 4, read |-> 3, install |-> 2, remove |-> 1,
          done |-> 0, spin |-> 0]
Advances ==
    \/ Stage[phase'] < Stage[phase]
    \/ phase = "read" /\ phase' = phase /\ Len(rest') < Len(rest)

EndInv ==
    /\ phase \in DOMAIN Stage /\ lines \in Seq(Seq(Chars)) /\ rest \in Seq(Seq(Chars))
    /\ phase = "spin" \/ (phase = "open" /\ ~present) => vanished

LEMMA EndNext == EndInv /\ [Next]_vars => EndInv'
  <1> SUFFICES ASSUME EndInv, [Next]_vars PROVE EndInv'
    OBVIOUS
  <1> USE DEF EndInv, Stage
  <1>1. CASE ReadLine
    <2>1. rest' \in Seq(Seq(Chars))
      BY <1>1, HeadTailProperties DEF ReadLine
    <2> QED BY <1>1, <2>1 DEF ReadLine
  <1>2. CASE Vanish \/ IsFile \/ Open \/ EndOfFile
    BY <1>2 DEF Vanish, IsFile, Open, EndOfFile
  <1>3. CASE Install \/ Remove
    BY <1>3 DEF Install, Remove
  <1>4. CASE UNCHANGED vars
    BY <1>4 DEF vars
  <1> QED BY <1>1, <1>2, <1>3, <1>4 DEF Next, Command

LEMMA CommandAdvances == EndInv /\ Command => Advances
  <1> SUFFICES ASSUME EndInv, Command PROVE Advances
    OBVIOUS
  <1>1. CASE ReadLine
    <2>1. Len(rest') = Len(rest) - 1 /\ Len(rest) \in Nat /\ phase = "read" /\ phase' = phase
      BY <1>1, HeadTailProperties, LenProperties DEF ReadLine, EndInv
    <2> QED BY <2>1 DEF Advances
  <1>2. CASE IsFile \/ Open \/ EndOfFile \/ Install \/ Remove
    BY <1>2 DEF IsFile, Open, EndOfFile, Install, Remove, Advances, Stage
  <1> QED BY <1>1, <1>2 DEF Command

\* Every statement of the command passes to a later one or reads one of the lines
\* that are left, whatever the package manager answers, and nobody takes that back;
\* so it takes finitely many steps, and comes to read_pkg_list's loop that does not
\* end (command.cpp:94-102) only if the file was removed between isfile() and the
\* stream.
THEOREM CommandComesToAnEnd ==
    FilesHaveLines => (Spec =>
        /\ [](phase = "spin" => vanished)
        /\ []((Len(rest) \in Nat) /\ phase \in DOMAIN Stage)
        /\ [][IF Command THEN Advances ELSE UNCHANGED <<phase, rest>>]_vars)
  <1> SUFFICES ASSUME FilesHaveLines
               PROVE  Spec => /\ [](phase = "spin" => vanished)
                              /\ []((Len(rest) \in Nat) /\ phase \in DOMAIN Stage)
                              /\ [][IF Command THEN Advances ELSE UNCHANGED <<phase, rest>>]_vars
    OBVIOUS
  <1>1. Init => EndInv
    BY DEF Init, EndInv, Stage, FilesHaveLines
  <1>2. EndInv => (phase = "spin" => vanished) /\ Len(rest) \in Nat /\ phase \in DOMAIN Stage
    BY LenProperties DEF EndInv
  <1>3. EndInv /\ [Next]_vars => [IF Command THEN Advances ELSE UNCHANGED <<phase, rest>>]_vars
    BY CommandAdvances DEF Next, Vanish
  <1> QED BY <1>1, <1>2, <1>3, EndNext, PTL DEF Spec
=============================================================================
