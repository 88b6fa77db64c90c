-------------------------- MODULE ControllerProofs --------------------------
(***************************************************************************)
(* Proofs about Controller: for any configuration files, devices and       *)
(* networks, any number of changes of them while lasync runs, and any      *)
(* lengths of the destination list and the directory.                      *)
(***************************************************************************)
EXTENDS Controller, TLAPS, SequenceTheorems

-----------------------------------------------------------------------------
(***************************************************************************)
(* The message, for strings of any length, any receive buffer larger than  *)
(* the header and any heap behind it.                                      *)
(***************************************************************************)
\* strlen finds the first NUL and nothing else.
LEMMA StrLenOfText ==
    ASSUME NEW s \in Seq(Char), NEW h \in Seq(Byte)
    PROVE  LET m == (s \o <<NUL>>) \o h IN Terminated(m) /\ StrLen(m) = Len(s)
  <1> DEFINE m == (s \o <<NUL>>) \o h
  <1>1. s \in Seq(Byte) /\ <<NUL>> \in Seq(Byte) /\ Len(s) \in Nat
    BY DEF Byte
  <1>2. s \o <<NUL>> \in Seq(Byte) /\ Len(s \o <<NUL>>) = Len(s) + 1
        /\ \A i \in 1..Len(s) + 1 :
              (s \o <<NUL>>)[i] = IF i <= Len(s) THEN s[i] ELSE NUL
    BY <1>1
  <1>3. Len(m) >= Len(s) + 1 /\ Len(m) \in Nat
        /\ \A i \in 1..Len(s) + 1 : m[i] = IF i <= Len(s) THEN s[i] ELSE NUL
    BY <1>1, <1>2, ConcatProperties
  <1>4. \A i \in 1..Len(s) : s[i] # NUL
    BY ElementOfSeq, WireAssumption
  <1> HIDE DEF m
  <1>5. EndsAt(m, Len(s) + 1)
    BY <1>1, <1>3, <1>4 DEF EndsAt
  <1>6. \A n \in 1..Len(m) : EndsAt(m, n) => n = Len(s) + 1
    BY <1>1, <1>3, <1>4 DEF EndsAt
  <1>7. Len(s) + 1 \in 1..Len(m)
    BY <1>1, <1>3
  <1>8. TextEnd(m) = Len(s) + 1
    BY <1>5, <1>6, <1>7 DEF TextEnd
  <1>9. Terminated(m)
    BY <1>5, <1>7 DEF Terminated
  <1>10. StrLen(m) = Len(s)
    BY <1>1, <1>8 DEF StrLen
  <1> QED BY <1>9, <1>10 DEF m

\* The two strings can be cut out of a longer sequence again.
LEMMA CutText ==
    ASSUME NEW S, NEW d \in Seq(S), NEW s \in Seq(S), NEW r \in Seq(S)
    PROVE  LET m == (d \o s) \o r
           IN  /\ SubSeq(m, 1, Len(d)) = d
               /\ SubSeq(m, Len(d) + 1, Len(d) + Len(s)) = s
  <1> DEFINE m == (d \o s) \o r
  <1>1. d \o s \in Seq(S) /\ m \in Seq(S)
    BY ConcatProperties
  <1>2. Len(d) \in Nat /\ Len(s) \in Nat /\ Len(m) = Len(d) + Len(s) + Len(r) /\ Len(r) \in Nat
    BY <1>1, ConcatProperties, LenProperties
  <1>3. \A i \in 1..Len(d) + Len(s) : m[i] = (d \o s)[i]
    BY <1>1, <1>2, ConcatProperties
  <1>4. \A i \in 1..Len(d) + Len(s) : m[i] = IF i <= Len(d) THEN d[i] ELSE s[i - Len(d)]
    BY <1>2, <1>3, ConcatProperties
  <1> HIDE DEF m
  <1>5. SubSeq(m, 1, Len(d)) = d
    <2>1. \A i \in 1..Len(d) : m[i] \in S
      BY <1>1, <1>2, ElementOfSeq
    <2>2. /\ SubSeq(m, 1, Len(d)) \in Seq(S)
          /\ Len(SubSeq(m, 1, Len(d))) = Len(d)
          /\ \A i \in 1..Len(d) : SubSeq(m, 1, Len(d))[i] = m[i]
      BY <1>2, <2>1, SubSeqProperties
    <2> QED BY <1>2, <1>4, <2>2, SeqEqual
  <1>6. SubSeq(m, Len(d) + 1, Len(d) + Len(s)) = s
    BY <1>1, <1>2, <1>4
  <1> QED BY <1>5, <1>6 DEF m

-----------------------------------------------------------------------------
(***************************************************************************)
(* The inductive invariant: what is on the wire, and what lies in the      *)
(* daemon's memory, in terms of what the user asked for.                   *)
(***************************************************************************)
Text == (dest \o dir) \o <<NUL>>
Sent == [selfLen |-> MsgLen(dest, dir), hostListLen |-> Len(dest), tag |-> Text]
Kept == SubSeq(Text, 1, KeptBytes(HdrLen + Len(Text)) - HdrLen)

Layout ==
    /\ dest \in Seq(Char) /\ dir \in Seq(Char)
    /\ phase # "idle" => pkt = Sent
    /\ phase \in {"received", "extracted", "crashed"} =>
          \E heap \in Heaps : mem = Kept \o heap

\* The text behind the header, with its length.
LEMMA TextType ==
    ASSUME Layout
    PROVE  /\ Len(dest) \in Nat /\ Len(dir) \in Nat
           /\ dest \in Seq(Byte) /\ dir \in Seq(Byte) /\ <<NUL>> \in Seq(Byte)
           /\ dest \o dir \in Seq(Char) /\ dest \o dir \in Seq(Byte)
           /\ Len(dest \o dir) = Len(dest) + Len(dir)
           /\ Text \in Seq(Byte) /\ Len(Text) = Len(dest) + Len(dir) + 1
           /\ Len(Text) \in Nat
  <1>1. /\ dest \in Seq(Byte) /\ dir \in Seq(Byte) /\ <<NUL>> \in Seq(Byte)
        /\ Len(<<NUL>>) = 1
    BY DEF Layout, Byte
  <1>2. Len(dest) \in Nat /\ Len(dir) \in Nat
    BY <1>1, LenProperties
  <1>3. dest \o dir \in Seq(Char) /\ dest \o dir \in Seq(Byte)
        /\ Len(dest \o dir) = Len(dest) + Len(dir)
    BY <1>1, ConcatProperties DEF Layout
  <1>4. Text \in Seq(Byte) /\ Len(Text) = Len(dest) + Len(dir) + 1
    BY <1>1, <1>3, ConcatProperties DEF Text
  <1> QED BY <1>1, <1>2, <1>3, <1>4

\* A datagram that fits is kept whole.
LEMMA FitsIsKept ==
    ASSUME Layout, Fits
    PROVE  Kept = Text
  <1>1. KeptBytes(HdrLen + Len(Text)) - HdrLen = Len(Text)
    BY TextType, WireAssumption DEF Fits, KeptBytes
  <1> QED BY <1>1, TextType, SubSeqFull DEF Kept

LEMMA LayoutInit == Init => Layout
  BY WireAssumption DEF Init, Layout

LEMMA LayoutNext == Layout /\ [Next]_vars => Layout'
  <1> SUFFICES ASSUME Layout, [Next]_vars PROVE Layout'
    OBVIOUS
  <1>1. CASE Build BY <1>1 DEF Build, Layout, Sent, Text
  <1>2. CASE Send
    <2>1. pkt = Sent
      BY <1>2 DEF Send, Layout
    <2>2. Sent.selfLen - HdrLen = Len(Text) /\ Sent.tag = Text
      BY TextType, WireAssumption DEF Sent, MsgLen
    <2>3. SubSeq(Text, 1, Len(Text)) = Text
      BY TextType, SubSeqFull
    <2>4. pkt' = [Sent EXCEPT !.tag = Text]
      BY <1>2, <2>1, <2>2, <2>3 DEF Send
    <2>5. pkt' = Sent
      BY <2>4 DEF Sent
    <2> QED BY <1>2, <2>5 DEF Send, Layout, Sent, Text
  <1>3. CASE Receive
    <2>1. pkt = Sent
      BY <1>3 DEF Receive, Layout
    <2>2. pkt.tag = Text
      BY <2>1 DEF Sent
    <2>3. \E heap \in Heaps : mem' = Kept \o heap
      BY <1>3, <2>2 DEF Receive, Kept
    <2> QED BY <1>3, <2>1, <2>3 DEF Receive, Layout, Sent, Text, Kept
  <1>4. CASE Extract BY <1>4 DEF Extract, Layout, Sent, Text, Kept
  <1>5. CASE Crash BY <1>5 DEF Crash, Layout, Sent, Text, Kept
  <1>6. CASE UNCHANGED vars BY <1>6 DEF vars, Layout, Sent, Text, Kept
  <1> QED BY <1>1, <1>2, <1>3, <1>4, <1>5, <1>6 DEF Next

\* What extract_msg computes from a datagram that fits.
LEMMA FittingRead ==
    ASSUME Layout, Fits, phase = "received"
    PROVE  /\ Readable
           /\ SubSeq(mem, 1, pkt.hostListLen) = dest
           /\ SyncDirLen(mem, pkt.hostListLen) = Len(dir)
           /\ SubSeq(mem, Len(dest) + 1, Len(dest) + Len(dir)) = dir
           /\ pkt.hostListLen = Len(dest)
  <1>1. PICK heap \in Heaps : mem = Text \o heap
    BY FitsIsKept DEF Layout
  <1>2. heap \in Seq(Byte) /\ Len(heap) \in Nat
    BY WireAssumption, LenProperties
  <1>3. Terminated(mem) /\ StrLen(mem) = Len(dest) + Len(dir)
    BY <1>1, <1>2, TextType, StrLenOfText DEF Text
  <1>4. pkt.hostListLen = Len(dest)
    BY DEF Layout, Sent
  <1>5. SyncDirLen(mem, pkt.hostListLen) = Len(dir)
    <2>1. (Len(dest) + Len(dir)) - Len(dest) = Len(dir)
      BY TextType
    <2> QED BY <1>3, <1>4, <2>1 DEF SyncDirLen
  <1>6. Len(mem) = Len(dest) + Len(dir) + 1 + Len(heap)
    <2>1. Len(mem) = Len(Text) + Len(heap)
      BY <1>1, <1>2, TextType, ConcatProperties
    <2> QED BY <2>1, TextType
  <1>7. Readable
    BY <1>2, <1>3, <1>4, <1>5, <1>6, TextType DEF Readable
  <1>8. mem = (dest \o dir) \o (<<NUL>> \o heap) /\ <<NUL>> \o heap \in Seq(Byte)
    BY <1>1, <1>2, TextType, ConcatAssociative, ConcatProperties DEF Text
  <1>9. /\ SubSeq(mem, 1, Len(dest)) = dest
        /\ SubSeq(mem, Len(dest) + 1, Len(dest) + Len(dir)) = dir
    BY <1>8, TextType, CutText
  <1> QED BY <1>4, <1>5, <1>7, <1>9

LEMMA RoundTripNext == Layout /\ RoundTrip /\ [Next]_vars => RoundTrip'
  <1> SUFFICES ASSUME Layout, RoundTrip, [Next]_vars, Fits'
               PROVE  /\ phase' # "crashed"
                      /\ phase' = "extracted" => got' = [dest |-> dest', dir |-> dir']
    BY DEF RoundTrip
  <1>0. dest' = dest /\ dir' = dir /\ Fits
    BY DEF Next, Build, Send, Receive, Extract, Crash, vars, Fits
  <1>1. CASE Extract
    <2>1. got' = [dest |-> dest, dir |-> dir]
      BY <1>0, <1>1, FittingRead DEF Extract
    <2> QED BY <1>0, <1>1, <2>1 DEF Extract
  <1>2. CASE Crash
    BY <1>0, <1>2, FittingRead DEF Crash
  <1>3. CASE Build \/ Send \/ Receive
    BY <1>3 DEF Build, Send, Receive
  <1>4. CASE UNCHANGED vars
    BY <1>0, <1>4 DEF vars, RoundTrip
  <1> QED BY <1>1, <1>2, <1>3, <1>4 DEF Next

\* Every request that fits the receive buffer is read as it was written, and
\* the daemon survives it, for strings of any length and any heap content.
THEOREM FittingRequestsRoundTrip == Spec => []RoundTrip
  <1>1. Init => RoundTrip
    BY DEF Init, RoundTrip
  <1> QED BY <1>1, LayoutInit, LayoutNext, RoundTripNext, PTL DEF Spec

-----------------------------------------------------------------------------
(* The destination list alone, when the directory behind it was cut off.   *)

LEMMA ListIsKept ==
    ASSUME Layout, HdrLen + Len(dest) <= BufLen, phase = "received"
    PROVE  SubSeq(mem, 1, pkt.hostListLen) = dest
  <1> DEFINE k == KeptBytes(HdrLen + Len(Text)) - HdrLen
  <1>1. PICK heap \in Heaps : mem = SubSeq(Text, 1, k) \o heap
    BY DEF Layout, Kept
  <1>2. k \in Nat /\ Len(dest) <= k /\ k <= Len(Text)
    BY TextType, WireAssumption DEF KeptBytes
  <1>3. pkt.hostListLen = Len(dest)
    BY DEF Layout, Sent
  <1> HIDE DEF k
  <1>4. heap \in Seq(Byte) /\ Len(heap) \in Nat
    BY WireAssumption, LenProperties
  <1>5. \A i \in 1..k : Text[i] \in Byte
    BY <1>2, TextType, ElementOfSeq
  <1>6. /\ SubSeq(Text, 1, k) \in Seq(Byte)
        /\ Len(SubSeq(Text, 1, k)) = k
        /\ \A i \in 1..k : SubSeq(Text, 1, k)[i] = Text[i]
    BY <1>2, <1>5, SubSeqProperties
  <1>7. \A i \in 1..Len(dest) : Text[i] = dest[i]
    <2>1. \A i \in 1..Len(dest) : Text[i] = (dest \o dir)[i]
      BY TextType, ConcatProperties DEF Text
    <2> QED BY <2>1, TextType, ConcatProperties
  <1>8. mem \in Seq(Byte) /\ Len(mem) = k + Len(heap)
        /\ \A i \in 1..k : mem[i] = SubSeq(Text, 1, k)[i]
    BY <1>1, <1>2, <1>4, <1>6, ConcatProperties
  <1>9. \A i \in 1..Len(dest) : mem[i] = dest[i] /\ mem[i] \in Byte
    BY <1>2, <1>4, <1>6, <1>7, <1>8, TextType, ElementOfSeq
  <1>10. /\ SubSeq(mem, 1, Len(dest)) \in Seq(Byte)
         /\ Len(SubSeq(mem, 1, Len(dest))) = Len(dest)
         /\ \A i \in 1..Len(dest) : SubSeq(mem, 1, Len(dest))[i] = mem[i]
    BY <1>9, TextType, SubSeqProperties
  <1>11. SubSeq(mem, 1, Len(dest)) = dest
    BY <1>9, <1>10, TextType, SeqEqual
  <1> QED BY <1>3, <1>11

\* A destination list that fits is read as it was written even when the
\* directory does not fit, so that the choice of hosts is never wrong.
THEOREM FittingListsSurvive == Spec => []ListSurvives
  <1>1. Init => ListSurvives
    BY DEF Init, ListSurvives
  <1>2. Layout /\ ListSurvives /\ [Next]_vars => ListSurvives'
    <2> SUFFICES ASSUME Layout, ListSurvives, [Next]_vars,
                        HdrLen + Len(dest') <= BufLen, phase' = "extracted"
                 PROVE  got'.dest = dest'
      BY DEF ListSurvives
    <2>0. dest' = dest
      BY DEF Next, Build, Send, Receive, Extract, Crash, vars
    <2>1. CASE Extract
      BY <2>0, <2>1, ListIsKept DEF Extract
    <2>2. CASE Build \/ Send \/ Receive \/ Crash
      BY <2>2 DEF Build, Send, Receive, Crash
    <2>3. CASE UNCHANGED vars
      BY <2>0, <2>3 DEF vars, ListSurvives
    <2> QED BY <2>1, <2>2, <2>3 DEF Next
  <1> QED BY <1>1, <1>2, LayoutInit, LayoutNext, PTL DEF Spec

-----------------------------------------------------------------------------
(***************************************************************************)
(* The controller's message. Behind its own steps, what happens to the     *)
(* request is what is proved above of any request.                         *)
(***************************************************************************)
LEMMA StepOfMessage == [CtlNext]_allVars => [Next]_vars
  <1> SUFFICES ASSUME [CtlNext]_allVars PROVE [Next]_vars
    OBVIOUS
  <1>1. CASE RemoveConf \/ NicChange
    BY <1>1 DEF RemoveConf, NicChange
  <1>2. CASE \/ IsFile \/ OpenGone \/ ReadConf \/ RealPath
             \/ NoSocket \/ GetIp \/ GetBroadcast \/ SendFails
    BY <1>2, Zenon DEF IsFile, OpenGone, ReadConf, RealPath, NoSocket, GetIp, GetBroadcast, SendFails
  <1>3. CASE BuildMsg \/ SendMsg
    BY <1>3, Zenon DEF BuildMsg, SendMsg, Next
  <1>4. CASE (Receive \/ Extract \/ Crash) /\ UNCHANGED ctlVars
    BY <1>4 DEF Next
  <1>5. CASE UNCHANGED allVars
    BY <1>5 DEF allVars
  <1> QED BY <1>1, <1>2, <1>3, <1>4, <1>5 DEF CtlNext, Lasync

\* A run of lasync and the daemon that gets its datagram is a run of WireFormat,
\* whenever the configuration or the network changes or lasync ends early.
THEOREM RunSendsAMessage == CtlSpec => Spec
  <1>1. CtlInit => Init
    BY DEF CtlInit
  <1> QED BY <1>1, StepOfMessage, PTL DEF CtlSpec, Spec

\* So a request that lasync builds from its configuration arrives as it was
\* meant, if it fits the daemon's buffer.
THEOREM BuiltRequestsRoundTrip == CtlSpec => []RoundTrip
  BY RunSendsAMessage, FittingRequestsRoundTrip, PTL

\* And its destination list does, if that fits.
THEOREM BuiltListsSurvive == CtlSpec => []ListSurvives
  BY RunSendsAMessage, FittingListsSurvive, PTL

-----------------------------------------------------------------------------
(***************************************************************************)
(* The addresses. From ioctl to ioctl, to the message and the datagram:    *)
(* unless the device changed in between, the two strings are equal, and    *)
(* what is sent is made of them.                                           *)
(***************************************************************************)
AddressInv ==
    /\ step \in {"isfile", "open", "realpath", "ip"} => ip = "" /\ broadcast = ""
    /\ step = "broadcast" /\ ~raced => ip = AddressOf(device)
    /\ step = "build" /\ ~raced => ip = broadcast
    /\ step \in {"send", "done"} /\ ~raced => broadcast = "" \/ src = broadcast
    /\ target = (IF step = "done" THEN Target(broadcast) ELSE "")

LEMMA TargetIsSource ==
    AddressInv => SourceMatchesTarget
  <1> SUFFICES ASSUME AddressInv, target \in Networks, ~raced PROVE src = target
    BY DEF SourceMatchesTarget
  <1>1. target \notin {"", "none", "0.0.0.0", "everyone", "self"}
    BY ControllerAssumption
  <1>2. step = "done" /\ target = Target(broadcast)
    BY <1>1 DEF AddressInv
  <1>3. broadcast # "" /\ broadcast # "0.0.0.0"
    BY <1>1, <1>2, Zenon DEF Target
  <1>4. target = broadcast
    BY <1>2, <1>3, Zenon DEF Target
  <1> QED BY <1>2, <1>3, <1>4 DEF AddressInv

LEMMA AddressInit == CtlInit => AddressInv
  BY DEF CtlInit, AddressInv

LEMMA AddressNext == AddressInv /\ [CtlNext]_allVars => AddressInv'
  <1> SUFFICES ASSUME AddressInv, [CtlNext]_allVars PROVE AddressInv'
    OBVIOUS
  <1> USE DEF AddressInv, config, locals
  <1>1. CASE RemoveConf
    BY <1>1 DEF RemoveConf, Change, AddressOf
  <1>2. CASE NicChange
    <2>1. UNCHANGED <<step, ip, broadcast, device, src, target>> /\ (raced' <=> raced \/ step = "broadcast")
      BY <1>2, Zenon DEF NicChange, locals
    <2> QED BY <2>1
  <1>3. CASE IsFile \/ OpenGone
    BY <1>3 DEF IsFile, OpenGone
  <1>4. CASE ReadConf
    <2>1. step = "open" /\ step' \in {"realpath", "aborted"} /\ UNCHANGED <<ip, broadcast, target>>
      BY <1>4, Zenon DEF ReadConf
    <2> QED BY <2>1
  <1>5. CASE RealPath \/ NoSocket
    BY <1>5 DEF RealPath, NoSocket
  <1>6. CASE GetIp
    BY <1>6 DEF GetIp, AddressOf
  <1>7. CASE GetBroadcast
    BY <1>7 DEF GetBroadcast
  <1>8. CASE BuildMsg
    <2>1. /\ step = "build" /\ step' = "send" /\ UNCHANGED <<ip, broadcast, raced, target>>
          /\ ip # "" => src' = ip
      BY <1>8 DEF BuildMsg
    <2> QED BY <2>1
  <1>9. CASE SendMsg
    <2>1. /\ step = "send" /\ step' = "done" /\ UNCHANGED <<ip, broadcast, raced, src>>
          /\ target' = Target(broadcast)
      BY <1>9 DEF SendMsg
    <2>2. Target(broadcast)' = Target(broadcast)
      BY <2>1
    <2> QED BY <2>1
  <1>10. CASE SendFails
    BY <1>10 DEF SendFails
  <1>11. CASE UNCHANGED ctlVars
    BY <1>11 DEF ctlVars, AddressOf, Target
  <1> QED BY <1>1, <1>2, <1>3, <1>4, <1>5, <1>6, <1>7, <1>8, <1>9, <1>10, <1>11
          DEF CtlNext, Lasync, allVars

\* A datagram that goes to a network carries the controller's address in that
\* network, unless it changed between the two ioctls (netutils.cpp:129-151).
THEOREM SourceInTheNetwork == CtlSpec => []SourceMatchesTarget
  BY AddressInit, AddressNext, TargetIsSource, PTL DEF CtlSpec

-----------------------------------------------------------------------------
(***************************************************************************)
(* What read_all finds on a line is what the line sets.                    *)
(***************************************************************************)
\* Part of a line is some tokens, the line's own, and its last one, exactly if
\* the tokens are there.
LEMMA PartOfLine ==
    ASSUME NEW S, NEW line \in Seq(S), NEW p \in Seq(S),
           NEW i \in Nat, NEW j \in Nat, i > 0, j >= i + Len(p), j <= Len(line)
    PROVE  SubSeq(line, i, j) = p \o SubSeq(line, i + Len(p), j - 1) \o <<line[j]>>
           <=> \A k \in 1..Len(p) : line[i + k - 1] = p[k]
  <1> DEFINE n == Len(p)
             v == SubSeq(line, i + n, j - 1)
             w == p \o v
             q == w \o <<line[j]>>
             s == SubSeq(line, i, j)
  <1>1. n \in Nat /\ Len(line) \in Nat /\ i <= j /\ i + n <= j
    BY LenProperties
  <1>2. \A k \in 1..Len(line) : line[k] \in S
    BY ElementOfSeq
  <1> HIDE DEF n
  <1>3. s \in Seq(S) /\ Len(s) = j - i + 1 /\ \A k \in 1..(j - i + 1) : s[k] = line[i + k - 1]
    <2>1. \A k \in i..j : line[k] \in S
      BY <1>1, <1>2
    <2> QED BY <1>1, <2>1, SubSeqProperties
  <1>4. v \in Seq(S) /\ Len(v) = j - i - n /\ \A k \in 1..(j - i - n) : v[k] = line[i + n + k - 1]
    <2>1. i + n \in Nat /\ j - 1 \in Nat /\ \A k \in (i + n)..(j - 1) : line[k] \in S
      BY <1>1, <1>2
    <2>2. /\ v \in Seq(S)
          /\ Len(v) = IF i + n <= j - 1 THEN (j - 1) - (i + n) + 1 ELSE 0
          /\ \A k \in 1..((j - 1) - (i + n) + 1) : v[k] = line[i + n + k - 1]
      BY <2>1, SubSeqProperties
    <2>3. (j - 1) - (i + n) + 1 = j - i - n /\ (~(i + n <= j - 1) => j - i - n = 0)
      BY <1>1
    <2> HIDE DEF v
    <2> QED BY <2>2, <2>3
  <1> HIDE DEF v, s
  <1>5. w \in Seq(S) /\ Len(w) = j - i
        /\ \A k \in 1..(j - i) : w[k] = IF k <= n THEN p[k] ELSE v[k - n]
    <2>1. n + (j - i - n) = j - i
      BY <1>1
    <2> QED BY <1>1, <1>4, <2>1, ConcatProperties DEF n
  <1> HIDE DEF w
  <1>6. <<line[j]>> \in Seq(S) /\ Len(<<line[j]>>) = 1 /\ <<line[j]>>[1] = line[j]
    BY <1>1, <1>2
  <1>7. q \in Seq(S) /\ Len(q) = j - i + 1
        /\ \A k \in 1..(j - i + 1) : q[k] = IF k <= j - i THEN w[k] ELSE line[j]
    <2>1. q \in Seq(S) /\ Len(q) = j - i + 1
          /\ \A k \in 1..(j - i + 1) : q[k] = IF k <= j - i THEN w[k] ELSE <<line[j]>>[k - (j - i)]
      BY <1>1, <1>5, <1>6, ConcatProperties
    <2>2. ASSUME NEW k \in 1..(j - i + 1), ~(k <= j - i) PROVE k - (j - i) = 1
      BY <1>1, <2>2
    <2> QED BY <1>6, <2>1, <2>2
  <1> HIDE DEF q, n
  <1>8. ASSUME s = q, NEW k \in 1..n PROVE line[i + k - 1] = p[k]
    <2>1. k \in 1..(j - i + 1) /\ k \in 1..(j - i) /\ k <= n
      BY <1>1
    <2>2. s[k] = line[i + k - 1]
      BY <1>3, <2>1
    <2>3. q[k] = p[k]
      BY <1>5, <1>7, <2>1
    <2> QED BY <1>8, <2>2, <2>3
  <1>9. ASSUME \A k \in 1..n : line[i + k - 1] = p[k] PROVE s = q
    <2>1. ASSUME NEW k \in 1..(j - i + 1) PROVE s[k] = q[k]
      <3>1. CASE k <= n
        <4>1. k \in 1..n /\ k \in 1..(j - i)
          BY <1>1, <3>1 DEF n
        <4> QED BY <1>3, <1>5, <1>7, <1>9, <3>1, <4>1
      <3>2. CASE ~(k <= n) /\ k <= j - i
        <4>1. k - n \in 1..(j - i - n) /\ i + n + (k - n) - 1 = i + k - 1 /\ k \in 1..(j - i)
          BY <1>1, <3>2
        <4>2. q[k] = v[k - n] /\ v[k - n] = line[i + n + (k - n) - 1]
          BY <1>4, <1>5, <1>7, <3>2, <4>1
        <4> QED BY <1>3, <4>1, <4>2
      <3>3. CASE ~(k <= j - i)
        <4>1. i + k - 1 = j
          BY <1>1, <3>3
        <4> QED BY <1>3, <1>7, <3>3, <4>1
      <3> QED BY <1>1, <3>1, <3>2, <3>3
    <2> QED BY <1>3, <1>7, <2>1, SeqEqual
  <1> QED BY <1>8, <1>9 DEF s, q, w, v, n

Prefix(key, b, c) == <<key>> \o b \o <<"=">> \o c \o <<"'">>

LEMMA PrefixIs ==
    ASSUME NEW key, NEW b \in Gaps, NEW c \in Gaps
    PROVE  /\ Len(Prefix(key, b, c)) = Len(b) + Len(c) + 3
           /\ Len(b) \in {0, 1} /\ Len(c) \in {0, 1}
           /\ Prefix(key, b, c)[1] = key
           /\ Prefix(key, b, c)[Len(b) + 2] = "="
           /\ Prefix(key, b, c)[Len(b) + Len(c) + 3] = "'"
           /\ Len(b) = 1 => Prefix(key, b, c)[2] = "sp"
           /\ Len(c) = 1 => Prefix(key, b, c)[Len(b) + 3] = "sp"
  <1> DEFINE S == {key, "=", "'", "sp"}
             m == Len(b)
             n == Len(c)
             r == <<key>> \o b
             s == r \o <<"=">>
             t == s \o c
             p == Prefix(key, b, c)
  <1>1. /\ b \in Seq(S) /\ m \in {0, 1} /\ (m = 1 => b[1] = "sp")
        /\ c \in Seq(S) /\ n \in {0, 1} /\ (n = 1 => c[1] = "sp")
    <2>1. ASSUME NEW g \in Gaps
          PROVE  g \in Seq(S) /\ Len(g) \in {0, 1} /\ (Len(g) = 1 => g[1] = "sp")
      <3>1. CASE g = <<>>
        BY <3>1, EmptySeq
      <3>2. CASE g = <<"sp">>
        BY <3>2
      <3> QED BY <3>1, <3>2 DEF Gaps
    <2> QED BY <2>1
  <1>2. r \in Seq(S) /\ Len(r) = m + 1 /\ r[1] = key /\ (m = 1 => r[2] = "sp")
    BY <1>1, ConcatProperties
  <1> HIDE DEF r, m, n
  <1>3. s \in Seq(S) /\ Len(s) = m + 2 /\ s[1] = key /\ (m = 1 => s[2] = "sp") /\ s[m + 2] = "="
    <2>1. <<"=">> \in Seq(S) /\ Len(<<"=">>) = 1 /\ <<"=">>[1] = "="
      OBVIOUS
    <2>2. /\ s \in Seq(S) /\ Len(s) = (m + 1) + 1
          /\ \A k \in 1..((m + 1) + 1) : s[k] = IF k <= m + 1 THEN r[k] ELSE <<"=">>[k - (m + 1)]
      BY <1>1, <1>2, <2>1, ConcatProperties
    <2>3. m + 2 - (m + 1) = 1 /\ 1 \in 1..((m + 1) + 1) /\ m + 2 \in 1..((m + 1) + 1)
          /\ 1 <= m + 1 /\ ~(m + 2 <= m + 1) /\ (m = 1 => 2 \in 1..((m + 1) + 1) /\ 2 <= m + 1)
      BY <1>1
    <2> HIDE DEF s
    <2> QED BY <1>1, <1>2, <2>1, <2>2, <2>3
  <1> HIDE DEF s
  <1>4. t \in Seq(S) /\ Len(t) = m + n + 2 /\ t[1] = key /\ (m = 1 => t[2] = "sp")
        /\ t[m + 2] = "=" /\ (n = 1 => t[m + 3] = "sp")
    BY <1>1, <1>3, ConcatProperties DEF n
  <1> HIDE DEF t
  <1>5. p = t \o <<"'">>
    BY DEF Prefix, t, s, r
  <1>6. p \in Seq(S) /\ Len(p) = m + n + 3 /\ p[1] = key /\ (m = 1 => p[2] = "sp")
        /\ p[m + 2] = "=" /\ (n = 1 => p[m + 3] = "sp") /\ p[m + n + 3] = "'"
    BY <1>1, <1>4, <1>5, ConcatProperties
  <1> QED BY <1>1, <1>6 DEF m, n

\* Key, gap, "=", gap, quote at position i.
Starts(line, i, key, b, c) ==
    LET m == Len(b)
        n == Len(c)
    IN  /\ line[i] = key /\ line[i + m + 1] = "=" /\ line[i + m + n + 2] = "'"
        /\ m = 1 => line[i + 1] = "sp"
        /\ n = 1 => line[i + m + 2] = "sp"

LEMMA StartOfSetting ==
    ASSUME NEW line, NEW i \in Nat, NEW key, NEW b \in Gaps, NEW c \in Gaps
    PROVE  (\A k \in 1..(Len(b) + Len(c) + 3) : line[i + k - 1] = Prefix(key, b, c)[k])
           <=> Starts(line, i, key, b, c)
  <1> DEFINE m == Len(b)
             n == Len(c)
             p == Prefix(key, b, c)
  <1>1. /\ m \in {0, 1} /\ n \in {0, 1}
        /\ p[1] = key /\ p[m + 2] = "=" /\ p[m + n + 3] = "'"
        /\ m = 1 => p[2] = "sp"
        /\ n = 1 => p[m + 3] = "sp"
    BY PrefixIs
  <1> HIDE DEF m, n, p
  <1>2. Starts(line, i, key, b, c) <=>
            /\ line[i] = key /\ line[i + m + 1] = "=" /\ line[i + m + n + 2] = "'"
            /\ m = 1 => line[i + 1] = "sp"
            /\ n = 1 => line[i + m + 2] = "sp"
    BY DEF Starts, m, n
  <1>3. (\A k \in 1..(m + n + 3) : line[i + k - 1] = p[k]) <=>
            /\ line[i] = key /\ line[i + m + 1] = "=" /\ line[i + m + n + 2] = "'"
            /\ m = 1 => line[i + 1] = "sp"
            /\ n = 1 => line[i + m + 2] = "sp"
    <2>1. CASE m = 0 /\ n = 0
      <3>1. 1..(m + n + 3) = {1, 2, 3}
        BY <2>1
      <3>2. i + 1 - 1 = i /\ i + 2 - 1 = i + 1 /\ i + 3 - 1 = i + 2
        OBVIOUS
      <3> QED BY <1>1, <2>1, <3>1, <3>2
    <2>2. CASE m = 0 /\ n = 1
      <3>1. 1..(m + n + 3) = {1, 2, 3, 4}
        BY <2>2
      <3>2. i + 1 - 1 = i /\ i + 2 - 1 = i + 1 /\ i + 3 - 1 = i + 2 /\ i + 4 - 1 = i + 3
        OBVIOUS
      <3> QED BY <1>1, <2>2, <3>1, <3>2
    <2>3. CASE m = 1 /\ n = 0
      <3>1. 1..(m + n + 3) = {1, 2, 3, 4}
        BY <2>3
      <3>2. i + 1 - 1 = i /\ i + 2 - 1 = i + 1 /\ i + 3 - 1 = i + 2 /\ i + 4 - 1 = i + 3
        OBVIOUS
      <3> QED BY <1>1, <2>3, <3>1, <3>2
    <2>4. CASE m = 1 /\ n = 1
      <3>1. 1..(m + n + 3) = {1, 2, 3, 4, 5}
        BY <2>4
      <3>2. /\ i + 1 - 1 = i /\ i + 2 - 1 = i + 1 /\ i + 3 - 1 = i + 2 /\ i + 4 - 1 = i + 3
            /\ i + 5 - 1 = i + 4
        OBVIOUS
      <3> QED BY <1>1, <2>4, <3>1, <3>2
    <2> QED BY <1>1, <2>1, <2>2, <2>3, <2>4
  <1> QED BY <1>2, <1>3 DEF m, n, p

LEMMA PrefixType ==
    ASSUME NEW S, NEW key \in S, {"=", "'", "sp"} \subseteq S, NEW b \in Gaps, NEW c \in Gaps
    PROVE  Prefix(key, b, c) \in Seq(S)
  <1>1. b \in Seq(S) /\ c \in Seq(S)
    <2>1. ASSUME NEW g \in Gaps PROVE g \in Seq(S)
      <3>1. CASE g = <<>>
        BY <3>1, EmptySeq
      <3>2. CASE g = <<"sp">>
        BY <3>2
      <3> QED BY <3>1, <3>2 DEF Gaps
    <2> QED BY <2>1
  <1>2. <<key>> \in Seq(S) /\ <<"=">> \in Seq(S) /\ <<"'">> \in Seq(S)
    OBVIOUS
  <1>3. <<key>> \o b \in Seq(S)
    BY <1>1, <1>2, ConcatProperties
  <1>4. <<key>> \o b \o <<"=">> \in Seq(S)
    BY <1>2, <1>3, ConcatProperties
  <1>5. <<key>> \o b \o <<"=">> \o c \in Seq(S)
    BY <1>1, <1>4, ConcatProperties
  <1> QED BY <1>2, <1>5, ConcatProperties DEF Prefix

LEMMA PartIsOf ==
    ASSUME NEW S, NEW line \in Seq(S), NEW W, NEW i \in Nat, NEW j \in Nat,
           i > 0, i <= j, j <= Len(line)
    PROVE  (\A n \in DOMAIN SubSeq(line, i, j - 1) : SubSeq(line, i, j - 1)[n] \in W)
           <=> \A k \in i..(j - 1) : line[k] \in W
  <1> DEFINE v == SubSeq(line, i, j - 1)
             m == j - i
  <1>1. m \in Nat /\ j - 1 \in Int /\ j - 1 - i + 1 = m /\ (~(i <= j - 1) => m = 0)
    OBVIOUS
  <1>2. \A k \in i..(j - 1) : line[k] \in S
    BY LenProperties, ElementOfSeq
  <1>3. /\ v \in Seq(S) /\ Len(v) = IF i <= j - 1 THEN j - 1 - i + 1 ELSE 0
        /\ \A k \in 1..(j - 1 - i + 1) : v[k] = line[i + k - 1]
    BY <1>1, <1>2, SubSeqProperties
  <1> HIDE DEF v
  <1>4. DOMAIN v = 1..m /\ \A k \in 1..m : v[k] = line[i + k - 1]
    <2>1. Len(v) = m
      BY <1>1, <1>3
    <2>2. DOMAIN v = 1..Len(v)
      BY <1>3, LenProperties
    <2> QED BY <1>1, <1>3, <2>1, <2>2
  <1> HIDE DEF m
  <1>5. ASSUME NEW k \in i..(j - 1), \A n \in 1..m : v[n] \in W
        PROVE  line[k] \in W
    <2>1. k - i + 1 \in 1..m /\ i + (k - i + 1) - 1 = k
      BY DEF m
    <2> QED BY <1>4, <1>5, <2>1
  <1>6. ASSUME NEW n \in 1..m, \A k \in i..(j - 1) : line[k] \in W
        PROVE  v[n] \in W
    <2>1. i + n - 1 \in i..(j - 1)
      BY DEF m
    <2> QED BY <1>4, <1>6, <2>1
  <1> QED BY <1>4, <1>5, <1>6 DEF v

\* A line that sets the key at i and has its last quote at j.
Quoted(line, i, j, key, b, c) ==
    /\ j > i + Len(b) + Len(c) + 2 /\ line[j] = "'"
    /\ Starts(line, i, key, b, c)
    /\ \A k \in (i + Len(b) + Len(c) + 3)..(j - 1) : line[k] \in Words

Pattern(line, key, b, c, i, j) ==
    /\ j > i + Len(b) + Len(c) + 2 /\ line[j] = "'"
    /\ \E v \in {SubSeq(line, i + Len(b) + Len(c) + 3, j - 1)} :
          /\ SubSeq(line, i, j) = <<key>> \o b \o <<"=">> \o c \o <<"'">> \o v \o <<"'">>
          /\ \A n \in DOMAIN v : v[n] \in Words

LEMMA QuotedIs ==
    ASSUME NEW S, NEW line \in Seq(S), NEW key \in S, {"=", "'", "sp"} \subseteq S,
           NEW i \in Nat, NEW j \in Nat, i > 0, j <= Len(line),
           NEW b \in Gaps, NEW c \in Gaps
    PROVE  Quoted(line, i, j, key, b, c) <=> Pattern(line, key, b, c, i, j)
  <1> DEFINE p == Prefix(key, b, c)
             n == Len(b) + Len(c) + 3
             first == i + Len(b) + Len(c) + 3
             v == SubSeq(line, first, j - 1)
  <1>1. Len(b) \in Nat /\ Len(c) \in Nat /\ Len(p) = n
    <2>1. Len(b) \in {0, 1} /\ Len(c) \in {0, 1} /\ Len(p) = n
      BY PrefixIs
    <2> QED BY <2>1
  <1>2. p \in Seq(S)
    BY PrefixType
  <1>3. first = i + n /\ n \in Nat /\ first \in Nat /\ first > 0
        /\ (j > i + Len(b) + Len(c) + 2 => first <= j)
    BY <1>1
  <1>4. ASSUME first <= j, line[j] = "'"
        PROVE  /\ SubSeq(line, i, j) = p \o v \o <<"'">> <=> Starts(line, i, key, b, c)
               /\ (\A m \in DOMAIN v : v[m] \in Words) <=> \A k \in first..(j - 1) : line[k] \in Words
    <2> HIDE DEF p, n, first
    <2>1. SubSeq(line, i, j) = p \o SubSeq(line, i + Len(p), j - 1) \o <<line[j]>>
          <=> \A k \in 1..Len(p) : line[i + k - 1] = p[k]
      <3>1. j >= i + Len(p)
        BY <1>1, <1>3, <1>4
      <3> QED BY <1>2, <1>4, <3>1, PartOfLine
    <2>2. (\A k \in 1..n : line[i + k - 1] = p[k]) <=> Starts(line, i, key, b, c)
      BY StartOfSetting DEF p, n
    <2>3. SubSeq(line, i + Len(p), j - 1) = v
      BY <1>1, <1>3
    <2>4. (\A m \in DOMAIN v : v[m] \in Words) <=> \A k \in first..(j - 1) : line[k] \in Words
      <3>1. line \in Seq(S) /\ first \in Nat /\ first > 0 /\ first <= j
        BY <1>3, <1>4
      <3>2. \A i0 \in Nat : i0 > 0 /\ i0 <= j =>
               ((\A m \in DOMAIN SubSeq(line, i0, j - 1) : SubSeq(line, i0, j - 1)[m] \in Words)
               <=> \A k \in i0..(j - 1) : line[k] \in Words)
        BY PartIsOf
      <3> QED BY <3>1, <3>2
    <2> HIDE DEF v
    <2> QED BY <1>1, <1>4, <2>1, <2>2, <2>3, <2>4
  <1>5. p \o v \o <<"'">> = <<key>> \o b \o <<"=">> \o c \o <<"'">> \o v \o <<"'">>
    BY DEF Prefix
  <1>6. Quoted(line, i, j, key, b, c) <=>
              /\ j > i + Len(b) + Len(c) + 2 /\ line[j] = "'"
              /\ Starts(line, i, key, b, c)
              /\ \A k \in first..(j - 1) : line[k] \in Words
    BY DEF Quoted
  <1> HIDE DEF v, p, first
  <1>7. Quoted(line, i, j, key, b, c) <=>
              /\ j > i + Len(b) + Len(c) + 2 /\ line[j] = "'"
              /\ SubSeq(line, i, j) = p \o v \o <<"'">>
              /\ \A m \in DOMAIN v : v[m] \in Words
    BY <1>3, <1>4, <1>6, Zenon
  <1> QED BY <1>5, <1>7, Zenon DEF Pattern, v, first

\* What stands between the quotes.
Between(line, i, j, b, c) == SubSeq(line, i + Len(b) + Len(c) + 3, j - 1)

LEMMA ValuesQuoted ==
    ASSUME NEW S, NEW line \in Seq(S), NEW key, NEW v
    PROVE  v \in Values(line, key) <=>
              /\ line # <<>> /\ line[1] # "#"
              /\ \E i, j \in DOMAIN line, b, c \in Gaps :
                    Quoted(line, i, j, key, b, c) /\ v = Between(line, i, j, b, c)
  <1> DEFINE T == S \cup {key, "=", "'", "sp"}
  <1>1. line \in Seq(T) /\ key \in T /\ {"=", "'", "sp"} \subseteq T
    BY SeqMonotonic
  <1>2. \A i \in DOMAIN line : i \in Nat /\ i > 0 /\ i <= Len(line)
    BY LenProperties
  <1> HIDE DEF T
  <1>3. line # <<>> => Head(line) = line[1]
    BY HeadTailProperties
  <1>4. ASSUME NEW b \in Gaps, NEW c \in Gaps, NEW i \in DOMAIN line, NEW j \in DOMAIN line
        PROVE  Quoted(line, i, j, key, b, c) <=> Pattern(line, key, b, c, i, j)
    BY <1>1, <1>2, QuotedIs
  <1>5. v \in Values(line, key) <=>
           \E i, j \in DOMAIN line, b, c \in Gaps :
              Head(line) # "#" /\ Pattern(line, key, b, c, i, j) /\ v = Between(line, i, j, b, c)
    <2> DEFINE V(i, j, b, c) ==
                   {value \in {SubSeq(line, i + Len(b) + Len(c) + 3, j - 1)} :
                       /\ Head(line) # "#" /\ j > i + Len(b) + Len(c) + 2 /\ line[j] = "'"
                       /\ SubSeq(line, i, j) =
                             <<key>> \o b \o <<"=">> \o c \o <<"'">> \o value \o <<"'">>
                       /\ \A n \in DOMAIN value : value[n] \in Words}
    <2>1. Values(line, key) = UNION {V(i, j, b, c) : i, j \in DOMAIN line, b, c \in Gaps}
      BY DEF Values
    <2>2. ASSUME NEW i, NEW j, NEW b, NEW c
          PROVE  v \in V(i, j, b, c) <=>
                    Head(line) # "#" /\ Pattern(line, key, b, c, i, j) /\ v = Between(line, i, j, b, c)
      BY Zenon DEF Pattern, Between
    <2> HIDE DEF V
    <2>3. v \in Values(line, key) <=> \E i, j \in DOMAIN line, b, c \in Gaps : v \in V(i, j, b, c)
      BY <2>1
    <2> QED BY <2>2, <2>3
  <1>6. line = <<>> => DOMAIN line = {}
    OBVIOUS
  <1> QED BY <1>3, <1>4, <1>5, <1>6, Zenon

LEMMA QuotedIsKeyPlace ==
    ASSUME NEW line, NEW S, line \in Seq(S), NEW i \in DOMAIN line, NEW j \in DOMAIN line,
           NEW key \in Letters, NEW b \in Gaps, NEW c \in Gaps, Quoted(line, i, j, key, b, c)
    PROVE  /\ i \in KeyPlaces(line) /\ line[i] = key
           /\ j \in Closes(line, i) /\ Opens(line, i) + 1 = i + Len(b) + Len(c) + 3
  <1> DEFINE m == Len(b)
             n == Len(c)
  <1>1. m \in {0, 1} /\ n \in {0, 1} /\ m \in Nat /\ n \in Nat
    <2>1. m \in {0, 1} /\ n \in {0, 1}
      BY PrefixIs
    <2> QED BY <2>1
  <1>2. i \in Nat /\ j \in Nat /\ j <= Len(line) /\ Len(line) \in Nat
    BY LenProperties
  <1> HIDE DEF m, n
  <1>3. /\ j > i + m + n + 2 /\ line[j] = "'"
        /\ line[i] = key /\ line[i + m + 1] = "=" /\ line[i + m + n + 2] = "'"
        /\ m = 1 => line[i + 1] = "sp"
        /\ n = 1 => line[i + m + 2] = "sp"
        /\ \A k \in (i + m + n + 3)..(j - 1) : line[k] \in Words
    BY DEF Quoted, Starts, m, n
  <1>3a. j > i + m + n + 2
    BY <1>3
  <1>0. i + m + 1 <= Len(line) /\ i + m + n + 2 <= Len(line) /\ i + m + n + 3 \in Nat
        /\ j >= i + m + n + 3
    BY <1>1, <1>2, <1>3a
  <1>4. Equals(line, i) = i + m + 1
    <2>1. CASE m = 1
      <3>1. i < Len(line) /\ i + 2 = i + m + 1
        BY <1>0, <1>1, <1>2, <2>1
      <3>2. line[i + 1] = "sp"
        BY <1>3, <2>1
      <3> QED BY <3>1, <3>2 DEF Equals, After
    <2>2. CASE m = 0
      <3>1. i + m + 1 = i + 1
        BY <1>1, <1>2, <2>2
      <3>2. line[i + 1] # "sp"
        BY <1>3, <3>1
      <3> QED BY <3>1, <3>2 DEF Equals, After
    <2> QED BY <1>1, <2>1, <2>2
  <1>5. Opens(line, i) = i + m + n + 2
    <2>0. Opens(line, i) = After(line, i + m + 1)
      BY <1>4 DEF Opens
    <2>1. CASE n = 1
      <3>1. i + m + 1 < Len(line) /\ i + m + 1 + 2 = i + m + n + 2 /\ i + m + 1 + 1 = i + m + 2
        BY <1>0, <1>1, <1>2, <2>1
      <3>2. line[i + m + 2] = "sp"
        BY <1>3, <2>1
      <3>3. line[i + m + 1 + 1] = "sp"
        BY <3>1, <3>2
      <3> QED BY <2>0, <3>1, <3>3 DEF After
    <2>2. CASE n = 0
      <3>1. line[i + m + 2] # "sp" /\ i + m + 1 + 1 = i + m + 2
        BY <1>1, <1>2, <1>3, <2>2
      <3> QED BY <1>1, <1>2, <2>0, <2>2, <3>1 DEF After
    <2> QED BY <1>1, <2>1, <2>2
  <1>6. Holds(line, Equals(line, i), "=") /\ Holds(line, Opens(line, i), "'")
    BY <1>0, <1>3, <1>4, <1>5 DEF Holds
  <1>7. j \in Closes(line, i)
    <2>0. (i + m + n + 2) + 1 = i + m + n + 3
      BY <1>1, <1>2
    <2>1. Opens(line, i) + 1 = i + m + n + 3
      BY <1>5, <2>0
    <2>2. j \in (i + m + n + 3)..Len(line)
      BY <1>0, <1>2
    <2> QED BY <1>3, <2>1, <2>2 DEF Closes
  <1>8. Opens(line, i) + 1 = i + m + n + 3
    BY <1>1, <1>2, <1>5
  <1> QED BY <1>3, <1>6, <1>7, <1>8 DEF KeyPlaces, m, n

LEMMA KeyPlaceIsQuoted ==
    ASSUME NEW line, NEW S, line \in Seq(S), NEW i \in KeyPlaces(line)
    PROVE  \E j \in DOMAIN line, b, c \in Gaps : Quoted(line, i, j, line[i], b, c)
  <1>1. /\ i \in DOMAIN line /\ Closes(line, i) # {}
        /\ Holds(line, Equals(line, i), "=") /\ Holds(line, Opens(line, i), "'")
    BY DEF KeyPlaces
  <1>2. i \in Nat /\ Len(line) \in Nat /\ DOMAIN line = 1..Len(line) /\ i > 0
    BY <1>1, LenProperties
  <1> DEFINE G(k) == IF k < Len(line) /\ line[k + 1] = "sp" THEN <<"sp">> ELSE <<>>
             b == G(i)
             c == G(Equals(line, i))
             m == Len(b)
             n == Len(c)
  <1>3. ASSUME NEW k
        PROVE  /\ G(k) \in Gaps /\ Len(G(k)) \in {0, 1}
               /\ k \in Nat => After(line, k) = k + Len(G(k)) + 1
               /\ Len(G(k)) = 1 => line[k + 1] = "sp"
    <2>1. CASE k < Len(line) /\ line[k + 1] = "sp"
      <3>1. G(k) = <<"sp">> /\ Len(G(k)) = 1
        BY <2>1
      <3> HIDE DEF G
      <3>2. G(k) \in Gaps
        BY <3>1 DEF Gaps
      <3>3. k \in Nat => k + 2 = k + 1 + 1
        OBVIOUS
      <3> QED BY <2>1, <3>1, <3>2, <3>3 DEF After
    <2>2. CASE ~(k < Len(line) /\ line[k + 1] = "sp")
      <3>1. G(k) = <<>> /\ Len(G(k)) = 0
        BY <2>2
      <3> HIDE DEF G
      <3>2. G(k) \in Gaps
        BY <3>1 DEF Gaps
      <3>3. k \in Nat => k + 0 + 1 = k + 1
        OBVIOUS
      <3> QED BY <2>2, <3>1, <3>2, <3>3 DEF After
    <2> QED BY <2>1, <2>2
  <1>4. b \in Gaps /\ c \in Gaps /\ m \in {0, 1} /\ n \in {0, 1}
    BY <1>3
  <1> HIDE DEF G
  <1>5. Equals(line, i) = i + m + 1 /\ (m = 1 => line[i + 1] = "sp")
    BY <1>2, <1>3 DEF Equals
  <1>6. Opens(line, i) = i + m + n + 2 /\ (n = 1 => line[i + m + 2] = "sp")
    <2>1. Equals(line, i) \in Nat /\ i + m + 1 + 1 = i + m + 2 /\ i + m + 1 + n + 1 = i + m + n + 2
      BY <1>2, <1>4, <1>5
    <2>2. Opens(line, i) = Equals(line, i) + n + 1 /\ (n = 1 => line[Equals(line, i) + 1] = "sp")
      BY <1>3, <2>1 DEF Opens
    <2> QED BY <1>5, <2>1, <2>2
  <1>7. line[i + m + 1] = "=" /\ line[i + m + n + 2] = "'"
    BY <1>1, <1>5, <1>6 DEF Holds
  <1>8. Starts(line, i, line[i], b, c)
    BY <1>5, <1>6, <1>7 DEF Starts
  <1>9. PICK j \in Closes(line, i) : TRUE
    BY <1>1
  <1> HIDE DEF b, c
  <1>10. /\ j \in (Opens(line, i) + 1)..Len(line) /\ line[j] = "'"
         /\ \A k \in (Opens(line, i) + 1)..(j - 1) : line[k] \in Words
    BY <1>9 DEF Closes
  <1>11. Opens(line, i) + 1 = i + m + n + 3
    BY <1>2, <1>4, <1>6
  <1>12. j > i + m + n + 2 /\ j \in DOMAIN line
    BY <1>2, <1>4, <1>10, <1>11
  <1>13. Quoted(line, i, j, line[i], b, c)
    BY <1>8, <1>10, <1>11, <1>12 DEF Quoted
  <1> QED BY <1>4, <1>12, <1>13

LEMMA OneClose ==
    ASSUME NEW S, NEW line \in Seq(S), NEW i, i \in KeyPlaces(line), NEW j \in Closes(line, i)
    PROVE  Closes(line, i) = {j} /\ Min(Closes(line, i)) = j
  <1> DEFINE o == Opens(line, i) + 1
  <1>1. \A k \in Closes(line, i) :
           k \in o..Len(line) /\ line[k] = "'" /\ \A l \in o..(k - 1) : line[l] \in Words
    BY DEF Closes
  <1>2. "'" \notin Words
    BY TokenAssumption
  <1>3. i \in Nat /\ Len(line) \in Nat
    BY LenProperties DEF KeyPlaces
  <1>4. o \in Int
    BY <1>3 DEF Opens, Equals, After
  <1> HIDE DEF o
  <1>5. ASSUME NEW k \in Closes(line, i) PROVE k = j
    <2>1. k \in Int /\ j \in Int /\ k >= o /\ j >= o
      BY <1>1, <1>3, <1>4
    <2>2. ~(k < j)
      <3>1. k < j => k \in o..(j - 1)
        BY <1>4, <2>1
      <3> QED BY <1>1, <1>2, <3>1
    <2>3. ~(j < k)
      <3>1. j < k => j \in o..(k - 1)
        BY <1>4, <2>1
      <3> QED BY <1>1, <1>2, <3>1
    <2> QED BY <2>1, <2>2, <2>3
  <1>6. Closes(line, i) = {j} /\ j \in Int
    BY <1>1, <1>3, <1>4, <1>5
  <1>7. Min({j}) = j
    BY <1>6 DEF Min
  <1> QED BY <1>6, <1>7

\* A line with one key place, if any, gives the key and the value that read_all
\* finds on it.
LEMMA ValuesAreValueOf ==
    ASSUME NEW S, NEW line \in Seq(S), \A i, j \in KeyPlaces(line) : i = j, NEW key \in Letters
    PROVE  Values(line, key) = IF line # <<>> /\ IsSetting(line) /\ KeyOf(line) = key
                                 THEN {ValueOf(line)} ELSE {}
  <1>1. KeyPlaces(line) # {} => line # <<"sp">>
    <2>1. ASSUME line = <<"sp">>, NEW i \in KeyPlaces(line) PROVE FALSE
      <3>1. i = 1 /\ line[i] \in Letters
        BY <2>1 DEF KeyPlaces
      <3> QED BY <2>1, <3>1, TokenAssumption
    <2> QED BY <2>1
  <1>2. ASSUME NEW i \in KeyPlaces(line) PROVE Min(KeyPlaces(line)) = i /\ KeyOf(line) = line[i]
    <2>1. KeyPlaces(line) = {i} /\ i \in Nat
      BY LenProperties DEF KeyPlaces
    <2>2. Min({i}) = i
      BY <2>1 DEF Min
    <2> QED BY <2>1, <2>2 DEF KeyOf
  <1>3. ASSUME NEW i \in DOMAIN line, NEW j \in DOMAIN line, NEW b \in Gaps, NEW c \in Gaps,
               Quoted(line, i, j, line[i], b, c), line[i] \in Letters
        PROVE  i \in KeyPlaces(line) /\ Between(line, i, j, b, c) = ValueOf(line)
    <2>1. /\ i \in KeyPlaces(line) /\ j \in Closes(line, i)
          /\ Opens(line, i) + 1 = i + Len(b) + Len(c) + 3
      BY <1>3, QuotedIsKeyPlace
    <2>2. Min(KeyPlaces(line)) = i /\ Min(Closes(line, i)) = j
      BY <1>2, <2>1, OneClose
    <2> QED BY <2>1, <2>2, Zenon DEF ValueOf, Between
  <1>4. ASSUME NEW v \in Values(line, key)
        PROVE  line # <<>> /\ IsSetting(line) /\ KeyOf(line) = key /\ v = ValueOf(line)
    <2>1. PICK i \in DOMAIN line, j \in DOMAIN line, b \in Gaps, c \in Gaps :
             Quoted(line, i, j, key, b, c) /\ v = Between(line, i, j, b, c)
      BY <1>4, ValuesQuoted
    <2>2. line # <<>> /\ line[1] # "#"
      BY <1>4, ValuesQuoted
    <2>3. line[i] = key
      BY <2>1, QuotedIsKeyPlace
    <2>4. i \in KeyPlaces(line) /\ v = ValueOf(line)
      BY <1>3, <2>1, <2>3
    <2> QED BY <1>1, <1>2, <2>2, <2>3, <2>4 DEF IsSetting, Skipped
  <1>5. ASSUME line # <<>>, IsSetting(line), KeyOf(line) = key
        PROVE  ValueOf(line) \in Values(line, key)
    <2>1. line[1] # "#" /\ KeyPlaces(line) # {}
      BY <1>5 DEF IsSetting, Skipped
    <2>2. PICK i \in KeyPlaces(line) : TRUE
      BY <2>1
    <2>3. i \in DOMAIN line /\ line[i] = key
      BY <1>2, <1>5 DEF KeyPlaces
    <2>4. PICK j \in DOMAIN line, b \in Gaps, c \in Gaps : Quoted(line, i, j, key, b, c)
      BY <2>3, KeyPlaceIsQuoted
    <2>5. Between(line, i, j, b, c) = ValueOf(line)
      BY <1>3, <2>3, <2>4
    <2> QED BY <1>5, <2>1, <2>3, <2>4, <2>5, ValuesQuoted
  <1> QED BY <1>4, <1>5

\* The inductive invariant: once the file was read, it has each key once, and
\* main's local variable holds the value of that line.
Decides(key, value) ==
    \E n \in SettingLines(conf) : KeyOf(conf[n]) = key /\ ValueOf(conf[n]) = value

ConfInv ==
    /\ conf \in Texts
    /\ step \in {"realpath", "ip", "broadcast", "build", "send", "done"} =>
          ~Duplicate(conf) /\ Decides("device", device) /\ Decides("syncdir", syncdir)

\* Without duplicates read_value finds the value of the line with the key.
LEMMA ValueOfKey ==
    ASSUME \A n \in DOMAIN conf : n \in Nat,
           ~Duplicate(conf), NEW key \in {KeyOf(conf[n]) : n \in SettingLines(conf)}
    PROVE  Decides(key, Settings(conf).value[key])
  <1>1. PICK n \in SettingLines(conf) : KeyOf(conf[n]) = key
    OBVIOUS
  <1>2. {m \in SettingLines(conf) : KeyOf(conf[m]) = key} = {n}
    BY <1>1 DEF Duplicate
  <1>3. n \in Nat
    BY DEF SettingLines, KeptLines
  <1>4. Min({n}) = n
    BY <1>3 DEF Min
  <1>5. Settings(conf).value[key] = ValueOf(conf[Min({m \in SettingLines(conf) : KeyOf(conf[m]) = key})])
    BY DEF Settings
  <1>6. Settings(conf).value[key] = ValueOf(conf[n])
    BY <1>2, <1>4, <1>5
  <1> QED BY <1>1, <1>6 DEF Decides

LEMMA ConfInit == CtlInit => ConfInv
  BY DEF CtlInit, ConfInv

LEMMA ConfNext ==
    ASSUME OneSettingALine, ConfInv, [CtlNext]_allVars
    PROVE  ConfInv'
  <1>0. ASSUME UNCHANGED <<conf, step, device, syncdir>> PROVE ConfInv'
    BY <1>0 DEF ConfInv, Decides
  <1>1. CASE RemoveConf \/ NicChange
    BY <1>0, <1>1 DEF RemoveConf, NicChange, config, locals
  <1>2. CASE IsFile \/ OpenGone \/ SendFails
    <2>1. conf' = conf /\ step' \in {"open", "aborted", "spin", "exited"}
      BY <1>2 DEF IsFile, OpenGone, SendFails, config
    <2> QED BY <2>1 DEF ConfInv
  <1>3. CASE ReadConf
    <2> DEFINE s == Settings(conf)
    <2>1. s.duplicate = Duplicate(conf)
          /\ DOMAIN s.value = {KeyOf(conf[n]) : n \in SettingLines(conf)}
      BY DEF Settings
    <2>2. conf' = conf /\ \A n \in DOMAIN conf : n \in Nat
      BY <1>3 DEF ReadConf, config, ConfInv, OneSettingALine
    <2>3. \/ step' = "aborted"
          \/ /\ ~s.duplicate /\ {"device", "syncdir"} \subseteq DOMAIN s.value
             /\ device' = s.value["device"] /\ syncdir' = s.value["syncdir"]
      BY <1>3, Zenon DEF ReadConf
    <2>4. CASE step' = "aborted"
      BY <2>2, <2>4 DEF ConfInv
    <2>5. CASE step' # "aborted"
      <3>1. /\ ~Duplicate(conf)
            /\ \A key \in {"device", "syncdir"} : key \in {KeyOf(conf[n]) : n \in SettingLines(conf)}
        <4> HIDE DEF s
        <4> QED BY <2>1, <2>3, <2>5
      <3>2. \A key \in {"device", "syncdir"} : Decides(key, s.value[key])
        BY <2>2, <3>1, ValueOfKey
      <3> HIDE DEF s
      <3>3. Decides("device", device') /\ Decides("syncdir", syncdir')
        BY <2>3, <2>5, <3>2
      <3> QED BY <2>2, <3>1, <3>3 DEF ConfInv, Decides
    <2> QED BY <2>4, <2>5
  <1>4. CASE \/ RealPath \/ NoSocket \/ GetIp \/ GetBroadcast \/ BuildMsg \/ SendMsg
    <2>1. /\ UNCHANGED <<conf, device, syncdir>>
          /\ step' = "aborted" \/ step \in {"realpath", "ip", "broadcast", "build", "send"}
      BY <1>4, Zenon DEF RealPath, NoSocket, GetIp, GetBroadcast, BuildMsg, SendMsg, config, locals
    <2> QED BY <2>1 DEF ConfInv, Decides
  <1>5. CASE (Receive \/ Extract \/ Crash) /\ UNCHANGED ctlVars
    BY <1>0, <1>5 DEF ctlVars, config, locals
  <1>6. CASE UNCHANGED allVars
    BY <1>0, <1>6 DEF allVars, ctlVars, config, locals
  <1> QED BY <1>1, <1>2, <1>3, <1>4, <1>5, <1>6 DEF CtlNext, Lasync

\* Whatever a configuration file says, as long as it says one thing a line, a
\* request leaves only with a device and a directory that are each the value of
\* the one line that sets them (configparser.cpp:123-135).
THEOREM RequestsAreUnambiguous == OneSettingALine => (CtlSpec => []OneLineDecides)
  <1> SUFFICES ASSUME OneSettingALine PROVE CtlSpec => []OneLineDecides
    OBVIOUS
  <1>1. ConfInv => OneLineDecides
    <2> SUFFICES ASSUME ConfInv, step \in {"send", "done"},
                        NEW used \in {<<"device", device>>, <<"syncdir", syncdir>>}
                 PROVE  \E n \in DOMAIN conf : \A m \in DOMAIN conf :
                            Values(conf[m], used[1]) = IF m = n THEN {used[2]} ELSE {}
      BY DEF OneLineDecides
    <2> DEFINE key == used[1]
               value == used[2]
    <2>0. key \in {"device", "syncdir"} /\ Decides(key, value)
      BY DEF ConfInv
    <2> HIDE DEF key, value
    <2>1. PICK n \in SettingLines(conf) : KeyOf(conf[n]) = key /\ ValueOf(conf[n]) = value
      BY <2>0 DEF Decides
    <2>2. ~Duplicate(conf)
      BY DEF ConfInv
    <2>3. \A m \in DOMAIN conf :
             /\ conf[m] \in Seq(Range(conf[m]))
             /\ \A i, j \in KeyPlaces(conf[m]) : i = j
      BY DEF ConfInv, OneSettingALine
    <2>4. n \in DOMAIN conf /\ IsSetting(conf[n])
      BY DEF SettingLines, KeptLines
    <2>5. key \in Letters
      <3>1. PICK i \in KeyPlaces(conf[n]) : TRUE
        BY <2>4 DEF IsSetting
      <3>2. KeyPlaces(conf[n]) = {i} /\ i \in Nat
        BY <2>3, <2>4, LenProperties DEF KeyPlaces
      <3>3. Min({i}) = i
        BY <3>2 DEF Min
      <3> QED BY <2>1, <3>2, <3>3 DEF KeyOf, KeyPlaces
    <2>6. ASSUME NEW m \in DOMAIN conf
          PROVE  Values(conf[m], key) = IF m = n THEN {value} ELSE {}
      <3>1. Values(conf[m], key) = IF m \in SettingLines(conf) /\ KeyOf(conf[m]) = key
                                     THEN {ValueOf(conf[m])} ELSE {}
        BY <2>3, <2>5, ValuesAreValueOf DEF SettingLines, KeptLines
      <3> QED BY <2>1, <2>2, <3>1 DEF Duplicate
    <2> QED BY <2>4, <2>6 DEF key, value
  <1>2. ConfInv /\ [CtlNext]_allVars => ConfInv'
    BY ConfNext
  <1> QED BY <1>1, <1>2, ConfInit, PTL DEF CtlSpec
=============================================================================
