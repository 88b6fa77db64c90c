----------------------------- MODULE WireFormat -----------------------------
(***************************************************************************)
(* One request on its way from lasync to ladaemon: build_msg lays the      *)
(* destination list and the directory out behind the LAMsg header,         *)
(* send_msg hands self_len bytes to UDP, the daemon reads them into a      *)
(* buffer of fixed size, copies what it got to the heap and extract_msg    *)
(* takes the two strings apart again.                                      *)
(*                                                                         *)
(* The header always arrives whole (HdrLen < BufLen); self_len, src and    *)
(* cmd are copied and compared with nothing, so only host_list_len and the *)
(* bytes of tag are kept. A byte is a Char or the terminating NUL.         *)
(***************************************************************************)
EXTENDS Naturals, Integers, Sequences

CONSTANTS
    Char, NUL,
    HdrLen,      \* sizeof(LAMsg)
    BufLen,      \* the daemon's char buffer[256]
    DestLists,   \* the texts lasync's -m option may have ("" when absent)
    Dirs,        \* the absolute paths of the directory to synchronise
    Heaps        \* what the heap may hold behind the copied datagram

Byte == Char \cup {NUL}

ASSUME WireAssumption ==
    /\ NUL \notin Char
    /\ HdrLen \in Nat /\ BufLen \in Nat /\ HdrLen < BufLen
    /\ DestLists \subseteq Seq(Char)
    /\ Dirs \subseteq Seq(Char)
    /\ Heaps \subseteq Seq(Byte)

VARIABLES
    phase,      \* "idle", "built", "sent", "received", "extracted", "crashed"
    dest, dir,  \* what the user asked for
    pkt,        \* the message: self_len, host_list_len and tag
    mem,        \* the daemon's memory from msg->tag on
    got         \* the strings extract_msg returned

vars == <<phase, dest, dir, pkt, mem, got>>

NoPkt == [selfLen |-> HdrLen, hostListLen |-> 0, tag |-> <<>>]
Nothing == [dest |-> <<>>, dir |-> <<>>]

Init ==
    /\ phase = "idle"
    /\ dest \in DestLists /\ dir \in Dirs
    /\ pkt = NoPkt /\ mem = <<>> /\ got = Nothing

(***************************************************************************)
(* The helpers, each after a fault that can take its place: nothing uses   *)
(* the faults, but a run with one of them must violate a property.         *)
(***************************************************************************)
\* build_msg's buffer_len.
MsgLen(d, s) == HdrLen + Len(d) + Len(s) + 1

KeptBytesLess(n) == IF n < BufLen THEN n ELSE BufLen - 1   \* keeps a byte back

\* What of n bytes sent recvfrom leaves in the buffer.
KeptBytes(n) == IF n <= BufLen THEN n ELSE BufLen

\* strlen: the characters before the first NUL.
EndsAt(m, n) == m[n] = NUL /\ \A i \in 1..(n - 1) : m[i] # NUL
Terminated(m) == \E n \in 1..Len(m) : EndsAt(m, n)
TextEnd(m) == CHOOSE n \in 1..Len(m) : EndsAt(m, n)
StrLen(m) == TextEnd(m) - 1

\* extract_msg's syncdir_len, an int: it may be negative.
SyncDirLen(m, h) == StrLen(m) - h

(***************************************************************************)
(* The actions.                                                            *)
(***************************************************************************)
\* Two strcpy, the second over the NUL of the first.
Build ==
    /\ phase = "idle"
    /\ pkt' = [selfLen     |-> MsgLen(dest, dir),
               hostListLen |-> Len(dest),
               tag         |-> dest \o dir \o <<NUL>>]
    /\ phase' = "built"
    /\ UNCHANGED <<dest, dir, mem, got>>

\* sendto puts self_len bytes on the wire.
Send ==
    /\ phase = "built"
    /\ pkt' = [pkt EXCEPT !.tag = SubSeq(@, 1, pkt.selfLen - HdrLen)]
    /\ phase' = "sent"
    /\ UNCHANGED <<dest, dir, mem, got>>

\* recvfrom cuts the datagram to the buffer; the copy on the heap is followed
\* by a byte nobody wrote (malloc(data_len + 1)) and by other objects.
Receive ==
    /\ phase = "sent"
    /\ \E heap \in Heaps :
          mem' = SubSeq(pkt.tag, 1, KeptBytes(HdrLen + Len(pkt.tag)) - HdrLen) \o heap
    /\ phase' = "received"
    /\ UNCHANGED <<dest, dir, pkt, got>>

\* The bytes extract_msg reads are in the memory the model knows, and the
\* length it computes for the directory is one that malloc can serve.
Readable ==
    /\ pkt.hostListLen <= Len(mem) /\ Terminated(mem)
    /\ SyncDirLen(mem, pkt.hostListLen) >= 0

Extract ==
    /\ phase = "received" /\ Readable
    /\ LET h == pkt.hostListLen
           s == SyncDirLen(mem, h)
       IN  got' = [dest |-> SubSeq(mem, 1, h), dir |-> SubSeq(mem, h + 1, h + s)]
    /\ phase' = "extracted"
    /\ UNCHANGED <<dest, dir, pkt, mem>>

\* A negative syncdir_len: malloc fails and memcpy writes through NULL.
Crash ==
    /\ phase = "received" /\ ~Readable
    /\ phase' = "crashed"
    /\ UNCHANGED <<dest, dir, pkt, mem, got>>

Next == Build \/ Send \/ Receive \/ Extract \/ Crash

Spec == Init /\ [][Next]_vars
-----------------------------------------------------------------------------
(***************************************************************************)
(* Properties.                                                             *)
(***************************************************************************)
Fits == HdrLen + Len(dest) + Len(dir) + 1 <= BufLen

\* A request that fits the receive buffer comes out as it went in, whatever
\* lies behind it on the daemon's heap (netutils.cpp:47-103, main.cpp:100-108).
RoundTrip ==
    Fits => /\ phase # "crashed"
            /\ phase = "extracted" => got = [dest |-> dest, dir |-> dir]

\* As long as the destination list itself fits, every daemon reads the list
\* that was sent, and decides rightly whether the request is for it, even if
\* the directory behind the list was cut off.
ListSurvives ==
    HdrLen + Len(dest) <= BufLen /\ phase = "extracted" => got.dest = dest

\* What lasync's usage text promises of -m, "node list to do above actions"
\* (cmdutils.cpp:47): every daemon learns the list the user gave.
NodeListArrives ==
    /\ phase # "crashed"
    /\ phase = "extracted" => got.dest = dest
=============================================================================
