---------------------------- MODULE MCWireFormat ----------------------------
(***************************************************************************)
(* WireFormat with the sizes of the code (16 and 256) and strings whose    *)
(* lengths lie on both sides of every boundary.                            *)
(***************************************************************************)
EXTENDS WireFormat

Text(c, n) == [i \in 1..n |-> c]

MCChar == {"h", "d", "x"}
\* 240 characters fill the buffer behind the header.
MCDestLists == {Text("h", n) : n \in {0, 1, 40, 139, 140, 239, 240, 241, 300}}
MCDirs == {Text("d", n) : n \in {1, 8, 100, 238, 239, 240}}
\* A NUL at once, after one stale byte, and after many.
MCHeaps == {Text("x", n) \o Text("0", 70 - n) : n \in {0, 1, 61}}
=============================================================================
