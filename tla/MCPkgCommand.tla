---------------------------- MODULE MCPkgCommand ----------------------------
(***************************************************************************)
(* PkgCommand over files of up to three lines.                             *)
(***************************************************************************)
EXTENDS PkgCommand

MCNames == {"a", "b", "c"}

\* What the comments of the code call valid, with blanks around it, and what
\* they call invalid: an empty line, a comment, a line without a sign.
GoodLines == {
    <<"+", "a", "sp", "b">>,
    <<"sp", "tab", "+", "c", "sp">>,
    <<"+", "sp", "c">>,
    <<"-", "c">>,
    <<"sp", "-", "a", "sp", "c", "sp">>,
    <<"sp", "hash", "+", "a">>,
    <<"b">>,
    <<>>}

FilesOf(set) == UNION {[1..n -> set] : n \in 0..3}
GoodFiles == FilesOf(GoodLines)

ASSUME GoodFilesAssumption == FilesWellFormed

MCKnown == {<<"a">>, <<"b">>, <<"c">>}
MCInitially == {<<"a">>, <<"c">>}
=============================================================================
