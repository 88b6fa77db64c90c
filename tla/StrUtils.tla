------------------------------ MODULE StrUtils ------------------------------
(***************************************************************************)
(* ladaemon's string helpers (lib/strutils.cpp), as operators on sequences *)
(* of characters. Only the classes of characters that the helpers tell     *)
(* apart are characters here: "sp", "tab", and what is neither in the      *)
(* bracket expression of trim's regular expression nor blank ("hash").     *)
(***************************************************************************)
EXTENDS Naturals, Sequences, FiniteSetsExt

CONSTANT Names          \* letters and digits: any number of symbols will do

Blank == {"sp", "tab"}                     \* [ |\t]
Class == Names \cup {"+", "-", "sp"}       \* [a-zA-Z0-9\+-_ ]
OtherChars == {"tab", "hash"}
Chars == Class \cup OtherChars
ASSUME NamesAssumption == Names \cap {"+", "-", "sp", "tab", "hash", "none"} = {}

\* From i on, the expression matches if blanks lead to a character of Class.
MatchesAt(s, i, j) ==
    s[j] \in Class /\ \A k \in i..(j - 1) : s[k] \in Blank

\* trim fails, and leaves its result alone, if the expression matches nowhere.
TrimMatches(s) == \E j \in 1..Len(s) : s[j] \in Class

TrimAnchored(s) ==                         \* fault of Trim: no leading blanks
    LET last == Max({d \in 1..Len(s) : \A k \in 1..d : s[k] \in Class} \cup {0})
    IN  SubSeq(s, 1, last)

\* The text trim returns: the leftmost match, its leading blanks cut off as
\* far as a character of Class is left, up to the end of that run of Class.
\* The match is not anchored, and a trailing space belongs to the run.
Trim(s) ==
    LET start == Min({i \in 1..Len(s) : \E j \in i..Len(s) : MatchesAt(s, i, j)})
        first == Max({j \in start..Len(s) : MatchesAt(s, start, j)})
        last  == Max({d \in first..Len(s) : \A k \in first..d : s[k] \in Class})
    IN  SubSeq(s, first, last)

StartsWith(s, c) == s # <<>> /\ Head(s) = c
=============================================================================
