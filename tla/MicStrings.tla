----------------------------- MODULE MicStrings -----------------------------
(***************************************************************************)
(* LAStrUtils of the integration library (lib/strutils.cpp). A text is a   *)
(* sequence of tokens: "sp" and "tab", one for each blank, and words and   *)
(* marks, of one character (OneChar) or of several.                        *)
(***************************************************************************)
EXTENDS Naturals, SequencesExt

CONSTANT OneChar
ASSUME BlankAssumption == {"sp", "tab"} \subseteq OneChar

StartsWith(text, start) == IsPrefix(start, text)

\* One delimiter of trim. The positions found are compared with "> 0": a text
\* whose only other character is its first keeps the blanks behind it, and a
\* text of delimiters alone stays as it is.
Strip(text, c) ==
    LET first == SelectInSeq(text, LAMBDA x : x # c)
        left  == IF first > 1 THEN SubSeq(text, first, Len(text)) ELSE text
        last  == SelectLastInSeq(left, LAMBDA x : x # c)
    IN  IF last > 1 \/ (last = 1 /\ left[1] \notin OneChar) THEN SubSeq(left, 1, last) ELSE left

\* Spaces first, then tabs: blanks of both kinds may stay.
Trim(text) == Strip(Strip(text, "sp"), "tab")

\* The pieces between separators that are not empty.
Split(text, sep) ==
    LET From[i \in 1..(Len(text) + 1)] ==
            LET ends == {j \in i..Len(text) : text[j] = sep} \cup {Len(text) + 1}
            IN  (IF i < Min(ends) THEN <<SubSeq(text, i, Min(ends) - 1)>> ELSE <<>>)
                \o (IF Min(ends) > Len(text) THEN <<>> ELSE From[Min(ends) + 1])
    IN  From[1]

InListFinds(text, key) ==                  \* fault of InList: find() on the text
    \E i, j \in DOMAIN text : key = SubSeq(text, i, j)

InList(text, key) == key \in Range(Split(text, ","))

=============================================================================
