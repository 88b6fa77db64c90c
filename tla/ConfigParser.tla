---------------------------- MODULE ConfigParser ----------------------------
(***************************************************************************)
(* LAConfigParser of ladaemon and lasync (lib/configparser.cpp): what      *)
(* read_config and read_all make of a configuration file.                  *)
(*                                                                         *)
(* A line is a sequence of tokens: "sp" for any run of blanks, "=", the    *)
(* quote "'", "#", and words. The regular expression of read_all tells     *)
(* apart words of letters, which can be a key or a value, words of         *)
(* letters, digits and punctuation, which can be a value, and the rest.    *)
(***************************************************************************)
EXTENDS Naturals, SequencesExt

CONSTANTS
    Letters,     \* words over [a-zA-Z_]
    Words        \* words over [a-zA-Z0-9/._,-], Letters among them

ASSUME TokenAssumption ==
    Letters \subseteq Words /\ {"sp", "=", "'", "#"} \cap Words = {}

\* read_config keeps the lines that are not empty.
KeptLines(text) == {n \in DOMAIN text : text[n] # <<>>}

\* Comments have the "#" in the first column; the pattern for blank lines
\* matches one blank, and a longer run has no key anyway.
Skipped(line) == line[1] = "#" \/ line = <<"sp">>

\* The position behind i, a run of blanks left out.
After(line, i) == IF i < Len(line) /\ line[i + 1] = "sp" THEN i + 2 ELSE i + 1
Holds(line, i, token) == i <= Len(line) /\ line[i] = token

\* key = 'value': where the key, its "=" and the opening quote stand.
Equals(line, i) == After(line, i)
Opens(line, i)  == After(line, Equals(line, i))
Closes(line, i) == {c \in (Opens(line, i) + 1)..Len(line) :
    line[c] = "'" /\ \A k \in (Opens(line, i) + 1)..(c - 1) : line[k] \in Words}

\* The expression is not anchored: it matches wherever a key can start.
KeyPlaces(line) == {i \in DOMAIN line :
    /\ line[i] \in Letters
    /\ Holds(line, Equals(line, i), "=") /\ Holds(line, Opens(line, i), "'")
    /\ Closes(line, i) # {}}

IsSetting(line) == ~Skipped(line) /\ KeyPlaces(line) # {}
KeyOf(line) == line[Min(KeyPlaces(line))]
ValueOf(line) ==
    LET i == Min(KeyPlaces(line))
    IN  SubSeq(line, Opens(line, i) + 1, Min(Closes(line, i)) - 1)

SettingLines(text) == {n \in KeptLines(text) : IsSetting(text[n])}

\* read_all: a key that is set twice is an exception.
DuplicateUnseen(text) == FALSE             \* fault of Duplicate: no map_has_key

Duplicate(text) ==
    \E m, n \in SettingLines(text) : m # n /\ KeyOf(text[m]) = KeyOf(text[n])

Settings(text) ==
    LET found == SettingLines(text)
        First(k) == Min({n \in found : KeyOf(text[n]) = k})
    IN  [duplicate |-> Duplicate(text),
         value |-> [k \in {KeyOf(text[n]) : n \in found} |-> ValueOf(text[First(k)])]]

\* read_value throws LAKeyNotFoundException for a key without a setting.
HasKey(settings, key) == key \in DOMAIN settings.value
=============================================================================
