----------------------------- MODULE MicConfig -----------------------------
(***************************************************************************)
(* LAConfigParser of the integration library (lib/configparser.cpp), with  *)
(* the delimiter as a parameter. Unlike its namesake in ladaemon, which    *)
(* ConfigParser models, it trims lines, keys and values, takes a value     *)
(* with its quotes, and by default accepts a key that is set twice.        *)
(***************************************************************************)
EXTENDS MicStrings

\* read_config: what is left of each line, if anything.
KeptLines(text) == {n \in DOMAIN text : Trim(text[n]) # <<>>}

\* (.*)delimiter(.*): the first group takes all it can.
Delimiter(line, d) == SelectLastInSeq(line, LAMBDA c : c = d)
IsSetting(line, d) == ~StartsWith(line, <<"#">>) /\ Delimiter(line, d) > 0
KeyOf(line, d)   == Trim(SubSeq(line, 1, Delimiter(line, d) - 1))
ValueOf(line, d) == Trim(SubSeq(line, Delimiter(line, d) + 1, Len(line)))

\* read_all: of the lines with one key, insert keeps the first one's value.
KeptLast(places) == Max(places)            \* fault of Kept: map[key] = value

Kept(places) == Min(places)

SettingLines(text, d) == {n \in KeptLines(text) : IsSetting(Trim(text[n]), d)}
Places(text, d, key) == {n \in SettingLines(text, d) : KeyOf(Trim(text[n]), d) = key}

Settings(text, d, duplicates) ==
    LET keys == {KeyOf(Trim(text[n]), d) : n \in SettingLines(text, d)}
    IN  [throws |-> ~duplicates /\ \E k \in keys : Cardinality(Places(text, d, k)) > 1,
         value  |-> [k \in keys |-> ValueOf(Trim(text[Kept(Places(text, d, k))]), d)]]

\* map_has_key; without the key read_value throws.
HasKey(settings, key) == key \in DOMAIN settings.value
ReadValue(settings, key) == settings.value[key]
=============================================================================
