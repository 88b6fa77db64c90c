------------------------------- MODULE HwInfo -------------------------------
(***************************************************************************)
(* LAHWInfoCollector (integration lib/sysutils.cpp): three reports on the  *)
(* machine. A call is described by its outcome: how it ends ("returned",   *)
(* "thrown", "hung"), the report, a function from keys to values, and how  *)
(* many descriptors it keeps. Exceptions are described by being thrown.    *)
(***************************************************************************)
EXTENDS MicConfig

CpuKeys == {<<"model name">>, <<"cache size">>, <<"processor">>, <<"cpu cores">>,
            <<"cpu MHz">>, <<"flags">>}
MemKeys == {<<"Cached">>, <<"MemTotal">>, <<"SwapTotal">>, <<"MemFree">>, <<"SwapFree">>}

NoReport == <<>>
Thrown == [ends |-> "thrown", report |-> NoReport, keeps |-> 0]

\* create_instance with ":" on a file of /proc, then read_value of each key. A
\* stream that cannot be opened for want of a descriptor never reaches its end,
\* and read_config does not return; the test before it needs no descriptor.
Report(settings, exists, keys, free) ==
    IF ~exists THEN Thrown
    ELSE IF free = 0 THEN [ends |-> "hung", report |-> NoReport, keeps |-> 0]
    ELSE IF \E k \in keys : ~HasKey(settings, k) THEN Thrown
    ELSE [ends |-> "returned", report |-> [k \in keys |-> ReadValue(settings, k)], keeps |-> 0]

\* Of a file, `settings` is what its lines say.
ProcSettings(text) == Settings(text, ":", TRUE)
getcpuinfo(settings, exists, free) == Report(settings, exists, CpuKeys, free)
getmeminfo(settings, exists, free) == Report(settings, exists, MemKeys, free)

getworkloadinfoOpen(settings, exists, readable, free) ==   \* fault: never closed
    IF ~exists \/ free = 0 THEN Thrown
    ELSE IF ~readable THEN [Thrown EXCEPT !.keeps = 1]
    ELSE [getmeminfo(settings, exists, free - 1) EXCEPT !.keeps = 1]

\* Only when /proc/loadavg does not have three numbers is it closed again.
getworkloadinfo(settings, exists, readable, free) ==
    IF ~exists \/ free = 0 \/ ~readable THEN Thrown
    ELSE LET memory == getmeminfo(settings, exists, free - 1)
         IN  [memory EXCEPT !.keeps = 1,
                !.report = IF @ = NoReport THEN @
                           ELSE [k \in {<<"SwapFree">>, <<"MemFree">>} |-> @[k]]]

=============================================================================
