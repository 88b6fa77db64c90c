---------------------------- MODULE MCController ----------------------------
(***************************************************************************)
(* Controller over the lengths of MCWireFormat and files that are good,    *)
(* lack a key, repeat one, or have one in a comment.                       *)
(***************************************************************************)
EXTENDS Controller

Text(c, n) == [i \in 1..n |-> c]

MCChar == {"h", "d", "x"}
\* 240 characters fill the buffer behind the header.
MCDestLists == {Text("h", n) : n \in {0, 1, 40, 139, 140, 239, 240, 241, 300}}
MCDirs == {Text("d", n) : n \in {1, 8, 100, 238, 239, 240}}
\* A NUL at once, after one stale byte, and after many.
MCHeaps == {Text("x", n) \o Text("0", 70 - n) : n \in {0, 1, 61}}

MCLetters == {"device", "syncdir", "loglevel"}
MCWords == MCLetters \cup {"eth0", "eth1", "eth2", "srv", "/srv"}
MCDevices == {<<"eth0">>, <<"eth1">>}

\* etc/lasync.conf as it is shipped, and what an editor may make of it.
Device(d) == <<"device", "sp", "=", "sp", "'", d, "'">>
Dir == <<"syncdir", "sp", "=", "sp", "'", "syncdir", "'">>
Comment == <<"#", "sp", "device", "sp", "=", "sp", "'", "eth0", "'">>
Shipped == <<Comment, Device("eth1"), Dir, <<>> >>
MCTexts == {
    Shipped,
    <<Device("eth2"), <<"sp">>, <<"syncdir", "=", "'", "/srv", "'", "sp", "#">> >>,
    <<Dir, <<"sp", "#", "device", "=", "'", "eth0", "'">> >>,
    <<Device("eth1"), Dir, <<"sp">> \o Comment>>,
    <<Device("eth1"), <<"syncdir", "=", "srv">>, Dir>>,
    <<Device("eth0")>>}

ASSUME GoodTextsAssumption == OneSettingALine

\* Lengths matter behind a request that is built, so all of them go with the
\* shipped file and a device that has its address, all else with one length.
MCInit ==
    /\ CtlInit
    /\ \/ Len(dest) = 40 /\ Len(dir) = 8
       \/ conf = Shipped /\ nic = [d \in Devices |-> IF d = <<"eth1">> THEN "netA" ELSE "none"]
MCSpec == MCInit /\ [][CtlNext]_allVars
=============================================================================
