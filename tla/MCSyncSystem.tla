---------------------------- MODULE MCSyncSystem ----------------------------
(***************************************************************************)
(* SyncSystem with two runs of lasync and one host; "h2" is another one.   *)
(***************************************************************************)
EXTENDS SyncSystem

Opt(o) == [opt |-> o, val |-> {}]
To(s) == [opt |-> "m", val |-> s]

\* Options in an odd order with a repeated -m, a request for another host, and
\* one with -h.
MCArgLists == {
    <<To({"h2"}), Opt("pkg"), Opt("file"), To({"h1"})>>,
    <<Opt("update"), To({"h2"})>>,
    <<Opt("update"), Opt("h")>>}

\* The two directories are interchangeable: run 1 has "sync", which starts with
\* a package list; the other has none. EditFiles leaves any.
MCInit ==
    /\ Init /\ dirOf[1] = "sync"
    /\ has = [sync |-> {"pkg.lst"}, other |-> {}]
MCSpec == MCInit /\ [][Next]_vars
=============================================================================
