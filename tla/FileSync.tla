------------------------------ MODULE FileSync ------------------------------
(***************************************************************************)
(* LAFileSyncCommand::execute: find the share in the mount table or mount  *)
(* it on a fresh directory under /tmp, then copy what is there. Commands   *)
(* run one after the other; the administrator mounts and unmounts between  *)
(* any two steps, and /tmp/mountdir-* directories are never removed.       *)
(*                                                                         *)
(* A share stands for its location "host:dir". The lookup is `mount | grep *)
(* 'location'`, so it also finds every mount whose line contains the       *)
(* location as a substring: the relation Found.                            *)
(***************************************************************************)
EXTENDS Naturals, SequencesExt

CONSTANTS
    Shares,
    Found,        \* <<loc, s>>: grep for loc finds the line of a mount of s
    TempNames,    \* the names mktemp can make of /tmp/mountdir-XXXXXX
    AdminDir,     \* where the administrator mounts shares
    Root,         \* what lies at "/"
    MaxSyncs,     \* bound: file synchronisation commands
    MaxAdmin      \* bound: steps of the administrator

ASSUME FileSyncAssumption ==
    /\ Found \subseteq Shares \X Shares
    /\ \A s \in Shares : <<s, s>> \in Found
    /\ "" \notin TempNames /\ AdminDir \notin TempNames /\ Root \notin Shares

VARIABLES
    mounts,     \* the mount table, oldest first: [share, at, by]; by is "admin",
                \* "daemon", or "blind": the daemon, whose lookup had failed
    dirs,       \* the /tmp/mountdir-* directories that exist
    phase,      \* the next statement of execute()
    loc,        \* nfsdir of the current command
    tempdir,    \* its local variable of that name; "" when empty
    got,        \* what the last copy copied ("nothing" if cp failed)
    lookup,     \* history: "failed" if grep could not say that there is a mount,
                \* "stale" if awk could not say where, else "sound"
    syncs,      \* commands started
    admin       \* steps the administrator took

vars == <<mounts, dirs, phase, loc, tempdir, got, lookup, syncs, admin>>

Init ==
    /\ mounts = <<>> /\ dirs = {} /\ phase = "idle"
    /\ loc \in Shares /\ tempdir = "" /\ got = "nothing" /\ lookup = "sound"
    /\ syncs = 0 /\ admin = 0

\* The lines of the mount table that grep prints for a location.
Lines(l) == {i \in 1..Len(mounts) : <<l, mounts[i].share>> \in Found}

\* The mount that is visible at a directory is the newest one there.
At(d) == {i \in 1..Len(mounts) : mounts[i].at = d}
Visible(d) == mounts[CHOOSE i \in At(d) : \A j \in At(d) : j <= i].share

(***************************************************************************)
(* The administrator.                                                      *)
(***************************************************************************)
AdminMount ==
    /\ admin < MaxAdmin /\ admin' = admin + 1
    /\ \E s \in Shares :
          mounts' = Append(mounts, [share |-> s, at |-> AdminDir, by |-> "admin"])
    /\ UNCHANGED <<dirs, phase, loc, tempdir, got, lookup, syncs>>

AdminUmount ==
    /\ admin < MaxAdmin /\ admin' = admin + 1
    /\ \E i \in 1..Len(mounts) : mounts' = RemoveAt(mounts, i)
    /\ UNCHANGED <<dirs, phase, loc, tempdir, got, lookup, syncs>>

(***************************************************************************)
(* One command. A fault comes before the definition it can replace.        *)
(***************************************************************************)
Start ==
    /\ phase = "idle" /\ syncs < MaxSyncs
    /\ loc' \in Shares
    /\ tempdir' = "" /\ got' = "nothing" /\ lookup' = "sound"
    /\ syncs' = syncs + 1
    /\ phase' = "grep"
    /\ UNCHANGED <<mounts, dirs, admin>>

GrepTrusted ==                             \* Grep: takes the share for unmounted
    /\ phase = "grep"
    /\ phase' = "mktemp"
    /\ UNCHANGED <<mounts, dirs, loc, tempdir, got, lookup, syncs, admin>>

\* is_nfs_mounted, first command: is there a line at all? Any status of the
\* shell but 0 means no, also that no process could be made for it.
Grep ==
    /\ phase = "grep"
    /\ \/ Lines(loc) # {} /\ phase' = "awk" /\ UNCHANGED lookup
       \/ /\ phase' = "mktemp"
          /\ lookup' = IF Lines(loc) = {} THEN lookup ELSE "failed"
    /\ UNCHANGED <<mounts, dirs, loc, tempdir, got, syncs, admin>>

AwkAnyLine ==                              \* Awk: the newest mount, grep forgotten
    /\ phase = "awk" /\ mounts # <<>>
    /\ tempdir' = mounts[Len(mounts)].at
    /\ phase' = "copy"
    /\ UNCHANGED <<mounts, dirs, loc, got, lookup, syncs, admin>>

\* is_nfs_mounted, second command: the mount point on the first line printed.
Awk ==
    /\ phase = "awk" /\ Lines(loc) # {}
    /\ tempdir' = mounts[CHOOSE i \in Lines(loc) : \A j \in Lines(loc) : i <= j].at
    /\ phase' = "copy"
    /\ UNCHANGED <<mounts, dirs, loc, got, lookup, syncs, admin>>

\* The mount went away since grep, or the command failed: fgets leaves the
\* buffer as it was, and is_nfs_mounted returns whatever path it held, less its
\* last character, or throws out of execute() if it held none (then the length
\* is -1); without a pipe to read from the process crashes.
AwkStale ==
    /\ phase = "awk"
    /\ lookup' = "stale"
    /\ \/ tempdir' \in TempNames \cup {AdminDir, "", "elsewhere"} /\ phase' = "copy"
       \/ phase' = "aborted" /\ UNCHANGED tempdir
    /\ UNCHANGED <<mounts, dirs, loc, got, syncs, admin>>

CreateTempDirReused ==                     \* CreateTempDir: a name that exists
    /\ phase = "mktemp"
    /\ \E d \in TempNames : tempdir' = d /\ dirs' = dirs \cup {d}
    /\ phase' = "mount"
    /\ UNCHANGED <<mounts, loc, got, lookup, syncs, admin>>

\* create_temp_dir. Its result is ignored: mktemp without a free name leaves
\* the name empty, a failing mkdir leaves a name without a directory.
CreateTempDir ==
    /\ phase = "mktemp"
    /\ IF dirs = TempNames
         THEN tempdir' = "" /\ UNCHANGED dirs
         ELSE \E d \in TempNames \ dirs :
                 tempdir' = d /\ (dirs' = dirs \cup {d} \/ UNCHANGED dirs)
    /\ phase' = "mount"
    /\ UNCHANGED <<mounts, loc, got, lookup, syncs, admin>>

\* mount_nfs. Its result is ignored, and so is that of the mount command.
MountNfs ==
    /\ phase = "mount"
    /\ \/ /\ tempdir \in dirs
          /\ mounts' = Append(mounts, [share |-> loc, at |-> tempdir,
                by |-> IF lookup = "failed" THEN "blind" ELSE "daemon"])
       \/ UNCHANGED mounts
    /\ phase' = "copy"
    /\ UNCHANGED <<dirs, loc, tempdir, got, lookup, syncs, admin>>

\* cp -r tempdir/* ./syncdir: with an empty tempdir that is everything from /.
\* An empty or missing directory has no files for cp, which fails.
Source(d) ==
    IF d = "" THEN Root ELSE IF At(d) = {} THEN "nothing" ELSE Visible(d)
Copy ==
    /\ phase = "copy"
    /\ got' \in {Source(tempdir), "nothing"}
    /\ phase' = "idle"
    /\ UNCHANGED <<mounts, dirs, loc, tempdir, lookup, syncs, admin>>

Next == \/ AdminMount \/ AdminUmount
        \/ Start \/ Grep \/ Awk \/ AwkStale \/ CreateTempDir \/ MountNfs \/ Copy

Spec == Init /\ [][Next]_vars
-----------------------------------------------------------------------------
(***************************************************************************)
(* Properties.                                                             *)
(***************************************************************************)
\* However many requests arrive and whatever the administrator unmounts in
\* between, the daemon mounts a share of which it has a mount only when the
\* command that looks for it failed (command.cpp:36-44): the mounts of a share
\* do not pile up.
OneMountPerShare ==
    \A i, j \in 1..Len(mounts) :
        /\ i < j /\ mounts[i].share = mounts[j].share
        /\ mounts[i].by # "admin" /\ mounts[j].by # "admin"
        => mounts[j].by = "blind"

\* A mount of the daemon's own lies on an existing directory that carries no
\* other mount, so a path once found keeps showing the same share.
OwnMountPoints ==
    \A i \in 1..Len(mounts) : mounts[i].by # "admin" =>
        mounts[i].at \in dirs /\ At(mounts[i].at) = {i}

\* What is copied is the share that was asked for, or one whose line in the
\* mount table contains its location, though mounts come and go between grep,
\* awk, mount and cp. Exceptions: a mount that vanished between the two looks
\* at the table or a second look that failed, a directory the administrator
\* mounts on, and, when mktemp has no name left, the root file system.
CopiesTheShare ==
    phase = "idle" /\ got # "nothing" /\ lookup # "stale" =>
        \/ <<loc, got>> \in Found
        \/ tempdir = AdminDir
        \/ got = Root /\ tempdir = "" /\ dirs = TempNames
=============================================================================
