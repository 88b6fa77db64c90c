-------------------------- MODULE LifecycleProofs --------------------------
(***************************************************************************)
(* Proofs about Lifecycle, for any number of starts and of troubles.       *)
(***************************************************************************)
EXTENDS Lifecycle, TLAPS, FiniteSetTheorems

(***************************************************************************)
(* The inductive invariant. A daemon that serves is alone, and so are the  *)
(* commands beside it, which is what Bind needs to see before another one  *)
(* may serve; and it is the daemon process of its start, so that a kill    *)
(* that names another process of the start does not make it go away.       *)
(***************************************************************************)
Alone(i) == serving = {i} /\ commands \subseteq {i} /\ proc[i] = "daemon"

IInv ==
    /\ DOMAIN proc = Starts
    /\ serving = {} \/ \E i \in Starts : Alone(i)

LEMMA InvInit == Init => IInv
  BY DEF Init, IInv

\* Whoever is killed, a daemon that still serves afterwards was not hit.
LEMMA KillKeepsAlone == IInv /\ KillVictims /\ UNCHANGED commands => IInv'
  BY DEF IInv, Alone, KillVictims

LEMMA InvNext == IInv /\ [Next]_vars => IInv'
  <1> SUFFICES ASSUME IInv, [Next]_vars PROVE IInv'
    OBVIOUS
  <1> USE DEF IInv, Alone, Becomes, boot, stop, files
  <1>1. CASE StartByHand BY <1>1 DEF StartByHand, Launch
  <1>2. CASE StopLooks BY <1>2 DEF StopLooks
  <1>3. CASE StopKills BY <1>3, KillKeepsAlone DEF StopKills
  <1>4. CASE Unpack BY <1>4 DEF Unpack
  <1>5. CASE Configure BY <1>5 DEF Configure, Launch
  <1>6. CASE Remove BY <1>6 DEF Remove
  <1>7. CASE PostrmLooks BY <1>7 DEF PostrmLooks
  <1>8. CASE PostrmRemoves BY <1>8 DEF PostrmRemoves
  <1>9. CASE PostrmKills BY <1>9, KillKeepsAlone DEF PostrmKills
  <1>10. CASE PostunLooks BY <1>10 DEF PostunLooks
  <1>11. CASE PostunKills BY <1>11, KillKeepsAlone DEF PostunKills
  <1>12. CASE PostunRemoves BY <1>12 DEF PostunRemoves
  <1>13. ASSUME NEW i \in Starts, Boot(i) PROVE IInv'
    <2>1. CASE Fork1(i) BY <2>1 DEF Fork1
    <2>2. CASE Fork2(i) BY <2>2 DEF Fork2
    <2>3. CASE Bind(i) BY <2>3 DEF Bind
    <2> QED BY <1>13, <2>1, <2>2, <2>3 DEF Boot
  <1>14. ASSUME NEW i \in Starts, Spawn(i) PROVE IInv'
    BY <1>14 DEF Spawn
  <1>15. ASSUME NEW i \in Starts, CommandEnds(i) PROVE IInv'
    BY <1>15 DEF CommandEnds
  <1>16. ASSUME NEW i \in Starts, Crash(i) PROVE IInv'
    BY <1>16 DEF Crash
  <1>17. CASE UNCHANGED vars BY <1>17 DEF vars
  <1> QED BY <1>1, <1>2, <1>3, <1>4, <1>5, <1>6, <1>7, <1>8, <1>9, <1>10, <1>11,
             <1>12, <1>13, <1>14, <1>15, <1>16, <1>17 DEF Next

\* The UDP port has one reader, and no command of another daemon holds the
\* socket beside it, however starts, kills, crashes and the maintainer scripts
\* of either package interleave.
THEOREM PortHasOneReader == Spec => []OneReader
  <1>1. IInv => OneReader
    BY FS_EmptySet, FS_Singleton DEF IInv, Alone, OneReader
  <1> QED BY <1>1, InvInit, InvNext, PTL DEF Spec

-----------------------------------------------------------------------------
(***************************************************************************)
(* InstallLeavesADaemon. Before the package is configured there is no init *)
(* script, so nobody has started anything or serves, and there is nothing  *)
(* a stop could look for (Fresh). From then on, while nothing goes wrong,  *)
(* no kill is under way (Calm), only a process that finds the port taken   *)
(* goes away, and who has the port lives (IInv).                           *)
(***************************************************************************)
Fresh ==
    pkg \in {"absent", "unpacked"} =>
        /\ ~script /\ serving = {} /\ commands = {} /\ caller = "none"
        /\ \A i \in Starts : proc[i] = "unused"
        /\ pkg = "unpacked" => tree

Calm == pkg = "installed" /\ troubles = 0 => caller = "none"

InstallInv == IInv /\ troubles \in Nat /\ Fresh /\ Calm /\ InstallLeavesADaemon

LEMMA InstallInit == Init => InstallInv
  BY InvInit DEF Init, InstallInv, Fresh, Calm, InstallLeavesADaemon

\* Steps by which a process may come, and none goes.
LEMMA NobodyGoes ==
    ASSUME InstallInv, IInv', UNCHANGED <<serving, commands, pkg, caller, troubles>>,
           pkg \notin {"absent", "unpacked"},
           \A i \in Starts : proc[i] \in Living => proc'[i] \in Living
    PROVE  InstallInv'
  BY DEF InstallInv, Fresh, Calm, InstallLeavesADaemon

\* Trouble, and what the package does later.
LEMMA BeyondTheInstallation ==
    ASSUME IInv', troubles' \in Nat,
           pkg' \notin {"absent", "unpacked"}, troubles' > 0 \/ pkg' # "installed"
    PROVE  InstallInv'
  BY DEF InstallInv, Fresh, Calm, InstallLeavesADaemon

LEMMA InstallNext == InstallInv /\ [Next]_vars => InstallInv'
  <1> SUFFICES ASSUME InstallInv, [Next]_vars PROVE InstallInv'
    OBVIOUS
  <1>0. IInv' /\ IInv /\ troubles \in Nat /\ DOMAIN proc = Starts
    BY InvNext DEF InstallInv, IInv
  <1>a. /\ script \/ caller # "none" \/ serving # {} \/ (\E i \in Starts : proc[i] # "unused")
             => pkg \notin {"absent", "unpacked"}
        /\ caller # "none" /\ pkg = "installed" => troubles > 0
    BY <1>0 DEF InstallInv, Fresh, Calm
  <1> USE DEF boot, stop, files
  <1>1. CASE StartByHand
    <2>1. \A i \in Starts : proc[i] \in Living => proc'[i] \in Living
      BY <1>0, <1>1 DEF StartByHand, Launch, Becomes, Living
    <2> QED BY <1>0, <1>1, <1>a, <2>1, NobodyGoes DEF StartByHand
  <1>2. CASE StopLooks
    BY <1>0, <1>2, <1>a, BeyondTheInstallation DEF StopLooks, Trouble
  <1>3. CASE StopKills
    BY <1>0, <1>3, <1>a, BeyondTheInstallation DEF StopKills
  <1>4. CASE Unpack
    BY <1>0, <1>4, BeyondTheInstallation DEF Unpack, InstallInv, Fresh, Calm, InstallLeavesADaemon
  <1>5. CASE Configure
    <2>1. CASE pkg = "unpacked"
      <3>1. /\ pkg' = "installed" /\ commands' = {} /\ caller' = "none" /\ troubles' = troubles
            /\ \E i \in Starts : proc' = [proc EXCEPT ![i] = "called"]
        BY <1>5, <2>1 DEF Configure, Configured, Launch, Becomes, InstallInv, Fresh
      <3>2. \E i \in Starts : proc'[i] \in Living
        BY <1>0, <3>1 DEF Living
      <3> QED BY <1>0, <3>1, <3>2 DEF InstallInv, Fresh, Calm, InstallLeavesADaemon
    <2>2. CASE pkg # "unpacked"
      BY <1>0, <1>5, <2>2, BeyondTheInstallation DEF Configure, Configured
    <2> QED BY <2>1, <2>2
  <1>6. CASE Remove
    BY <1>0, <1>6, BeyondTheInstallation DEF Remove
  <1>7. CASE PostrmLooks \/ PostunLooks
    BY <1>0, <1>7, BeyondTheInstallation DEF PostrmLooks, PostunLooks
  <1>8. CASE PostrmRemoves \/ PostrmKills
    BY <1>0, <1>8, <1>a, BeyondTheInstallation DEF PostrmRemoves, PostrmKills
  <1>9. CASE PostunKills \/ PostunRemoves
    BY <1>0, <1>9, <1>a, BeyondTheInstallation DEF PostunKills, PostunRemoves
  <1>10. ASSUME NEW i \in Starts, Fork1(i) \/ Fork2(i) PROVE InstallInv'
    <2>1. pkg \notin {"absent", "unpacked"}
      BY <1>10, <1>a DEF Fork1, Fork2
    <2>2. CASE troubles' = troubles
      <3>1. \A j \in Starts : proc[j] \in Living => proc'[j] \in Living
        BY <1>0, <1>10, <2>2 DEF Fork1, Fork2, Becomes, Living, Trouble
      <3> QED BY <1>0, <1>10, <2>1, <2>2, <3>1, NobodyGoes DEF Fork1, Fork2
    <2>3. CASE troubles' = troubles + 1
      BY <1>0, <1>10, <2>1, <2>3, BeyondTheInstallation DEF Fork1, Fork2
    <2> QED BY <1>10, <2>2, <2>3 DEF Fork1, Fork2, Trouble
  <1>11. ASSUME NEW i \in Starts, Bind(i) PROVE InstallInv'
    <2>1. /\ pkg \notin {"absent", "unpacked"} /\ i \notin serving /\ proc[i] = "daemon"
          /\ UNCHANGED <<commands, pkg, caller, troubles>>
      BY <1>11, <1>a DEF Bind
    <2>2. CASE serving = {} /\ commands = {}
      BY <1>0, <1>11, <2>1, <2>2 DEF Bind, InstallInv, Fresh, Calm, InstallLeavesADaemon
    <2>3. CASE ~(serving = {} /\ commands = {})
      <3>1. serving' = serving /\ proc' = [proc EXCEPT ![i] = "gone"]
        BY <1>11, <2>3 DEF Bind, Becomes
      <3>2. pkg = "installed" /\ troubles = 0 => \E j \in Starts : proc'[j] \in Living
        <4>1. ASSUME pkg = "installed", troubles = 0 PROVE \E j \in Starts : Alone(j)
          BY <1>0, <2>3, <4>1 DEF InstallInv, InstallLeavesADaemon, IInv
        <4> QED BY <1>0, <2>1, <3>1, <4>1 DEF Alone, Living
      <3> QED BY <1>0, <2>1, <3>1, <3>2 DEF InstallInv, Fresh, Calm, InstallLeavesADaemon
    <2> QED BY <2>2, <2>3
  <1>12. ASSUME NEW i \in Starts, Spawn(i) \/ CommandEnds(i) PROVE InstallInv'
    <2>1. pkg \notin {"absent", "unpacked"}
      BY <1>12, <1>a DEF Spawn, CommandEnds, InstallInv, Fresh
    <2> QED BY <1>0, <1>12, <2>1 DEF Spawn, CommandEnds, InstallInv, Fresh, Calm, InstallLeavesADaemon
  <1>13. ASSUME NEW i \in Starts, Crash(i) PROVE InstallInv'
    BY <1>0, <1>13, <1>a, BeyondTheInstallation DEF Crash, Trouble
  <1>14. CASE UNCHANGED vars
    BY <1>0, <1>14 DEF vars, InstallInv, Fresh, Calm, InstallLeavesADaemon
  <1> QED BY <1>1, <1>2, <1>3, <1>4, <1>5, <1>6, <1>7, <1>8, <1>9, <1>10, <1>11,
             <1>12, <1>13, <1>14 DEF Next, Boot

\* As long as nothing goes wrong outside the scripts, an installation leaves a
\* process that serves or is about to, and the port is not held by a command whose
\* daemon is gone (netutils.cpp:38-44, debian/postinst:19-40, daemon.spec:30-33).
THEOREM InstallationLeavesADaemon == Spec => []InstallLeavesADaemon
  BY InstallInit, InstallNext, PTL DEF Spec, InstallInv
=============================================================================
