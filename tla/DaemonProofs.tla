---------------------------- MODULE DaemonProofs ----------------------------
(***************************************************************************)
(* Proofs about Daemon, for every value of its constants.                  *)
(***************************************************************************)
EXTENDS Daemon, TLAPS, SequenceTheorems

-----------------------------------------------------------------------------
(* Sequences, as far as the queue needs them.                              *)

LEMMA AppendConcat ==
    ASSUME NEW S, NEW s \in Seq(S), NEW e \in S
    PROVE  Append(s, e) = s \o <<e>> /\ <<e>> \in Seq(S)
  OBVIOUS

LEMMA SplitHead ==
    ASSUME NEW S, NEW s \in Seq(S), s # <<>>
    PROVE  Head(s) \in S /\ Tail(s) \in Seq(S) /\ <<Head(s)>> \o Tail(s) = s
  OBVIOUS

\* Moving the head of u to the end of t changes nothing in t \o u.
LEMMA MoveHead ==
    ASSUME NEW S, NEW t \in Seq(S), NEW u \in Seq(S), u # <<>>
    PROVE  Append(t, Head(u)) \o Tail(u) = t \o u
  <1>1. Head(u) \in S /\ Tail(u) \in Seq(S) /\ <<Head(u)>> \o Tail(u) = u
    BY SplitHead
  <1>2. Append(t, Head(u)) = t \o <<Head(u)>> /\ <<Head(u)>> \in Seq(S)
    BY <1>1, AppendConcat
  <1>3. (t \o <<Head(u)>>) \o Tail(u) = t \o (<<Head(u)>> \o Tail(u))
    BY <1>1, <1>2, ConcatAssociative
  <1> QED BY <1>1, <1>2, <1>3

\* A message's batch is a sequence of commands.
LEMMA BatchType ==
    ASSUME NEW m \in Msg
    PROVE  BatchOf(m) \in Seq(Command)
  <1> DEFINE If(bit) == IF bit \in m.sig THEN <<[id |-> m.id, kind |-> bit]>> ELSE <<>>
             Cmd(k) == [id |-> m.id, kind |-> k]
  <1>1. \A k \in Kinds : Cmd(k) \in Command
    BY DEF Msg, Command
  <1>2. \A k \in Kinds : <<Cmd(k)>> \in Seq(Command) /\ If(k) \in Seq(Command)
    BY <1>1
  <1> HIDE DEF If, Cmd
  <1>3. If("file") \o If("pkg") \o If("update") \o <<Cmd("script")>> \in Seq(Command)
    BY <1>2, ConcatProperties DEF Kinds
  <1> QED BY <1>3 DEF BatchOf, If, Cmd

-----------------------------------------------------------------------------
(***************************************************************************)
(* The inductive invariant. Beyond the properties it strengthens:          *)
(*   InHand    what each thread holds at each of its statements;           *)
(*   ExitPath  an exit() in progress, or the freed executer, means that    *)
(*             some thread sits inside exit() - with the mutex, since exit *)
(*             is among the statements of HeldMutex;                       *)
(*   Asleep    between its signal and its unlock the main thread knows     *)
(*             that the executor thread is not waiting, and at any other   *)
(*             time without the main thread inside, waiting means empty.   *)
(***************************************************************************)
InHand ==
    /\ mpc # "recv" => msg \in Msg
    /\ todo # <<>> => mpc = "push"
    /\ epc \in {"execute", "pop", "delete"} => cur \in Command
    /\ epc \in {"execute", "pop"} => queue # <<>> /\ Head(queue) = cur

ExitPath ==
    /\ InExit => proc # "up"
    /\ proc = "exiting" => InExit
    /\ executer = "freed" => InExit

Asleep ==
    /\ epc = "waiting" /\ mutex # "main" => queue = <<>>
    /\ mpc = "unlock" => epc # "waiting"

IInv == TypeOK /\ HeldMutex /\ InHand /\ ExitPath /\ Asleep

LEMMA TypeInit == Init => TypeOK
  BY BoundsAssumption DEF Init, TypeOK, MainPCs, ExecPCs

LEMMA TypeNext == TypeOK /\ InHand /\ [Next]_vars => TypeOK'
  <1> SUFFICES ASSUME TypeOK, InHand, [Next]_vars PROVE TypeOK'
    OBVIOUS
  <1> USE DEF TypeOK, MainPCs, ExecPCs, mainVars, execVars, shared, history
  <1>1. CASE Arrive
    <2>1. arrived + 1 \in 1..MaxMsgs
      BY <1>1, BoundsAssumption DEF Arrive
    <2>2. ASSUME NEW s \in Signals, NEW d \in Dests, Len(sock) < SockCap,
                 sock' = Append(sock, [id |-> arrived + 1, sig |-> s, dest |-> d])
          PROVE  sock' \in Seq(Msg) /\ Len(sock') <= SockCap
      BY <2>1, <2>2, BoundsAssumption DEF Msg
    <2>3. sock' \in Seq(Msg) /\ Len(sock') <= SockCap
      BY <1>1, <2>2 DEF Arrive
    <2> QED BY <1>1, <2>1, <2>3, BoundsAssumption DEF Arrive
  <1>2. CASE SpuriousWakeup BY <1>2, BoundsAssumption DEF SpuriousWakeup
  <1>3. CASE Kill BY <1>3 DEF Kill
  <1>4. CASE Main
    <2>1. CASE MainRecv
      <3>1. Head(sock) \in Msg /\ Tail(sock) \in Seq(Msg) /\ Len(Tail(sock)) = Len(sock) - 1
        BY <2>1, HeadTailProperties DEF MainRecv
      <3>2. Len(sock) \in Nat
        BY LenProperties
      <3> QED BY <2>1, <3>1, <3>2, BoundsAssumption DEF MainRecv
    <2>2. CASE MainLock BY <2>2 DEF MainLock
    <2>3. CASE MainAccept
      <3>1. BatchOf(msg) \in Seq(Command)
        BY <2>3, BatchType DEF MainAccept, InHand
      <3>2. accepted \o BatchOf(msg) \in Seq(Command)
        BY <3>1, ConcatProperties
      <3> QED BY <2>3, <3>1, <3>2 DEF MainAccept
    <2>4. CASE MainSkip BY <2>4 DEF MainSkip
    <2>5. CASE MainExit BY <2>5 DEF MainExit
    <2>6. CASE MainAbort BY <2>6 DEF MainAbort
    <2>11. CASE MainSpin BY <2>11 DEF MainSpin
    <2>7. CASE MainPush
      <3>1. Head(todo) \in Command /\ Tail(todo) \in Seq(Command)
        BY <2>7, HeadTailProperties DEF MainPush
      <3> QED BY <2>7, <3>1 DEF MainPush
    <2>8. CASE MainPushed BY <2>8 DEF MainPushed
    <2>9. CASE MainSignal BY <2>9 DEF MainSignal
    <2>10. CASE MainUnlock BY <2>10 DEF MainUnlock
    <2> QED BY <1>4, <2>1, <2>2, <2>3, <2>4, <2>5, <2>6, <2>7, <2>8, <2>9, <2>10, <2>11 DEF Main
  <1>5. CASE Exec
    <2>1. CASE ExecLock BY <2>1 DEF ExecLock
    <2>2. CASE ExecFirst
      <3>1. Head(queue) \in Command
        BY <2>2, HeadTailProperties DEF ExecFirst
      <3> QED BY <2>2, <3>1 DEF ExecFirst
    <2>3. CASE ExecWait BY <2>3 DEF ExecWait
    <2>4. CASE ExecDone
      <3>1. Append(done, cur) \in Seq(Command)
        BY <2>4 DEF ExecDone, InHand
      <3> QED BY <2>4, <3>1 DEF ExecDone
    <2>5. CASE ExecExit BY <2>5 DEF ExecExit
    <2>6. CASE ExecAbort BY <2>6 DEF ExecAbort
    <2>11. CASE ExecSpin BY <2>11 DEF ExecSpin
    <2>7. CASE ExecPop
      <3>1. Tail(queue) \in Seq(Command)
        BY <2>7, HeadTailProperties DEF ExecPop, InHand
      <3> QED BY <2>7, <3>1 DEF ExecPop
    <2>8. CASE ExecDelete BY <2>8 DEF ExecDelete
    <2>9. CASE ExecReacquire BY <2>9 DEF ExecReacquire
    <2>10. CASE ExecUnlock BY <2>10 DEF ExecUnlock
    <2> QED BY <1>5, <2>1, <2>2, <2>3, <2>4, <2>5, <2>6, <2>7, <2>8, <2>9, <2>10, <2>11 DEF Exec
  <1>6. CASE Cleanup BY <1>6 DEF Cleanup
  <1>7. CASE Terminate BY <1>7 DEF Terminate
  <1>8. CASE UNCHANGED vars BY <1>8 DEF vars
  <1> QED BY <1>1, <1>2, <1>3, <1>4, <1>5, <1>6, <1>7, <1>8 DEF Next

LEMMA MutexNext == TypeOK /\ HeldMutex /\ [Next]_vars => HeldMutex'
  <1> SUFFICES ASSUME TypeOK, HeldMutex, [Next]_vars PROVE HeldMutex'
    OBVIOUS
  <1> USE DEF HeldMutex, MainHolds, ExecHolds, mainVars, execVars, shared, history
  <1>1. CASE Arrive BY <1>1 DEF Arrive
  <1>2. CASE SpuriousWakeup BY <1>2 DEF SpuriousWakeup
  <1>3. CASE Kill BY <1>3 DEF Kill
  <1>4. CASE Main
    <2>1. CASE MainRecv BY <2>1 DEF MainRecv
    <2>2. CASE MainLock BY <2>2 DEF MainLock
    <2>3. CASE MainAccept BY <2>3 DEF MainAccept
    <2>4. CASE MainSkip BY <2>4 DEF MainSkip
    <2>5. CASE MainExit BY <2>5 DEF MainExit
    <2>6. CASE MainAbort BY <2>6 DEF MainAbort
    <2>11. CASE MainSpin BY <2>11 DEF MainSpin
    <2>7. CASE MainPush BY <2>7 DEF MainPush
    <2>8. CASE MainPushed BY <2>8 DEF MainPushed
    <2>9. CASE MainSignal BY <2>9 DEF MainSignal
    <2>10. CASE MainUnlock BY <2>10 DEF MainUnlock
    <2> QED BY <1>4, <2>1, <2>2, <2>3, <2>4, <2>5, <2>6, <2>7, <2>8, <2>9, <2>10, <2>11 DEF Main
  <1>5. CASE Exec
    <2>1. CASE ExecLock BY <2>1 DEF ExecLock
    <2>2. CASE ExecFirst BY <2>2 DEF ExecFirst
    <2>3. CASE ExecWait BY <2>3 DEF ExecWait
    <2>4. CASE ExecDone BY <2>4 DEF ExecDone
    <2>5. CASE ExecExit BY <2>5 DEF ExecExit
    <2>6. CASE ExecAbort BY <2>6 DEF ExecAbort
    <2>11. CASE ExecSpin BY <2>11 DEF ExecSpin
    <2>7. CASE ExecPop BY <2>7 DEF ExecPop
    <2>8. CASE ExecDelete BY <2>8 DEF ExecDelete
    <2>9. CASE ExecReacquire BY <2>9 DEF ExecReacquire
    <2>10. CASE ExecUnlock BY <2>10 DEF ExecUnlock
    <2> QED BY <1>5, <2>1, <2>2, <2>3, <2>4, <2>5, <2>6, <2>7, <2>8, <2>9, <2>10, <2>11 DEF Exec
  <1>6. CASE Cleanup BY <1>6 DEF Cleanup
  <1>7. CASE Terminate BY <1>7 DEF Terminate
  <1>8. CASE UNCHANGED vars BY <1>8 DEF vars
  <1> QED BY <1>1, <1>2, <1>3, <1>4, <1>5, <1>6, <1>7, <1>8 DEF Next

LEMMA ExitNext == HeldMutex /\ ExitPath /\ [Next]_vars => ExitPath'
  <1> SUFFICES ASSUME HeldMutex, ExitPath, [Next]_vars PROVE ExitPath'
    OBVIOUS
  <1> USE DEF ExitPath, InExit, HeldMutex, MainHolds, ExecHolds,
              mainVars, execVars, shared, history, Running
  <1>1. CASE Arrive BY <1>1 DEF Arrive
  <1>2. CASE SpuriousWakeup BY <1>2 DEF SpuriousWakeup
  <1>3. CASE Kill BY <1>3 DEF Kill
  <1>4. CASE Main
    <2>1. CASE MainRecv BY <2>1 DEF MainRecv
    <2>2. CASE MainLock BY <2>2 DEF MainLock
    <2>3. CASE MainAccept BY <2>3 DEF MainAccept
    <2>4. CASE MainSkip BY <2>4 DEF MainSkip
    <2>5. CASE MainExit BY <2>5 DEF MainExit
    <2>6. CASE MainAbort BY <2>6 DEF MainAbort
    <2>11. CASE MainSpin BY <2>11 DEF MainSpin
    <2>7. CASE MainPush BY <2>7 DEF MainPush
    <2>8. CASE MainPushed BY <2>8 DEF MainPushed
    <2>9. CASE MainSignal BY <2>9 DEF MainSignal
    <2>10. CASE MainUnlock BY <2>10 DEF MainUnlock
    <2> QED BY <1>4, <2>1, <2>2, <2>3, <2>4, <2>5, <2>6, <2>7, <2>8, <2>9, <2>10, <2>11 DEF Main
  <1>5. CASE Exec
    <2>1. CASE ExecLock BY <2>1 DEF ExecLock
    <2>2. CASE ExecFirst BY <2>2 DEF ExecFirst
    <2>3. CASE ExecWait BY <2>3 DEF ExecWait
    <2>4. CASE ExecDone BY <2>4 DEF ExecDone
    <2>5. CASE ExecExit BY <2>5 DEF ExecExit
    <2>6. CASE ExecAbort BY <2>6 DEF ExecAbort
    <2>11. CASE ExecSpin BY <2>11 DEF ExecSpin
    <2>7. CASE ExecPop BY <2>7 DEF ExecPop
    <2>8. CASE ExecDelete BY <2>8 DEF ExecDelete
    <2>9. CASE ExecReacquire BY <2>9 DEF ExecReacquire
    <2>10. CASE ExecUnlock BY <2>10 DEF ExecUnlock
    <2> QED BY <1>5, <2>1, <2>2, <2>3, <2>4, <2>5, <2>6, <2>7, <2>8, <2>9, <2>10, <2>11 DEF Exec
  <1>6. CASE Cleanup BY <1>6 DEF Cleanup
  <1>7. CASE Terminate BY <1>7 DEF Terminate
  <1>8. CASE UNCHANGED vars BY <1>8 DEF vars
  <1> QED BY <1>1, <1>2, <1>3, <1>4, <1>5, <1>6, <1>7, <1>8 DEF Next

LEMMA AsleepNext == HeldMutex /\ Asleep /\ [Next]_vars => Asleep'
  <1> SUFFICES ASSUME HeldMutex, Asleep, [Next]_vars PROVE Asleep'
    OBVIOUS
  <1> USE DEF Asleep, HeldMutex, MainHolds, ExecHolds,
              mainVars, execVars, shared, history
  <1>1. CASE Arrive BY <1>1 DEF Arrive
  <1>2. CASE SpuriousWakeup BY <1>2 DEF SpuriousWakeup
  <1>3. CASE Kill BY <1>3 DEF Kill
  <1>4. CASE Main
    <2>1. CASE MainRecv BY <2>1 DEF MainRecv
    <2>2. CASE MainLock BY <2>2 DEF MainLock
    <2>3. CASE MainAccept BY <2>3 DEF MainAccept
    <2>4. CASE MainSkip BY <2>4 DEF MainSkip
    <2>5. CASE MainExit BY <2>5 DEF MainExit
    <2>6. CASE MainAbort BY <2>6 DEF MainAbort
    <2>11. CASE MainSpin BY <2>11 DEF MainSpin
    <2>7. CASE MainPush BY <2>7 DEF MainPush
    <2>8. CASE MainPushed BY <2>8 DEF MainPushed
    <2>9. CASE MainSignal BY <2>9 DEF MainSignal
    <2>10. CASE MainUnlock BY <2>10 DEF MainUnlock
    <2> QED BY <1>4, <2>1, <2>2, <2>3, <2>4, <2>5, <2>6, <2>7, <2>8, <2>9, <2>10, <2>11 DEF Main
  <1>5. CASE Exec
    <2>1. CASE ExecLock BY <2>1 DEF ExecLock
    <2>2. CASE ExecFirst BY <2>2 DEF ExecFirst
    <2>3. CASE ExecWait BY <2>3 DEF ExecWait
    <2>4. CASE ExecDone BY <2>4 DEF ExecDone
    <2>5. CASE ExecExit BY <2>5 DEF ExecExit
    <2>6. CASE ExecAbort BY <2>6 DEF ExecAbort
    <2>11. CASE ExecSpin BY <2>11 DEF ExecSpin
    <2>7. CASE ExecPop BY <2>7 DEF ExecPop
    <2>8. CASE ExecDelete BY <2>8 DEF ExecDelete
    <2>9. CASE ExecReacquire BY <2>9 DEF ExecReacquire
    <2>10. CASE ExecUnlock BY <2>10 DEF ExecUnlock
    <2> QED BY <1>5, <2>1, <2>2, <2>3, <2>4, <2>5, <2>6, <2>7, <2>8, <2>9, <2>10, <2>11 DEF Exec
  <1>6. CASE Cleanup BY <1>6 DEF Cleanup
  <1>7. CASE Terminate BY <1>7 DEF Terminate
  <1>8. CASE UNCHANGED vars BY <1>8 DEF vars
  <1> QED BY <1>1, <1>2, <1>3, <1>4, <1>5, <1>6, <1>7, <1>8 DEF Next

LEMMA InHandNext == TypeOK /\ HeldMutex /\ InHand /\ [Next]_vars => InHand'
  <1> SUFFICES ASSUME TypeOK, HeldMutex, InHand, [Next]_vars PROVE InHand'
    OBVIOUS
  <1> USE DEF InHand, HeldMutex, MainHolds, ExecHolds,
              mainVars, execVars, shared, history
  <1>1. CASE Arrive BY <1>1 DEF Arrive
  <1>2. CASE SpuriousWakeup BY <1>2 DEF SpuriousWakeup
  <1>3. CASE Kill BY <1>3 DEF Kill
  <1>4. CASE Main
    <2>1. CASE MainRecv
      <3>1. Head(sock) \in Msg
        BY <2>1, HeadTailProperties DEF MainRecv, TypeOK
      <3> QED BY <2>1, <3>1 DEF MainRecv
    <2>2. CASE MainLock BY <2>2 DEF MainLock
    <2>3. CASE MainAccept BY <2>3 DEF MainAccept
    <2>4. CASE MainSkip BY <2>4 DEF MainSkip
    <2>5. CASE MainExit BY <2>5 DEF MainExit
    <2>6. CASE MainAbort BY <2>6 DEF MainAbort
    <2>11. CASE MainSpin BY <2>11 DEF MainSpin
    <2>7. CASE MainPush
      <3>1. epc \notin {"execute", "pop", "delete"}
        BY <2>7 DEF MainPush
      <3> QED BY <2>7, <3>1 DEF MainPush
    <2>8. CASE MainPushed BY <2>8 DEF MainPushed
    <2>9. CASE MainSignal BY <2>9 DEF MainSignal
    <2>10. CASE MainUnlock BY <2>10 DEF MainUnlock
    <2> QED BY <1>4, <2>1, <2>2, <2>3, <2>4, <2>5, <2>6, <2>7, <2>8, <2>9, <2>10, <2>11 DEF Main
  <1>5. CASE Exec
    <2>1. CASE ExecLock BY <2>1 DEF ExecLock
    <2>2. CASE ExecFirst
      <3>1. Head(queue) \in Command
        BY <2>2, HeadTailProperties DEF ExecFirst, TypeOK
      <3> QED BY <2>2, <3>1 DEF ExecFirst
    <2>3. CASE ExecWait BY <2>3 DEF ExecWait
    <2>4. CASE ExecDone BY <2>4 DEF ExecDone
    <2>5. CASE ExecExit BY <2>5 DEF ExecExit
    <2>6. CASE ExecAbort BY <2>6 DEF ExecAbort
    <2>11. CASE ExecSpin BY <2>11 DEF ExecSpin
    <2>7. CASE ExecPop BY <2>7 DEF ExecPop
    <2>8. CASE ExecDelete BY <2>8 DEF ExecDelete
    <2>9. CASE ExecReacquire BY <2>9 DEF ExecReacquire
    <2>10. CASE ExecUnlock BY <2>10 DEF ExecUnlock
    <2> QED BY <1>5, <2>1, <2>2, <2>3, <2>4, <2>5, <2>6, <2>7, <2>8, <2>9, <2>10, <2>11 DEF Exec
  <1>6. CASE Cleanup BY <1>6 DEF Cleanup
  <1>7. CASE Terminate BY <1>7 DEF Terminate
  <1>8. CASE UNCHANGED vars BY <1>8 DEF vars
  <1> QED BY <1>1, <1>2, <1>3, <1>4, <1>5, <1>6, <1>7, <1>8 DEF Next

LEMMA InvInit == Init => IInv
  <1> SUFFICES ASSUME Init PROVE IInv
    OBVIOUS
  <1>1. TypeOK
    BY TypeInit
  <1>2. HeldMutex /\ InHand /\ ExitPath /\ Asleep
    BY DEF Init, HeldMutex, MainHolds, ExecHolds, InHand, ExitPath, InExit, Asleep
  <1> QED BY <1>1, <1>2 DEF IInv

LEMMA InvNext == IInv /\ [Next]_vars => IInv'
  BY TypeNext, MutexNext, ExitNext, AsleepNext, InHandNext DEF IInv

\* The invariant holds in every reachable state.
LEMMA Invariant == Spec => []IInv
  BY InvInit, InvNext, PTL DEF Spec

-----------------------------------------------------------------------------
(***************************************************************************)
(* What the invariant gives at once.                                       *)
(***************************************************************************)
\* Every variable keeps its type; the receive buffer keeps its bound.
THEOREM TypeCorrect == Spec => []TypeOK
  <1>1. IInv => TypeOK BY DEF IInv
  <1> QED BY <1>1, Invariant, PTL

\* g_mutex excludes the two threads from the shared executer, also around
\* pthread_cond_wait, and the executor thread never looks at half a batch.
THEOREM MutexCorrect == Spec => []MutexDiscipline
  <1>1. IInv => MutexDiscipline
    BY DEF IInv, HeldMutex, MainHolds, ExecHolds, InHand, MutexDiscipline
  <1> QED BY <1>1, Invariant, PTL

\* No thread uses the executer after cleanup() freed it: exit() is only
\* called with the mutex held, so the other thread is outside.
THEOREM FreedIsUnused == Spec => []NoUseAfterFree
  <1>1. IInv => NoUseAfterFree
    BY DEF IInv, HeldMutex, MainHolds, ExecHolds, ExitPath, InExit, NoUseAfterFree
  <1> QED BY <1>1, Invariant, PTL

\* The executor thread never waits beside a non-empty queue.
THEOREM WakeupsAreKept == Spec => []NoLostWakeup
  <1>1. IInv => NoLostWakeup
    BY DEF IInv, Asleep, NoLostWakeup
  <1> QED BY <1>1, Invariant, PTL

\* The statements at which a thread can block: recvfrom without a datagram, a
\* lock that another holds, a wait without a signal. (RestsOnlyWhenIdle says
\* with ENABLED that there are no others.)
MainBlocks == (mpc = "recv" /\ sock = <<>>) \/ (mpc = "lock" /\ mutex # "free")
ExecBlocks == epc = "waiting" \/ (epc \in {"lock", "woken"} /\ mutex # "free")
Idle == mpc = "recv" /\ sock = <<>> /\ epc = "waiting" /\ queue = <<>> /\ todo = <<>>

\* There is no deadlock: if both threads block, the one waits for a datagram and
\* the other for work, and there is none.
THEOREM NoDeadlock == Spec => [](MainBlocks /\ ExecBlocks => Idle)
  <1>1. ASSUME IInv, MainBlocks, ExecBlocks PROVE Idle
    <2>1. mutex = "free"
      <3>1. mpc \notin MainHolds /\ epc \notin ExecHolds
        BY <1>1 DEF MainBlocks, ExecBlocks, MainHolds, ExecHolds
      <3> QED BY <1>1, <3>1 DEF IInv, HeldMutex, TypeOK
    <2>2. mpc = "recv" /\ sock = <<>> /\ epc = "waiting"
      BY <1>1, <2>1 DEF MainBlocks, ExecBlocks
    <2>3. queue = <<>>
      BY <1>1, <2>1, <2>2 DEF IInv, Asleep
    <2>4. todo = <<>>
      BY <1>1, <2>2 DEF IInv, InHand
    <2> QED BY <2>2, <2>3, <2>4 DEF Idle
  <1>2. IInv => (MainBlocks /\ ExecBlocks => Idle)
    BY <1>1
  <1> QED BY <1>2, Invariant, PTL

-----------------------------------------------------------------------------
(***************************************************************************)
(* Every step, seen through Unfinished, done and accepted, is one of       *)
(* three: a batch is accepted, a command finishes, or nothing happens      *)
(* there, the process perhaps ending. Conservation and refinement follow.  *)
(***************************************************************************)
AcceptStep ==
    /\ msg \in Msg
    /\ Unfinished' = Unfinished \o BatchOf(msg)
    /\ accepted' = accepted \o BatchOf(msg)
    /\ done' = done
    /\ proc = "up" /\ proc' = "up"

RunStep ==
    /\ Unfinished # <<>>
    /\ Unfinished' = Tail(Unfinished)
    /\ done' = Append(done, Head(Unfinished))
    /\ accepted' = accepted
    /\ proc = "up" /\ proc' = "up"

SilentStep ==
    /\ UNCHANGED <<Unfinished, done, accepted>>
    /\ proc # "up" => proc' # "up"

LEMMA StepKinds == IInv /\ [Next]_vars => AcceptStep \/ RunStep \/ SilentStep
  <1> SUFFICES ASSUME IInv, [Next]_vars
               PROVE  AcceptStep \/ RunStep \/ SilentStep
    OBVIOUS
  <1> USE DEF mainVars, execVars, shared, history
  <1>0. /\ TypeOK
        /\ mpc \in {"parse", "push"} => epc \notin ExecHolds /\ proc # "exiting"
        /\ epc \in {"execute", "pop"} => todo = <<>> /\ proc # "exiting"
        /\ mpc # "push" => todo = <<>>
    BY DEF IInv, HeldMutex, MainHolds, ExecHolds, ExitPath, InExit, InHand
  <1>1. CASE Arrive BY <1>1 DEF Arrive, SilentStep, Unfinished, Running
  <1>2. CASE SpuriousWakeup BY <1>2 DEF SpuriousWakeup, SilentStep, Unfinished, Running
  <1>3. CASE Kill BY <1>3 DEF Kill, SilentStep, Unfinished, Running
  <1>4. CASE Main
    <2>1. CASE MainRecv BY <2>1 DEF MainRecv, SilentStep, Unfinished, Running
    <2>2. CASE MainLock BY <2>2 DEF MainLock, SilentStep, Unfinished, Running
    <2>3. CASE MainAccept
      <3>1. epc # "pop" /\ todo = <<>> /\ proc = "up" /\ msg \in Msg
        BY <2>3, <1>0 DEF MainAccept, ExecHolds, Running, IInv, InHand, TypeOK
      <3>2. queue \in Seq(Command) /\ queue \o <<>> = queue
        BY <1>0, ConcatEmptySeq DEF TypeOK
      <3>3. Unfinished' = Unfinished \o BatchOf(msg)
        BY <2>3, <3>1, <3>2 DEF MainAccept, Unfinished
      <3> QED BY <2>3, <3>1, <3>3 DEF MainAccept, AcceptStep
    <2>4. CASE MainSkip BY <2>4 DEF MainSkip, SilentStep, Unfinished, Running
    <2>5. CASE MainExit BY <2>5 DEF MainExit, SilentStep, Unfinished, Running
    <2>6. CASE MainAbort BY <2>6 DEF MainAbort, SilentStep, Unfinished, Running
    <2>11. CASE MainSpin BY <2>11 DEF MainSpin, SilentStep, Unfinished, Running
    <2>7. CASE MainPush
      <3>1. epc # "pop"
        BY <2>7, <1>0 DEF MainPush, ExecHolds
      <3>2. Append(queue, Head(todo)) \o Tail(todo) = queue \o todo
        BY <2>7, <1>0, MoveHead DEF MainPush, TypeOK
      <3>3. Unfinished' = Unfinished
        BY <2>7, <3>1, <3>2 DEF MainPush, Unfinished
      <3> QED BY <2>7, <3>3 DEF MainPush, SilentStep
    <2>8. CASE MainPushed BY <2>8 DEF MainPushed, SilentStep, Unfinished, Running
    <2>9. CASE MainSignal BY <2>9 DEF MainSignal, SilentStep, Unfinished, Running
    <2>10. CASE MainUnlock BY <2>10 DEF MainUnlock, SilentStep, Unfinished, Running
    <2> QED BY <1>4, <2>1, <2>2, <2>3, <2>4, <2>5, <2>6, <2>7, <2>8, <2>9, <2>10, <2>11 DEF Main
  <1>5. CASE Exec
    <2>1. CASE ExecLock BY <2>1 DEF ExecLock, SilentStep, Unfinished, Running
    <2>2. CASE ExecFirst BY <2>2 DEF ExecFirst, SilentStep, Unfinished, Running
    <2>3. CASE ExecWait BY <2>3 DEF ExecWait, SilentStep, Unfinished, Running
    <2>4. CASE ExecDone
      <3>1. todo = <<>> /\ proc = "up" /\ queue # <<>> /\ Head(queue) = cur
        BY <2>4, <1>0 DEF ExecDone, Running, IInv, InHand, TypeOK
      <3>2. queue \o <<>> = queue /\ Tail(queue) \o <<>> = Tail(queue)
        BY <1>0, <3>1, ConcatEmptySeq, HeadTailProperties DEF TypeOK
      <3>3. Unfinished = queue /\ Unfinished' = Tail(queue)
        BY <2>4, <3>1, <3>2 DEF ExecDone, Unfinished
      <3> QED BY <2>4, <3>1, <3>3 DEF ExecDone, RunStep
    <2>5. CASE ExecExit BY <2>5 DEF ExecExit, SilentStep, Unfinished, Running
    <2>6. CASE ExecAbort BY <2>6 DEF ExecAbort, SilentStep, Unfinished, Running
    <2>11. CASE ExecSpin BY <2>11 DEF ExecSpin, SilentStep, Unfinished, Running
    <2>7. CASE ExecPop BY <2>7 DEF ExecPop, SilentStep, Unfinished, Running
    <2>8. CASE ExecDelete BY <2>8 DEF ExecDelete, SilentStep, Unfinished, Running
    <2>9. CASE ExecReacquire BY <2>9 DEF ExecReacquire, SilentStep, Unfinished, Running
    <2>10. CASE ExecUnlock BY <2>10 DEF ExecUnlock, SilentStep, Unfinished, Running
    <2> QED BY <1>5, <2>1, <2>2, <2>3, <2>4, <2>5, <2>6, <2>7, <2>8, <2>9, <2>10, <2>11 DEF Exec
  <1>6. CASE Cleanup BY <1>6 DEF Cleanup, SilentStep, Unfinished
  <1>7. CASE Terminate BY <1>7 DEF Terminate, SilentStep, Unfinished
  <1>8. CASE UNCHANGED vars BY <1>8 DEF vars, SilentStep, Unfinished
  <1> QED BY <1>1, <1>2, <1>3, <1>4, <1>5, <1>6, <1>7, <1>8 DEF Next

\* The finished and the unfinished commands are sequences of commands.
LEMMA UnfinishedType == IInv => done \in Seq(Command) /\ Unfinished \in Seq(Command)
  <1> SUFFICES ASSUME IInv PROVE done \in Seq(Command) /\ Unfinished \in Seq(Command)
    OBVIOUS
  <1>1. done \in Seq(Command) /\ queue \in Seq(Command) /\ todo \in Seq(Command)
    BY DEF IInv, TypeOK
  <1>2. (IF epc = "pop" THEN Tail(queue) ELSE queue) \in Seq(Command)
    BY <1>1, HeadTailProperties DEF IInv, InHand
  <1> QED BY <1>1, <1>2, ConcatProperties DEF Unfinished

LEMMA ConservationNext == IInv /\ NothingLost /\ [Next]_vars => NothingLost'
  <1> SUFFICES ASSUME IInv, NothingLost, [Next]_vars PROVE NothingLost'
    OBVIOUS
  <1>1. done \in Seq(Command) /\ Unfinished \in Seq(Command)
    BY UnfinishedType
  <1>2. CASE AcceptStep
    <2>1. BatchOf(msg) \in Seq(Command)
      BY <1>2, BatchType DEF AcceptStep
    <2>2. (done \o Unfinished) \o BatchOf(msg) = done \o (Unfinished \o BatchOf(msg))
      BY <1>1, <2>1, ConcatAssociative
    <2> QED BY <1>2, <2>2 DEF AcceptStep, NothingLost
  <1>3. CASE RunStep
    <2>1. Append(done, Head(Unfinished)) \o Tail(Unfinished) = done \o Unfinished
      BY <1>1, <1>3, MoveHead DEF RunStep
    <2> QED BY <1>3, <2>1 DEF RunStep, NothingLost
  <1>4. CASE SilentStep
    BY <1>4 DEF SilentStep, NothingLost
  <1> QED BY <1>2, <1>3, <1>4, StepKinds

\* No accepted command is lost, repeated or overtaken before the process
\* ends: finished and unfinished together are what was accepted, in order.
THEOREM CommandsAreConserved == Spec => []NothingLost
  <1>1. Init => NothingLost
    BY DEF Init, NothingLost, Unfinished
  <1> QED BY <1>1, Invariant, ConservationNext, PTL DEF Spec

\* The two threads implement the sequential command service.
THEOREM DaemonImplementsService == Spec => ServiceSpec
  <1>1. Init => Service!Init
    BY DEF Init, Service!Init, Unfinished
  <1>2. IInv /\ [Next]_vars => [Service!Next]_(Service!vars)
    <2> SUFFICES ASSUME IInv, [Next]_vars PROVE [Service!Next]_(Service!vars)
      OBVIOUS
    <2>1. CASE AcceptStep
      <3>1. Service!Accept BY <2>1 DEF AcceptStep, Service!Accept
      <3> QED BY <3>1 DEF Service!Next
    <2>2. CASE RunStep
      <3>1. Service!Run BY <2>2 DEF RunStep, Service!Run
      <3> QED BY <3>1 DEF Service!Next
    <2>3. CASE SilentStep /\ proc = "up" /\ proc' # "up"
      <3>1. Service!Die BY <2>3 DEF SilentStep, Service!Die
      <3> QED BY <3>1 DEF Service!Next
    <2>4. CASE SilentStep /\ (proc = "up" <=> proc' = "up")
      BY <2>4 DEF SilentStep, Service!vars
    <2> QED BY <2>1, <2>2, <2>3, <2>4, StepKinds DEF SilentStep
  <1> QED BY <1>1, <1>2, Invariant, PTL DEF Spec, ServiceSpec, Service!Spec
-----------------------------------------------------------------------------
(***************************************************************************)
(* Whoever holds the mutex comes to give it back, unless a file vanishes   *)
(* under its hands: each of its steps gets nearer to that and no step of   *)
(* anybody else takes it back from there. What is left of a thread's way   *)
(* is counted by what it has yet to push or to run and by the statements   *)
(* before the next change of that.                                         *)
(***************************************************************************)
MainWay == [parse |-> 3, push |-> 2, signal |-> 1, unlock |-> 0]
ExecWay == [delete |-> 4, check |-> 3, execute |-> 2, pop |-> 1, unlock |-> 0]

\* The mutex is released, or the process is ending.
Leaves == mutex' = "free" \/ proc' # "up"

\* Or it never will be: the thread has entered a loop that has no end.
Lost == Spins'

MainNears ==
    /\ mpc' \in DOMAIN MainWay /\ Len(todo') \in Nat
    /\ \/ MainWay[mpc'] < MainWay[mpc]
       \/ mpc' = mpc /\ Len(todo') < Len(todo)

ExecNears ==
    /\ epc' \in DOMAIN ExecWay /\ Len(queue') \in Nat
    /\ \/ Len(queue') < Len(queue)
       \/ Len(queue') = Len(queue) /\ ExecWay[epc'] < ExecWay[epc]

HolderNears ==
    /\ mutex = "main" => IF Main THEN Leaves \/ Lost \/ MainNears
                                 ELSE UNCHANGED <<mutex, mpc, todo>>
    /\ mutex = "exec" => IF Exec THEN Leaves \/ Lost \/ ExecNears
                                 ELSE UNCHANGED <<mutex, epc, queue>>

\* A step by the holder of g_mutex releases it, ends the process, gets it nearer
\* to that, or begins one of the loops over a file that vanished; and nobody else
\* can undo this: parse_command pushes a finite batch, and the loop of
\* execute_commands (lathread.cpp:28-40) runs what is queued, to which nothing is
\* added while it runs. From a loop there is no way back: it keeps the mutex.
THEOREM MutexComesBack ==
    Spec => /\ [][HolderNears]_vars
            /\ [][Spins => Spins' /\ mutex' = mutex]_vars
  <1>1. ASSUME IInv, IInv', [Next]_vars PROVE HolderNears
    <2> USE DEF mainVars, execVars, shared, history
    <2>0. /\ todo \in Seq(Command) /\ queue \in Seq(Command)
          /\ todo' \in Seq(Command) /\ queue' \in Seq(Command)
          /\ (mutex = "main") <=> (mpc \in MainHolds)
          /\ (mutex = "exec") <=> (epc \in ExecHolds)
          /\ epc = "pop" => queue # <<>>
      BY <1>1 DEF IInv, TypeOK, HeldMutex, InHand
    <2>1. ASSUME mutex = "main", Main PROVE Leaves \/ Lost \/ MainNears
      <3> USE DEF Leaves, Lost, Spins, MainNears, MainWay, MainHolds
      <3>1. Len(todo') \in Nat
        BY <2>0
      <3>2. CASE MainRecv BY <2>0, <2>1, <3>2 DEF MainRecv
      <3>3. CASE MainLock BY <2>0, <2>1, <3>3 DEF MainLock
      <3>4. CASE MainAccept BY <3>1, <3>4 DEF MainAccept
      <3>5. CASE MainSkip BY <3>1, <3>5 DEF MainSkip
      <3>6. CASE MainExit BY <3>6 DEF MainExit
      <3>7. CASE MainAbort BY <3>7 DEF MainAbort
      <3>12. CASE MainSpin BY <3>12 DEF MainSpin
      <3>8. CASE MainPush
        <4>1. mpc = "push" /\ mpc' = "push" /\ todo # <<>> /\ todo' = Tail(todo)
          BY <3>8 DEF MainPush
        <4>2. Len(Tail(todo)) < Len(todo)
          BY <2>0, <4>1
        <4> QED BY <3>1, <4>1, <4>2
      <3>9. CASE MainPushed BY <3>1, <3>9 DEF MainPushed
      <3>10. CASE MainSignal BY <3>1, <3>10 DEF MainSignal
      <3>11. CASE MainUnlock BY <3>11 DEF MainUnlock
      <3> QED BY <2>1, <3>2, <3>3, <3>4, <3>5, <3>6, <3>7, <3>8, <3>9, <3>10, <3>11, <3>12 DEF Main
    <2>2. ASSUME mutex = "exec", Exec PROVE Leaves \/ Lost \/ ExecNears
      <3> USE DEF Leaves, Lost, Spins, ExecNears, ExecWay, ExecHolds
      <3>1. Len(queue) \in Nat /\ Len(queue') \in Nat
        BY <2>0
      <3>2. CASE ExecLock BY <2>2, <3>2 DEF ExecLock
      <3>3. CASE ExecFirst BY <3>1, <3>3 DEF ExecFirst
      <3>4. CASE ExecWait BY <3>4 DEF ExecWait
      <3>5. CASE ExecDone BY <3>1, <3>5 DEF ExecDone
      <3>6. CASE ExecExit BY <3>6 DEF ExecExit
      <3>7. CASE ExecAbort BY <3>7 DEF ExecAbort
      <3>12. CASE ExecSpin BY <3>12 DEF ExecSpin
      <3>8. CASE ExecPop
        <4>1. epc' = "delete" /\ queue # <<>> /\ queue' = Tail(queue)
          BY <2>0, <3>8 DEF ExecPop
        <4>2. Len(Tail(queue)) < Len(queue)
          BY <2>0, <4>1
        <4> QED BY <3>1, <4>1, <4>2
      <3>9. CASE ExecDelete BY <3>1, <3>9 DEF ExecDelete
      <3>10. CASE ExecReacquire BY <2>2, <3>10 DEF ExecReacquire
      <3>11. CASE ExecUnlock BY <3>11 DEF ExecUnlock
      <3> QED BY <2>2, <3>2, <3>3, <3>4, <3>5, <3>6, <3>7, <3>8, <3>9, <3>10, <3>11, <3>12 DEF Exec
    <2>3. ASSUME mutex = "main", ~Main PROVE UNCHANGED <<mutex, mpc, todo>>
      <3>1. epc \notin ExecHolds /\ mutex # "free"
        BY <2>0, <2>3
      <3>2. Exec => UNCHANGED <<mutex, mpc, todo>>
        BY <3>1 DEF Exec, ExecHolds, ExecLock, ExecFirst, ExecWait, ExecDone, ExecExit,
                    ExecAbort, ExecSpin, ExecPop, ExecDelete, ExecReacquire, ExecUnlock
      <3> QED BY <1>1, <2>3, <3>2 DEF Next, vars, Arrive, SpuriousWakeup, Kill, Cleanup, Terminate
    <2>4. ASSUME mutex = "exec", ~Exec PROVE UNCHANGED <<mutex, epc, queue>>
      <3>1. mpc \notin MainHolds /\ mutex # "free" /\ epc \in ExecHolds
        BY <2>0, <2>4
      <3>2. Main => UNCHANGED <<mutex, epc, queue>>
        BY <3>1 DEF Main, MainHolds, MainRecv, MainLock, MainAccept, MainSkip, MainExit,
                    MainAbort, MainSpin, MainPush, MainPushed, MainSignal, MainUnlock
      <3> QED BY <1>1, <2>4, <3>1, <3>2
              DEF Next, vars, Arrive, SpuriousWakeup, Kill, Cleanup, Terminate, ExecHolds
    <2> QED BY <2>1, <2>2, <2>3, <2>4 DEF HolderNears
  <1>2. ASSUME IInv, HolderNears, Spins PROVE Spins' /\ mutex' = mutex
    <2>1. CASE mpc = "spin"
      <3>1. mutex = "main"
        BY <1>2, <2>1 DEF IInv, HeldMutex, MainHolds
      <3>2. ~Main
        BY <2>1 DEF Main, MainRecv, MainLock, MainAccept, MainSkip, MainExit, MainAbort,
                    MainSpin, MainPush, MainPushed, MainSignal, MainUnlock
      <3> QED BY <1>2, <2>1, <3>1, <3>2 DEF HolderNears, Spins
    <2>2. CASE epc = "spin"
      <3>1. mutex = "exec"
        BY <1>2, <2>2 DEF IInv, HeldMutex, ExecHolds
      <3>2. ~Exec
        BY <2>2 DEF Exec, ExecLock, ExecFirst, ExecWait, ExecDone, ExecExit, ExecAbort,
                    ExecSpin, ExecPop, ExecDelete, ExecReacquire, ExecUnlock
      <3> QED BY <1>2, <2>2, <3>1, <3>2 DEF HolderNears, Spins
    <2> QED BY <1>2, <2>1, <2>2 DEF Spins
  <1>3. IInv /\ IInv' /\ [Next]_vars =>
            [HolderNears]_vars /\ [Spins => Spins' /\ mutex' = mutex]_vars
    BY <1>1, <1>2
  <1> QED BY <1>3, Invariant, PTL DEF Spec
=============================================================================
