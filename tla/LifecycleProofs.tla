-------------------------- MODULE LifecycleProofs --------------------------
(***************************************************************************)
(* Of the start and the end of a replica, for any cluster and any requests:*)
(* who is joined has ended, and Stop of a log on the FPGA does not return. *)
(***************************************************************************)
EXTENDS Lifecycle, FiniteSetTheorems, TLAPS

\* Where Stop has got to, from the end.
AfterCommit   == {"joinPool", "done"}
AfterPrepare  == {"commit", "notifyCommit", "joinCommit"} \cup AfterCommit
AfterServer   == {"prepare", "notifyPrepare", "joinPrepare"} \cup AfterPrepare
AfterExecutor == {"server", "joinServer"} \cup AfterServer

\* A flag is up from the start of its thread until Stop takes it down, and Stop
\* begins when all threads were started.
Flags ==
    /\ "log" \in running <=> stopper \in {"idle", "signalled", "log"}
    /\ "prepare" \in running <=>
          main # "prepare" /\ stopper \notin {"notifyPrepare", "joinPrepare"} \cup AfterPrepare
    /\ "commit" \in running <=>
          /\ main \notin {"prepare", "commit"}
          /\ stopper \notin {"notifyCommit", "joinCommit"} \cup AfterCommit
    /\ main = "prepare" => thread["prepare"] = "none"
    /\ main \in {"prepare", "commit"} => thread["commit"] = "none"
    /\ stopper \notin {"idle", "signalled"} => main \in {"run", "returned", "crashed"}

\* An XrtLog's Stop waits under the mutex for a thread that cannot end without it.
Stuck ==
    /\ IsXrt => /\ thread["applier"] # "ended"
                /\ stopper = "joinApplier" => locked
    /\ ~ IsXrt => thread["applier"] = "none"

\* What Stop has joined has ended for good.
Joined ==
    /\ stopper \in AfterExecutor => thread["executor"] = "ended"
    /\ stopper \in AfterServer => server = "down" /\ ~ handler
    /\ stopper \in AfterPrepare => thread["prepare"] = "ended"
    /\ stopper \in AfterCommit => thread["commit"] = "ended"
    /\ stopper = "done" => pool = "joined"
    /\ main = "returned" => stopper = "done" /\ InHandler = {}

Stages == Flags /\ NoSleepThroughStop /\ XrtStopHangs /\ Stuck /\ Joined

IInv == TypeOK /\ Stages

-----------------------------------------------------------------------------
(* Types: of the parts that the actions share, and of a step.              *)

Places == {"none", "outer", "asleep", "inner", "awake", "wait", "won", "run", "ended"}

Stations == {"none", "read", "append", "wait", "committed", "lost", "done"}

Phases == [Callers -> [pending : SUBSET Peers, oks : Nat]]

LEMMA BallotMovesTypes ==
    ASSUME TypeOK, BallotMoves
    PROVE  thread' \in [Threads -> Places] /\ {locked, leads', handler, accepting} \subseteq BOOLEAN
  <1>1. leads' = leads \/ leads' = FALSE \/ leads' = TRUE
    BY DEF BallotMoves
  <1>2. {locked, leads, handler, accepting} \subseteq BOOLEAN
    BY DEF TypeOK
  <1>3. {locked, leads', handler, accepting} \subseteq BOOLEAN
    BY <1>1, <1>2, Zenon
  <1>4. thread' \in [Threads -> Places]
    BY DEF TypeOK, BallotMoves, At, Woken, Threads, Places
  <1> QED
    BY <1>3, <1>4

LEMMA PostTypes ==
    ASSUME TypeOK, NEW o \in Callers, Post(o)
    PROVE  phase' \in Phases /\ UNCHANGED <<stale, pool>>
  <1>1. config.peers \in SUBSET Peers
    BY DEF TypeOK, Config
  <1> QED
    BY <1>1 DEF TypeOK, Post, Phases

LEMMA LeaveTypes ==
    ASSUME TypeOK, NEW o \in Callers, Leave(o)
    PROVE  phase' \in Phases /\ stale' \in Nat /\ UNCHANGED pool
  <1>1. phase[o].pending \in SUBSET Peers
    BY DEF TypeOK
  <1>2. Cardinality(phase[o].pending) \in Nat
    BY <1>1, LifecycleAssumption, FS_Subset, FS_CardinalityType
  <1>3. phase' \in Phases
    BY DEF TypeOK, Leave, Quiet, Phases
  <1> QED
    BY <1>2, <1>3 DEF TypeOK, Leave

LEMMA StepTypes ==
    ASSUME IInv, [Next]_lifeVars PROVE TypeOK'
  <1> USE DEF IInv, TypeOK, lifeVars, callVars, logVars, sessionVars, Threads
  <1>1. CASE StartThread("prepare", "commit")
    BY <1>1 DEF StartThread, At
  <1>2. CASE StartThread("commit", "server")
    BY <1>2 DEF StartThread, At
  <1>3. CASE StartRPCServer
    BY <1>3 DEF StartRPCServer
  <1>4. CASE StartThread("executor", "run")
    BY <1>4 DEF StartThread, At
  <1>5. CASE MainReturns
    BY <1>5 DEF MainReturns
  <1>6. CASE Signal
    BY <1>6 DEF Signal
  <1>7. CASE StopServer
    BY <1>7 DEF StopServer
  <1>8. CASE StopLog
    <2>1. locked' = TRUE \/ locked' = FALSE
      BY <1>8 DEF StopLog, HeldByStop, IsXrt
    <2>2. {locked, leads, handler, accepting}' \subseteq BOOLEAN
      BY <1>8, <2>1, Zenon DEF StopLog
    <2> QED
      BY <1>8, <2>2 DEF StopLog, Woken
  <1>9. CASE Join("joinApplier", "applier", "joinExecutor")
    BY <1>9 DEF Join, Ended
  <1>10. CASE Join("joinExecutor", "executor", "server")
    BY <1>10 DEF Join, Ended
  <1>11. CASE ShutdownServer
    BY <1>11 DEF ShutdownServer
  <1>12. CASE JoinServer
    BY <1>12 DEF JoinServer
  <1>13. CASE ClearFlag("prepare", "notifyPrepare")
    BY <1>13 DEF ClearFlag
  <1>14. CASE Notify("notifyPrepare", "prepare", "joinPrepare")
    BY <1>14 DEF Notify, At, Woken
  <1>15. CASE Join("joinPrepare", "prepare", "commit")
    BY <1>15 DEF Join, Ended
  <1>16. CASE ClearFlag("commit", "notifyCommit")
    BY <1>16 DEF ClearFlag
  <1>17. CASE Notify("notifyCommit", "commit", "joinCommit")
    BY <1>17 DEF Notify, At, Woken
  <1>18. CASE Join("joinCommit", "commit", "joinPool")
    BY <1>18 DEF Join, Ended
  <1>19. CASE JoinPool
    BY <1>19 DEF JoinPool
  <1>20. ASSUME NEW o \in Callers, NEW p \in Peers, CallEnds(o, p) PROVE TypeOK'
    <2>1. thread' \in [Threads -> Places] /\ {locked, leads', handler, accepting} \subseteq BOOLEAN
      BY <1>20, BallotMovesTypes DEF CallEnds, Places
    <2>2. phase' \in Phases
      BY <1>20 DEF CallEnds, Phases
    <2> QED
      BY <1>20, <2>1, <2>2 DEF CallEnds, Places, Phases
  <1>21. CASE StaleCallEnds
    BY <1>21, BallotMovesTypes DEF StaleCallEnds, Places
  <1>22. CASE HandlerStarts
    BY <1>22 DEF HandlerStarts
  <1>23. CASE HandlerEnds
    <2>1. thread' \in [Threads -> Places] /\ {locked, leads', handler, accepting} \subseteq BOOLEAN
      BY <1>23, BallotMovesTypes DEF HandlerEnds
    <2>2. {locked, leads, handler, accepting}' \subseteq BOOLEAN
      BY <1>23, <2>1, Zenon DEF HandlerEnds
    <2> QED
      BY <1>23, <2>1, <2>2 DEF HandlerEnds, Places
  <1>24. ASSUME NEW t \in {"prepare", "commit"}, OuterLoop(t) PROVE TypeOK'
    BY <1>24 DEF OuterLoop, At, Waits, Idle
  <1>25. ASSUME NEW t \in {"prepare", "commit"}, InnerLoop(t) PROVE TypeOK'
    BY <1>25 DEF InnerLoop, At
  <1>26. ASSUME NEW t \in {"prepare", "commit"}, RunPhase(t) PROVE TypeOK'
    BY <1>26, PostTypes DEF RunPhase, At, Callers, Phases
  <1>27. ASSUME NEW t \in {"prepare", "commit"}, SkipPhase(t) PROVE TypeOK'
    BY <1>27 DEF SkipPhase, At
  <1>28. ASSUME NEW t \in {"prepare", "commit"}, EndPhase(t) PROVE TypeOK'
    BY <1>28, LeaveTypes DEF EndPhase, At, Callers, Phases
  <1>29. CASE BecomeLeader
    BY <1>29 DEF BecomeLeader, Woken
  <1>30. CASE ExecutorThread
    BY <1>30 DEF ExecutorThread, At, Taken
  <1>31. CASE EarlyApply
    BY <1>31 DEF EarlyApply, At, Taken
  <1>32. ASSUME NEW r \in Requests, Replicate(r) PROVE TypeOK'
    BY <1>32 DEF Replicate, InHandler
  <1>33. ASSUME NEW r \in Requests, ProposeToAll(r) PROVE TypeOK'
    <2>1. phase' \in Phases /\ stale' \in Nat /\ UNCHANGED pool
      BY <1>33, PostTypes DEF ProposeToAll, Callers
    <2>2. thread' \in [Threads -> Places]
      BY <1>33 DEF ProposeToAll, At, Woken, Places
    <2>3. request' \in [Requests -> Stations]
      BY <1>33 DEF ProposeToAll, Stations
    <2> QED
      BY <1>33, <2>1, <2>2, <2>3 DEF ProposeToAll, Phases, Places, Stations
  <1>34. ASSUME NEW r \in Requests, Commit(r) PROVE TypeOK'
    <2>1. phase' \in Phases /\ stale' \in Nat /\ UNCHANGED pool
      BY <1>34, LeaveTypes DEF Commit, Callers
    <2>2. thread' \in [Threads -> Places]
      BY <1>34 DEF Commit, At, Woken, Places
    <2>3. request' \in [Requests -> Stations]
      BY <1>34 DEF Commit, Stations
    <2> QED
      BY <1>34, <2>1, <2>2, <2>3 DEF Commit, Phases, Places, Stations
  <1>35. ASSUME NEW r \in Requests, GiveUp(r) PROVE TypeOK'
    BY <1>35, LeaveTypes DEF GiveUp, Callers, Phases
  <1>36. CASE UNCHANGED lifeVars
    BY <1>36
  <1>37. CASE CloseAcceptor
    <2>1. {locked, leads, handler, accepting}' \subseteq BOOLEAN
      BY <1>37, Zenon DEF CloseAcceptor
    <2> QED
      BY <1>37, <2>1 DEF CloseAcceptor
  <1>38. ASSUME NEW r \in Requests, Connect(r) PROVE TypeOK'
    BY <1>38 DEF Connect
  <1>39. ASSUME NEW r \in Requests, StopFindsNobody(r) PROVE TypeOK'
    BY <1>39 DEF StopFindsNobody
  <1> HIDE DEF TypeOK, IInv
  <1> QED
    BY <1>1, <1>2, <1>3, <1>4, <1>5, <1>6, <1>7, <1>8, <1>9, <1>10, <1>11, <1>12,
       <1>13, <1>14, <1>15, <1>16, <1>17, <1>18, <1>19, <1>20, <1>21, <1>22, <1>23, <1>24,
       <1>25, <1>26, <1>27, <1>28, <1>29, <1>30, <1>31, <1>32, <1>33, <1>34, <1>35, <1>36,
       <1>37, <1>38, <1>39
    DEF Next, Main, Stop, Calls, PhaseThread, RequestThread

LEMMA StepStages ==
    ASSUME IInv, [Next]_lifeVars PROVE Stages'
  <1> USE DEF IInv, TypeOK, Stages, Flags, NoSleepThroughStop, XrtStopHangs, Stuck, Joined, IsXrt, Config,
      AfterCommit, AfterPrepare, AfterServer, AfterExecutor, InHandler, lifeVars, callVars, logVars, sessionVars, Threads
  <1>1. CASE StartThread("prepare", "commit")
    BY <1>1 DEF StartThread, At
  <1>2. CASE StartThread("commit", "server")
    BY <1>2 DEF StartThread, At
  <1>3. CASE StartRPCServer
    BY <1>3 DEF StartRPCServer
  <1>4. CASE StartThread("executor", "run")
    BY <1>4 DEF StartThread, At
  <1>5. CASE MainReturns
    BY <1>5 DEF MainReturns
  <1>6. CASE Signal
    BY <1>6 DEF Signal
  <1>7. CASE StopServer
    BY <1>7 DEF StopServer
  <1>8. CASE StopLog
    BY <1>8 DEF StopLog, HeldByStop, Woken
  <1>9. CASE Join("joinApplier", "applier", "joinExecutor")
    BY <1>9 DEF Join, Ended
  <1>10. CASE Join("joinExecutor", "executor", "server")
    BY <1>10 DEF Join, Ended
  <1>11. CASE ShutdownServer
    BY <1>11 DEF ShutdownServer
  <1>12. CASE JoinServer
    BY <1>12 DEF JoinServer
  <1>13. CASE ClearFlag("prepare", "notifyPrepare")
    BY <1>13 DEF ClearFlag
  <1>14. CASE Notify("notifyPrepare", "prepare", "joinPrepare")
    BY <1>14 DEF Notify, At, Woken
  <1>15. CASE Join("joinPrepare", "prepare", "commit")
    BY <1>15 DEF Join, Ended
  <1>16. CASE ClearFlag("commit", "notifyCommit")
    BY <1>16 DEF ClearFlag
  <1>17. CASE Notify("notifyCommit", "commit", "joinCommit")
    BY <1>17 DEF Notify, At, Woken
  <1>18. CASE Join("joinCommit", "commit", "joinPool")
    BY <1>18 DEF Join, Ended
  <1>19. CASE JoinPool
    BY <1>19 DEF JoinPool
  <1>20. ASSUME NEW o \in Callers, NEW p \in Peers, CallEnds(o, p) PROVE Stages'
    BY <1>20 DEF CallEnds, BallotMoves, At, Woken
  <1>21. CASE StaleCallEnds
    BY <1>21 DEF StaleCallEnds, BallotMoves, At, Woken
  <1>22. CASE HandlerStarts
    BY <1>22 DEF HandlerStarts
  <1>23. CASE HandlerEnds
    BY <1>23 DEF HandlerEnds, BallotMoves, At, Woken
  <1>24. ASSUME NEW t \in {"prepare", "commit"}, OuterLoop(t) PROVE Stages'
    BY <1>24 DEF OuterLoop, At, Waits
  <1>25. ASSUME NEW t \in {"prepare", "commit"}, InnerLoop(t) PROVE Stages'
    BY <1>25 DEF InnerLoop, At
  <1>26. ASSUME NEW t \in {"prepare", "commit"}, RunPhase(t) PROVE Stages'
    BY <1>26 DEF RunPhase, At
  <1>27. ASSUME NEW t \in {"prepare", "commit"}, SkipPhase(t) PROVE Stages'
    BY <1>27 DEF SkipPhase, At
  <1>28. ASSUME NEW t \in {"prepare", "commit"}, EndPhase(t) PROVE Stages'
    BY <1>28 DEF EndPhase, At
  <1>29. CASE BecomeLeader
    BY <1>29 DEF BecomeLeader, Woken
  <1>30. CASE ExecutorThread
    BY <1>30 DEF ExecutorThread, At
  <1>31. CASE EarlyApply
    BY <1>31 DEF EarlyApply, At
  <1>32. ASSUME NEW r \in Requests, Replicate(r) PROVE Stages'
    BY <1>32 DEF Replicate, InHandler
  <1>33. ASSUME NEW r \in Requests, RequestThread(r) PROVE Stages'
    <2> USE <1>33 DEF RequestThread, ProposeToAll, Commit, GiveUp
    <2>1. main # "returned" /\ InHandler # {}
      OBVIOUS
    <2>2. UNCHANGED <<config, main, stopper, server, handler, running, locked, pool>>
      BY DEF Post, Leave
    <2>3. thread' = thread \/ \E t \in {"applier", "executor"} : At(t, Woken(t))
      OBVIOUS
    <2> QED
      BY <2>1, <2>2, <2>3 DEF At, Woken
  <1>34. CASE UNCHANGED lifeVars
    BY <1>34 DEF InHandler
  <1>35. CASE CloseAcceptor
    BY <1>35 DEF CloseAcceptor
  <1>36. ASSUME NEW r \in Requests, Connect(r) PROVE Stages'
    BY <1>36 DEF Connect
  <1>37. ASSUME NEW r \in Requests, StopFindsNobody(r) PROVE Stages'
    BY <1>37 DEF StopFindsNobody
  <1> QED
    BY <1>1, <1>2, <1>3, <1>4, <1>5, <1>6, <1>7, <1>8, <1>9, <1>10, <1>11, <1>12,
       <1>13, <1>14, <1>15, <1>16, <1>17, <1>18, <1>19, <1>20, <1>21, <1>22, <1>23, <1>24,
       <1>25, <1>26, <1>27, <1>28, <1>29, <1>30, <1>31, <1>32, <1>33, <1>34, <1>35, <1>36, <1>37
    DEF Next, Main, Stop, Calls, PhaseThread

LEMMA Inductive == Spec => []IInv
  <1>1. Init => TypeOK
    <2> SUFFICES ASSUME Init PROVE TypeOK
      OBVIOUS
    <2>1. {locked, leads, handler, accepting} \subseteq BOOLEAN
      BY Zenon DEF Init
    <2>2. thread \in [Threads -> Places]
      BY DEF Init, Threads, Places
    <2>3. phase \in Phases
      BY DEF Init, Quiet, Phases
    <2> QED
      BY <2>1, <2>2, <2>3 DEF Init, TypeOK, Phases, Places
  <1>2. Init => Stages
    BY DEF Init, Threads, Stages, Flags, NoSleepThroughStop, XrtStopHangs, Stuck, Joined, IsXrt,
           AfterCommit, AfterPrepare, AfterServer, AfterExecutor
  <1>3. IInv /\ [Next]_lifeVars => IInv'
    BY StepTypes, StepStages DEF IInv
  <1> QED
    BY <1>1, <1>2, <1>3, PTL DEF IInv, Spec

-----------------------------------------------------------------------------
(* Theorems.                                                               *)

\* The state of a replica keeps its type from start to end.
THEOREM TypeCorrect == Spec => []TypeOK
  <1>1. IInv => TypeOK
    BY DEF IInv
  <1> QED
    BY <1>1, Inductive, PTL

\* PrepareThread and CommitThread are not asleep when they are joined: the flag
\* goes down under the mutex their wait tests it under, before the notification.
THEOREM StopWakesThreads == Spec => []NoSleepThroughStop
  <1>1. IInv => NoSleepThroughStop
    BY DEF IInv, Stages
  <1> QED
    BY <1>1, Inductive, PTL

\* In no cluster and at no moment does XrtLog::Stop come back.
THEOREM XrtStopNeverReturns == Spec => []XrtStopHangs
  <1>1. IInv => XrtStopHangs
    BY DEF IInv, Stages
  <1> QED
    BY <1>1, Inductive, PTL

\* When main returns, whatever threads, handlers and calls there were are gone.
THEOREM MainOutlivesAll == Spec => []NothingOutlivesMain
  <1>1. IInv => NothingOutlivesMain
    <2> SUFFICES ASSUME IInv, main = "returned"
                 PROVE  /\ \A t \in Threads : thread[t] \in {"none", "ended"}
                        /\ pool = "joined" /\ InHandler = {} /\ ~ handler
      BY DEF NothingOutlivesMain, Born
    <2>1. stopper = "done" /\ InHandler = {}
      BY DEF IInv, Stages, Joined
    <2>2. ~ IsXrt
      BY <2>1 DEF IInv, Stages, XrtStopHangs
    <2> QED
      BY <2>1, <2>2 DEF IInv, Stages, Stuck, Joined, Threads,
                        AfterCommit, AfterPrepare, AfterServer, AfterExecutor
  <1> QED
    BY <1>1, Inductive, PTL

=============================================================================
