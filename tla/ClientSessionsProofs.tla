------------------------ MODULE ClientSessionsProofs ------------------------
(***************************************************************************)
(* Of the sessions of any clients: a session does one thing at a time, and *)
(* one that the manager has forgotten is closed.                           *)
(***************************************************************************)
EXTENDS ClientSessions, FiniteSetTheorems, TLAPS

NotQueued(s) == \A k \in 1 .. Len(committed) : committed[k] # s

\* At most one of the places that Turns counts has the session.
Alone(s) ==
    /\ reading[s] + writing[s] <= 1
    /\ reading[s] + writing[s] = 1 =>
          "start" \notin task[s] /\ "replicate" \notin task[s] /\ NotQueued(s) /\ target # s
    /\ "start" \in task[s] => "replicate" \notin task[s] /\ NotQueued(s) /\ target # s
    /\ "replicate" \in task[s] => NotQueued(s) /\ target # s
    /\ target = s => NotQueued(s)
    /\ \A j, k \in 1 .. Len(committed) : committed[j] = s /\ committed[k] = s => j = k

\* A session that was not accepted yet is nowhere.
Unborn(s) ==
    /\ s \notin clients /\ task[s] = {}
    /\ reading[s] = 0 /\ writing[s] = 0 /\ NotQueued(s) /\ target # s

Proper(s) ==
    /\ s \notin misled => Alone(s)
    /\ socket[s] = "none" => Unborn(s)

Exclusive == \A s \in Sessions : Proper(s)

IInv == TypeOK /\ Exclusive /\ ForgottenIsClosed

\* The places in numbers: what is alone takes one turn.
LEMMA AloneIsOneTurn ==
    ASSUME TypeOK, NEW s \in Sessions, Alone(s)
    PROVE  Turns(s) <= 1
  <1> DEFINE T == task[s] \cap {"start", "replicate"}
             Q == {k \in DOMAIN committed : committed[k] = s}
             G == {target} \cap {s}
  <1>1. reading[s] \in Nat /\ writing[s] \in Nat
    BY DEF TypeOK
  <1>2. DOMAIN committed = 1 .. Len(committed)
    BY DEF TypeOK
  <1>3. /\ "start" \notin task[s] /\ "replicate" \notin task[s] => Cardinality(T) = 0
        /\ ~ ("start" \in task[s] /\ "replicate" \in task[s]) => Cardinality(T) \in 0 .. 1
    <2>1. CASE "start" \notin task[s] /\ "replicate" \notin task[s]
      BY <2>1, T = {}, FS_EmptySet
    <2>2. CASE "start" \in task[s] /\ "replicate" \notin task[s]
      BY <2>2, T = {"start"}, FS_Singleton
    <2>3. CASE "start" \notin task[s] /\ "replicate" \in task[s]
      BY <2>3, T = {"replicate"}, FS_Singleton
    <2> QED
      BY <2>1, <2>2, <2>3
  <1>4. /\ NotQueued(s) => Cardinality(Q) = 0
        /\ Cardinality(Q) \in 0 .. 1
    <2>1. CASE NotQueued(s)
      <3>1. Q = {}
        BY <2>1, <1>2 DEF NotQueued
      <3>2. Cardinality(Q) = 0
        BY <3>1, FS_EmptySet
      <3> QED
        BY <3>2
    <2>2. CASE ~ NotQueued(s)
      <3>1. PICK k \in 1 .. Len(committed) : committed[k] = s
        BY <2>2 DEF NotQueued
      <3>2. Q = {k}
        BY <3>1, <1>2 DEF Alone
      <3>3. Cardinality(Q) = 1
        BY <3>2, FS_Singleton
      <3> QED
        BY <3>3, <2>2
    <2> QED
      BY <2>1, <2>2
  <1>5. /\ target # s => Cardinality(G) = 0
        /\ Cardinality(G) \in 0 .. 1
    <2>1. CASE target # s
      BY <2>1, G = {}, FS_EmptySet
    <2>2. CASE target = s
      BY <2>2, G = {s}, FS_Singleton
    <2> QED
      BY <2>1, <2>2
  <1>6. Turns(s) = reading[s] + writing[s] + Cardinality(T) + Cardinality(Q) + Cardinality(G)
    BY DEF Turns
  <1> HIDE DEF T, Q, G
  <1>7. CASE reading[s] + writing[s] = 1
    BY <1>1, <1>3, <1>4, <1>5, <1>6, <1>7 DEF Alone
  <1>8. CASE reading[s] + writing[s] = 0
    BY <1>1, <1>3, <1>4, <1>5, <1>6, <1>8 DEF Alone
  <1> QED
    BY <1>1, <1>7, <1>8 DEF Alone

LEMMA InitIInv == Init => IInv
  <1> SUFFICES ASSUME Init PROVE IInv
    OBVIOUS
  <1>0. {blocked, accepting, stopped, crashed} \subseteq BOOLEAN
    BY Zenon DEF Init
  <1>1. TypeOK
    BY <1>0 DEF Init, TypeOK
  <1>2. Exclusive /\ ForgottenIsClosed
    BY SessionsAssumption DEF Init, Exclusive, Proper, Unborn, Alone, NotQueued, ForgottenIsClosed
  <1> QED
    BY <1>1, <1>2 DEF IInv

LEMMA Counts ==
    ASSUME NEW f \in [Sessions -> Nat], NEW s \in Sessions
    PROVE  /\ [f EXCEPT ![s] = @ + 1] \in [Sessions -> Nat]
           /\ f[s] > 0 => [f EXCEPT ![s] = @ - 1] \in [Sessions -> Nat]
  OBVIOUS

LEMMA StepTypes ==
    ASSUME IInv, [Next]_sessionVars PROVE TypeOK'
  <1> USE DEF IInv, TypeOK, sessionVars, strandVars, executorVars
  <1>1. ASSUME NEW s \in Sessions, BeginRead(s) PROVE TypeOK'
    BY <1>1 DEF BeginRead
  <1>2. ASSUME NEW s \in Sessions, CloseSocket(s) PROVE TypeOK'
    BY <1>2 DEF CloseSocket
  <1>3. ASSUME NEW s \in Sessions, ReadCompletes(s) PROVE TypeOK'
    <2>1. reading' \in [Sessions -> Nat] /\ writing' \in [Sessions -> Nat]
      BY <1>3, Counts DEF ReadCompletes
    <2> QED
      BY <1>3, <2>1 DEF ReadCompletes
  <1>4. ASSUME NEW s \in Sessions, ReadFails(s) PROVE TypeOK'
    <2>1. crashed' = crashed \/ crashed' = TRUE
      BY <1>4 DEF ReadFails, Stop
    <2>2. {blocked, accepting, stopped, crashed}' \subseteq BOOLEAN
      BY <1>4, <2>1, Zenon DEF ReadFails
    <2>3. reading' \in [Sessions -> Nat]
      BY <1>4, Counts DEF ReadFails
    <2> QED
      BY <1>4, <2>2, <2>3 DEF ReadFails, Stop
  <1>5. ASSUME NEW s \in Sessions, ReplicateCommits(s) PROVE TypeOK'
    BY <1>5 DEF ReplicateCommits
  <1>6. ASSUME NEW s \in Sessions, ReplicateReturns(s) PROVE TypeOK'
    BY <1>6 DEF ReplicateReturns, ReturnOk
  <1>7. ASSUME NEW s \in Sessions, ReplicateRefuses(s) PROVE TypeOK'
    BY <1>7 DEF ReplicateRefuses
  <1>8. ASSUME NEW s \in Sessions, WriteCompletes(s) PROVE TypeOK'
    BY <1>8 DEF WriteCompletes, ReadAgain
  <1>9. ASSUME NEW s \in Sessions, WriteFails(s) PROVE TypeOK'
    <2>1. crashed' = crashed \/ crashed' = TRUE
      BY <1>9 DEF WriteFails, Stop
    <2>2. {blocked, accepting, stopped, crashed}' \subseteq BOOLEAN
      BY <1>9, <2>1, Zenon DEF WriteFails
    <2>3. reading' \in [Sessions -> Nat] /\ writing' \in [Sessions -> Nat]
      BY <1>9, Counts DEF WriteFails, ReadAgain
    <2> QED
      BY <1>9, <2>2, <2>3 DEF WriteFails, Stop
  <1>10. ASSUME NEW s \in Sessions, PeerFails(s) PROVE TypeOK'
    BY <1>10 DEF PeerFails
  <1>11. ASSUME NEW s \in Sessions, Start(s) PROVE TypeOK'
    BY <1>11 DEF Start
  <1>12. CASE ExecutorGet
    BY <1>12 DEF ExecutorGet, Get
  <1>13. CASE ExecutorWrite
    BY <1>13 DEF ExecutorWrite
  <1>14. CASE StopAll
    BY <1>14 DEF StopAll, Closing
  <1>15. CASE CloseAcceptor
    BY <1>15 DEF CloseAcceptor
  <1>16. CASE UNCHANGED sessionVars
    BY <1>16
  <1>17. CASE ExecutorBlocks \/ ExecutorResumes
    BY <1>17 DEF ExecutorBlocks, ExecutorResumes
  <1> QED
    BY <1>1, <1>2, <1>3, <1>4, <1>5, <1>6, <1>7, <1>8, <1>9,
       <1>10, <1>11, <1>12, <1>13, <1>14, <1>15, <1>16, <1>17
    DEF Next, Replicate, Callback, Executor, Waits, Server

\* A callback hands the session on: what it adds in one place it has taken from
\* another, and nobody else has the session meanwhile.
LEMMA StepExclusive ==
    ASSUME IInv, [Next]_sessionVars, NEW t \in Sessions PROVE Proper(t)'
  <1> USE DEF IInv, TypeOK, Exclusive, Proper, Alone, Unborn, NotQueued,
      sessionVars, strandVars, executorVars
  <1>1. ASSUME NEW s \in Sessions, BeginRead(s) PROVE Proper(t)'
    BY <1>1 DEF BeginRead
  <1>2. ASSUME NEW s \in Sessions, CloseSocket(s) PROVE Proper(t)'
    BY <1>2 DEF CloseSocket
  <1>3. ASSUME NEW s \in Sessions, ReadCompletes(s) PROVE Proper(t)'
    BY <1>3 DEF ReadCompletes
  <1>4. ASSUME NEW s \in Sessions, ReadFails(s) PROVE Proper(t)'
    BY <1>4 DEF ReadFails, Stop
  <1>5. ASSUME NEW s \in Sessions, ReplicateCommits(s) PROVE Proper(t)'
    <2>1. /\ Len(committed') = Len(committed) + 1 /\ Len(committed) \in Nat
          /\ \A k \in 1 .. Len(committed) : committed'[k] = committed[k]
          /\ committed'[Len(committed) + 1] = s
      BY <1>5 DEF ReplicateCommits
    <2>2. CASE t = s
      <3>1. task[s] # {} /\ "replicate" \in task[s] /\ "replicate" \notin task'[s]
        BY <1>5 DEF ReplicateCommits
      <3>2. NotQueued(s) =>
              \A j, k \in 1 .. Len(committed') : committed'[j] = s /\ committed'[k] = s => j = k
        <4> SUFFICES ASSUME NotQueued(s), NEW k \in 1 .. Len(committed'), committed'[k] = s
                     PROVE  k = Len(committed) + 1
          BY Zenon
        <4> HIDE DEF IInv, TypeOK, Exclusive, Proper, Alone, Unborn
        <4> QED
          BY <2>1
      <3> QED
        BY <1>5, <2>2, <3>1, <3>2 DEF ReplicateCommits
    <2>3. CASE t # s
      <3>1. \A k \in 1 .. Len(committed') : committed'[k] = t => k \in 1 .. Len(committed) /\ committed[k] = t
        BY <2>1, <2>3
      <3>2. NotQueued(t) => NotQueued(t)'
        BY <3>1
      <3>3. /\ task'[t] = task[t]
            /\ UNCHANGED <<clients, socket, reading, writing, target, misled>>
        BY <1>5, <2>3 DEF ReplicateCommits
      <3>4. (\A j, k \in 1 .. Len(committed) : committed[j] = t /\ committed[k] = t => j = k)
            => \A j, k \in 1 .. Len(committed') : committed'[j] = t /\ committed'[k] = t => j = k
        BY <3>1
      <3> HIDE DEF NotQueued
      <3> QED
        BY <3>2, <3>3, <3>4
    <2> QED
      BY <2>2, <2>3
  <1>6. ASSUME NEW s \in Sessions, ReplicateReturns(s) PROVE Proper(t)'
    BY <1>6 DEF ReplicateReturns, ReturnOk
  <1>7. ASSUME NEW s \in Sessions, ReplicateRefuses(s) PROVE Proper(t)'
    BY <1>7 DEF ReplicateRefuses
  <1>8. ASSUME NEW s \in Sessions, WriteCompletes(s) PROVE Proper(t)'
    <2>1. /\ reading' = [reading EXCEPT ![s] = @ + 1] /\ writing' = [writing EXCEPT ![s] = @ - 1]
          /\ writing[s] > 0 /\ UNCHANGED <<clients, socket, task, committed, target, misled>>
      BY <1>8 DEF WriteCompletes, ReadAgain
    <2>2. CASE t = s
      <3>1. /\ reading'[t] + writing'[t] = reading[t] + writing[t]
            /\ socket[t] # "none"
        BY <2>1, <2>2
      <3>2. UNCHANGED <<clients, socket, task, committed, target, misled>>
        BY <2>1
      <3>3. NotQueued(t)' <=> NotQueued(t)
        BY <3>2
      <3> HIDE DEF NotQueued
      <3> QED
        BY <3>1, <3>2, <3>3
    <2>3. CASE t # s
      BY <2>1, <2>3
    <2> QED
      BY <2>2, <2>3
  <1>9. ASSUME NEW s \in Sessions, WriteFails(s) PROVE Proper(t)'
    BY <1>9 DEF WriteFails, Stop, ReadAgain
  <1>10. ASSUME NEW s \in Sessions, PeerFails(s) PROVE Proper(t)'
    BY <1>10 DEF PeerFails
  <1>11. ASSUME NEW s \in Sessions, Start(s) PROVE Proper(t)'
    BY <1>11 DEF Start
  <1>12. CASE ExecutorGet
    <2>1. PICK id \in ResultIds :
            /\ target' = Get(id)
            /\ misled' = IF id = Head(committed) THEN misled
                         ELSE misled \cup {Head(committed)} \cup ({id} \cap clients)
      BY <1>12 DEF ExecutorGet
    <2>2. /\ committed' = Tail(committed) /\ committed # <<>> /\ target = Nobody
          /\ UNCHANGED <<clients, socket, task, reading, writing>>
      BY <1>12 DEF ExecutorGet
    <2>3. /\ target' = t => t \in clients /\ id = t
          /\ t \notin misled' => t \notin misled /\ (target' = t => t = Head(committed))
      BY <2>1, SessionsAssumption, Zenon DEF Get
    <2>4. /\ Len(committed') = Len(committed) - 1 /\ Len(committed) \in Nat \ {0}
          /\ \A k \in 1 .. Len(committed') : committed'[k] = committed[k + 1] /\ k + 1 \in 1 .. Len(committed)
          /\ Head(committed) = committed[1] /\ 1 \in 1 .. Len(committed)
      BY <2>2
    <2>5. NotQueued(t) => NotQueued(t)' /\ committed[1] # t
      <3> HIDE DEF IInv, TypeOK, Exclusive, Proper, Alone, Unborn
      <3> QED
        BY <2>4
    <2>6. ASSUME \A j, k \in 1 .. Len(committed) : committed[j] = t /\ committed[k] = t => j = k
          PROVE  /\ \A j, k \in 1 .. Len(committed') : committed'[j] = t /\ committed'[k] = t => j = k
                 /\ committed[1] = t => NotQueued(t)'
      <3> HIDE DEF IInv, TypeOK, Exclusive, Proper, Alone, Unborn
      <3>1. ASSUME NEW j \in 1 .. Len(committed'), NEW k \in 1 .. Len(committed'),
                   committed'[j] = t, committed'[k] = t
            PROVE  j = k
        BY <2>4, <2>6, <3>1
      <3>2. ASSUME committed[1] = t, NEW k \in 1 .. Len(committed') PROVE committed'[k] # t
        BY <2>4, <2>6, <3>2
      <3> QED
        BY <3>1, <3>2
    <2> HIDE DEF NotQueued
    <2>7. socket'[t] = "none" => Unborn(t)'
      BY <2>2, <2>3, <2>5
    <2>8. t \notin misled' => Alone(t)'
      BY <2>2, <2>3, <2>4, <2>5, <2>6
    <2> QED
      BY <2>7, <2>8
  <1>13. CASE ExecutorWrite
    <2>1. target \in Sessions /\ target' = Nobody /\ t # Nobody
      BY <1>13, SessionsAssumption DEF ExecutorWrite
    <2>2. CASE t = target
      BY <1>13, <2>1, <2>2 DEF ExecutorWrite
    <2>3. CASE t # target
      BY <1>13, <2>1, <2>3 DEF ExecutorWrite
    <2> QED
      BY <2>2, <2>3
  <1>14. CASE StopAll
    BY <1>14 DEF StopAll, Closing
  <1>15. CASE CloseAcceptor
    BY <1>15 DEF CloseAcceptor
  <1>16. CASE UNCHANGED sessionVars
    BY <1>16
  <1>17. CASE ExecutorBlocks \/ ExecutorResumes
    BY <1>17 DEF ExecutorBlocks, ExecutorResumes
  <1> QED
    BY <1>1, <1>2, <1>3, <1>4, <1>5, <1>6, <1>7, <1>8, <1>9,
       <1>10, <1>11, <1>12, <1>13, <1>14, <1>15, <1>16, <1>17
    DEF Next, Replicate, Callback, Executor, Waits, Server

\* Whoever takes a session out of clients_ closes it, or sees to it.
LEMMA StepForgotten ==
    ASSUME IInv, [Next]_sessionVars PROVE ForgottenIsClosed'
  <1> USE DEF IInv, TypeOK, ForgottenIsClosed, sessionVars, strandVars, executorVars
  <1>1. ASSUME NEW s \in Sessions, BeginRead(s) PROVE ForgottenIsClosed'
    BY <1>1 DEF BeginRead
  <1>2. ASSUME NEW s \in Sessions, CloseSocket(s) PROVE ForgottenIsClosed'
    BY <1>2 DEF CloseSocket
  <1>3. ASSUME NEW s \in Sessions, ReadCompletes(s) PROVE ForgottenIsClosed'
    <2>1. UNCHANGED <<socket, clients>>
      BY <1>3 DEF ReadCompletes
    <2>2. task' = task \/ task' = [task EXCEPT ![s] = @ \cup {"replicate"}]
      BY <1>3 DEF ReadCompletes
    <2>3. CASE task' = task
      BY <2>1, <2>3
    <2>4. CASE task' = [task EXCEPT ![s] = @ \cup {"replicate"}]
      BY <2>1, <2>4
    <2> QED
      BY <2>2, <2>3, <2>4
  <1>4. ASSUME NEW s \in Sessions, ReadFails(s) PROVE ForgottenIsClosed'
    BY <1>4 DEF ReadFails, Stop
  <1>5. ASSUME NEW s \in Sessions, ReplicateCommits(s) PROVE ForgottenIsClosed'
    BY <1>5 DEF ReplicateCommits
  <1>6. ASSUME NEW s \in Sessions, ReplicateReturns(s) PROVE ForgottenIsClosed'
    BY <1>6 DEF ReplicateReturns, ReturnOk
  <1>7. ASSUME NEW s \in Sessions, ReplicateRefuses(s) PROVE ForgottenIsClosed'
    BY <1>7 DEF ReplicateRefuses
  <1>8. ASSUME NEW s \in Sessions, WriteCompletes(s) PROVE ForgottenIsClosed'
    BY <1>8 DEF WriteCompletes, ReadAgain
  <1>9. ASSUME NEW s \in Sessions, WriteFails(s) PROVE ForgottenIsClosed'
    BY <1>9 DEF WriteFails, Stop, ReadAgain
  <1>10. ASSUME NEW s \in Sessions, PeerFails(s) PROVE ForgottenIsClosed'
    BY <1>10 DEF PeerFails
  <1>11. ASSUME NEW s \in Sessions, Start(s) PROVE ForgottenIsClosed'
    BY <1>11 DEF Start
  <1>12. CASE ExecutorGet
    BY <1>12 DEF ExecutorGet, Get
  <1>13. CASE ExecutorWrite
    BY <1>13 DEF ExecutorWrite
  <1>14. CASE StopAll
    BY <1>14 DEF StopAll, Closing
  <1>15. CASE CloseAcceptor
    BY <1>15 DEF CloseAcceptor
  <1>16. CASE UNCHANGED sessionVars
    BY <1>16
  <1>17. CASE ExecutorBlocks \/ ExecutorResumes
    BY <1>17 DEF ExecutorBlocks, ExecutorResumes
  <1> QED
    BY <1>1, <1>2, <1>3, <1>4, <1>5, <1>6, <1>7, <1>8, <1>9,
       <1>10, <1>11, <1>12, <1>13, <1>14, <1>15, <1>16, <1>17
    DEF Next, Replicate, Callback, Executor, Waits, Server

LEMMA Inductive == Spec => []IInv
  <1>1. IInv /\ [Next]_sessionVars => IInv'
    BY StepTypes, StepExclusive, StepForgotten DEF IInv, Exclusive
  <1> QED
    BY InitIInv, <1>1, PTL DEF Spec

-----------------------------------------------------------------------------
(* Theorems.                                                               *)

\* The sessions' state keeps its type.
THEOREM TypeCorrect == Spec => []TypeOK
  <1>1. IInv => TypeOK
    BY DEF IInv
  <1> QED
    BY <1>1, Inductive, PTL

\* A session reads, or replicates, or is answered, one at a time, with any
\* number of sessions, failures and interleavings with the executor, unless a
\* result came with another's client id: Client needs no mutex for request_ and
\* response_ as long as each answer goes to who asked.
THEOREM OneThingAtATime == Spec => []OneTurn
  <1>1. IInv => OneTurn
    BY AloneIsOneTurn DEF IInv, Exclusive, Proper, OneTurn
  <1> QED
    BY <1>1, Inductive, PTL

\* No connection leaks: what is not in clients_ is closed or about to be.
THEOREM NoSessionLeaks == Spec => []ForgottenIsClosed
  <1>1. IInv => ForgottenIsClosed
    BY DEF IInv
  <1> QED
    BY <1>1, Inductive, PTL

=============================================================================
