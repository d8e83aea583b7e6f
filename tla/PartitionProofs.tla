-------------------------- MODULE PartitionProofs --------------------------
(***************************************************************************)
(* Of a partition, for any commands: the executor loses no wakeup, Commit  *)
(* finds its index, and to its clients it is a sequential store.           *)
(***************************************************************************)
EXTENDS Partition, TLAPS

Instance == [ballot : Nat, index : Nat \ {0}, cmd : Command,
             state : {"INPROGRESS", "COMMITTED", "EXECUTED"}]

IsLog(lg) ==
    /\ lg = [entries |-> lg.entries, lastIndex |-> lg.lastIndex, lastExecuted |-> lg.lastExecuted]
    /\ DOMAIN lg.entries \subseteq Nat \ {0}
    /\ lg.entries \in [DOMAIN lg.entries -> Instance]
    /\ \A i \in DOMAIN lg.entries : lg.entries[i].index = i
    /\ lg.lastIndex \in Nat /\ lg.lastExecuted \in Nat

-----------------------------------------------------------------------------
(* What the operations do to a log.                                        *)

\* AdvanceLastIndex gives out the next index and leaves the instances alone.
LEMMA AdvanceLastIndexKeeps ==
    ASSUME NEW lg, IsLog(lg)
    PROVE  /\ IsLog(Log!AdvanceLastIndex(lg))
           /\ Log!AdvanceLastIndex(lg).entries = lg.entries
           /\ Log!AdvanceLastIndex(lg).lastExecuted = lg.lastExecuted
  BY DEF IsLog, Log!AdvanceLastIndex

\* Append puts the new instance at its index or keeps the old one; it takes
\* nothing away and does not touch any other index.
LEMMA AppendReplacesOne ==
    ASSUME NEW lg, IsLog(lg), NEW inst \in Instance
    PROVE  LET after == Log!Append(lg, inst) IN
           /\ IsLog(after)
           /\ DOMAIN after.entries = DOMAIN lg.entries \cup {inst.index}
           /\ \A i \in DOMAIN after.entries :
                 \/ i = inst.index /\ after.entries[i] = inst
                 \/ i \in DOMAIN lg.entries /\ after.entries[i] = lg.entries[i]
           /\ after.lastExecuted = lg.lastExecuted
  <1>1. inst.index \in Nat \ {0}
    BY DEF Instance
  <1>2. ~ (inst.index <= Log!GlobalLastExecuted)
    BY <1>1 DEF Log!GlobalLastExecuted
  <1> DEFINE E == Log!Insert(lg.entries, inst)
  <1> DEFINE last == IF inst.index \in DOMAIN lg.entries THEN lg.lastIndex
                     ELSE Log!Larger(lg.lastIndex, inst.index)
  <1>3. Log!Append(lg, inst) = [entries |-> E, lastIndex |-> last, lastExecuted |-> lg.lastExecuted]
    BY <1>2 DEF IsLog, Log!Append
  <1>4. last \in Nat
    BY <1>1 DEF IsLog, Log!Larger
  <1>5. /\ DOMAIN E = DOMAIN lg.entries \cup {inst.index}
        /\ E = [i \in DOMAIN E |-> E[i]]
        /\ \A i \in DOMAIN E : \/ i = inst.index /\ E[i] = inst
                               \/ i \in DOMAIN lg.entries /\ E[i] = lg.entries[i]
    BY <1>1 DEF IsLog, Log!Insert, Log!Put
  <1>6. \A i \in DOMAIN E : E[i] \in Instance /\ E[i].index = i
    BY <1>5 DEF IsLog
  <1> HIDE DEF E, last
  <1> QED
    BY <1>1, <1>3, <1>4, <1>5, <1>6 DEF IsLog

\* Commit changes the state of one instance.
LEMMA CommitMarks ==
    ASSUME NEW lg, IsLog(lg), NEW i \in DOMAIN lg.entries
    PROVE  LET after == Log!Commit(lg, i) IN
           /\ IsLog(after)
           /\ DOMAIN after.entries = DOMAIN lg.entries
           /\ \A j \in DOMAIN lg.entries : /\ after.entries[j].cmd = lg.entries[j].cmd
                                           /\ j # i => after.entries[j] = lg.entries[j]
           /\ after.lastExecuted = lg.lastExecuted
  <1>1. CASE lg.entries[i].state # "INPROGRESS"
    BY <1>1 DEF Log!Commit
  <1>2. CASE lg.entries[i].state = "INPROGRESS"
    <2> DEFINE E == [lg.entries EXCEPT ![i] = [lg.entries[i] EXCEPT !.state = "COMMITTED"]]
    <2>1. Log!Commit(lg, i) =
            [entries |-> E, lastIndex |-> lg.lastIndex, lastExecuted |-> lg.lastExecuted]
      BY <1>2 DEF IsLog, Log!Commit
    <2>2. [lg.entries[i] EXCEPT !.state = "COMMITTED"] \in Instance
      BY DEF IsLog, Instance
    <2>3. /\ DOMAIN E = DOMAIN lg.entries /\ E \in [DOMAIN E -> Instance]
          /\ \A j \in DOMAIN E : /\ E[j].index = lg.entries[j].index
                                 /\ E[j].cmd = lg.entries[j].cmd
                                 /\ j # i => E[j] = lg.entries[j]
      BY <2>2 DEF IsLog, Instance
    <2> HIDE DEF E
    <2> QED
      BY <2>1, <2>3 DEF IsLog
  <1> QED
    BY <1>1, <1>2

\* Execute takes the next instance and moves lastExecuted on by one.
LEMMA ExecuteAdvances ==
    ASSUME NEW lg, IsLog(lg), Log!IsExecutable(lg)
    PROVE  LET after == Log!Execute(lg) IN
           /\ IsLog(after)
           /\ DOMAIN after.entries = DOMAIN lg.entries
           /\ \A j \in DOMAIN lg.entries : after.entries[j].cmd = lg.entries[j].cmd
           /\ after.lastExecuted = lg.lastExecuted + 1
  <1> DEFINE i == lg.lastExecuted + 1
  <1> DEFINE E == [lg.entries EXCEPT ![i] = [lg.entries[i] EXCEPT !.state = "EXECUTED"]]
  <1>1. i \in DOMAIN lg.entries
    BY DEF Log!IsExecutable, Log!NextIndex
  <1>2. Log!Execute(lg) = [entries |-> E, lastIndex |-> lg.lastIndex, lastExecuted |-> i]
    <2>1. Log!NextIndex(lg) = i
      BY DEF Log!NextIndex
    <2>2. Log!Execute(lg) = [lg EXCEPT !.entries = E, !.lastExecuted = i]
      BY <2>1 DEF Log!Execute, IsLog
    <2> QED
      BY <2>2 DEF IsLog
  <1>3. [lg.entries[i] EXCEPT !.state = "EXECUTED"] \in Instance
    BY <1>1 DEF IsLog, Instance
  <1>4. /\ DOMAIN E = DOMAIN lg.entries /\ E \in [DOMAIN E -> Instance]
        /\ \A j \in DOMAIN E : E[j].index = lg.entries[j].index /\ E[j].cmd = lg.entries[j].cmd
    BY <1>1, <1>3 DEF IsLog, Instance
  <1>5. i \in Nat
    BY DEF IsLog
  <1> HIDE DEF E, i
  <1>6. IsLog([entries |-> E, lastIndex |-> lg.lastIndex, lastExecuted |-> i])
    BY <1>4, <1>5 DEF IsLog
  <1> QED
    BY <1>2, <1>4, <1>6 DEF i

-----------------------------------------------------------------------------
(* The inductive invariant.                                                *)

Values  == {c.value : c \in Command}
Results == Values \cup {KV!kEmpty, KV!kNotFound}
Executed == [cmd : Command, result : Results]

Types ==
    /\ IsLog(log)
    /\ store \in [DOMAIN store -> Values]
    /\ running \in BOOLEAN
    /\ proposer \in [Local -> [pc : {"idle", "append", "commit", "done"}, index : Nat]]
    /\ \A c \in Local : proposer[c].pc # "idle" => proposer[c].index # 0
    /\ accepted \subseteq Remote
    /\ executor \in {"outer", "asleep", "ended"}
    /\ history \in Seq(Executed)
    /\ Len(history) = log.lastExecuted

\* The index command c was given, once it was appended there.
Stands(c, i) ==
    \/ /\ c \in Local
       /\ proposer[c].pc \in {"commit", "done"}
       /\ proposer[c].index = i
    \/ \E inst \in Remote : inst.cmd = c /\ inst.index = i

\* An instance is in the log, and was executed, at the index of its command.
AtItsIndex ==
    /\ \A i \in DOMAIN log.entries : Stands(log.entries[i].cmd, i)
    /\ \A k \in 1 .. Len(history) : Stands(history[k].cmd, k)

IInv == Types /\ ExecutorSleepsIdle /\ CommitFindsIndex /\ AtItsIndex

\* A command stands at one index.
LEMMA OneIndex ==
    ASSUME NEW c, NEW i, NEW j, Stands(c, i), Stands(c, j)
    PROVE  i = j
  BY PartitionAssumption DEF Stands

LEMMA InitIInv == Init => IInv
  <1> SUFFICES ASSUME Init PROVE IInv
    OBVIOUS
  <1>1. IsLog(log)
    BY DEF Init, Log!NewLog, IsLog
  <1>2. Types
    BY <1>1 DEF Init, Types, Log!NewLog, KV!EmptyStore
  <1>3. DOMAIN log.entries = {} /\ Len(history) = 0
    BY DEF Init, Log!NewLog
  <1> QED
    BY <1>2, <1>3 DEF IInv, ExecutorSleepsIdle, CommitFindsIndex, AtItsIndex, Init

\* As long as no appended command gets another index, what stood stands.
LEMMA StandsOn ==
    ASSUME \A c \in Local : proposer[c].pc \in {"commit", "done"} =>
              /\ proposer'[c].pc \in {"commit", "done"}
              /\ proposer'[c].index = proposer[c].index
    PROVE  \A c, i : Stands(c, i) => Stands(c, i)'
  BY DEF Stands

LEMMA AdvanceKeeps ==
    ASSUME IInv, NEW c \in Local, AdvanceLastIndex(c) PROVE IInv'
  <1> USE DEF IInv
  <1>1. IsLog(log') /\ log'.entries = log.entries /\ log'.lastExecuted = log.lastExecuted
    BY AdvanceLastIndexKeeps DEF Types, AdvanceLastIndex
  <1>2. /\ proposer' \in [Local -> [pc : {"idle", "append", "commit", "done"}, index : Nat]]
        /\ \A d \in Local : d # c => proposer'[d] = proposer[d]
        /\ proposer[c].pc = "idle" /\ proposer'[c].pc = "append" /\ proposer'[c].index # 0
    BY DEF AdvanceLastIndex, Types, IsLog
  <1>3. Types'
    BY <1>1, <1>2 DEF Types, AdvanceLastIndex
  <1>4. ExecutorSleepsIdle'
    BY <1>1 DEF ExecutorSleepsIdle, AdvanceLastIndex, Log!IsExecutable, Log!NextIndex
  <1>5. CommitFindsIndex'
    BY <1>1, <1>2 DEF CommitFindsIndex
  <1>6. \A d, i : Stands(d, i) => Stands(d, i)'
    BY <1>2, StandsOn
  <1>7. AtItsIndex'
    BY <1>1, <1>6 DEF AtItsIndex, AdvanceLastIndex
  <1> QED
    BY <1>3, <1>4, <1>5, <1>7

\* The step of Append that both kinds of appending threads share: the new
\* instance is in progress, so that it gives the executor nothing to do.
LEMMA AppendKeeps ==
    ASSUME IInv, NEW inst \in Instance, inst.state = "INPROGRESS",
           log' = Log!Append(log, inst), UNCHANGED <<store, running, executor, history>>,
           Stands(inst.cmd, inst.index)', accepted' \subseteq Remote,
           proposer' \in [Local -> [pc : {"idle", "append", "commit", "done"}, index : Nat]],
           \A c \in Local : proposer'[c].pc # "idle" => proposer'[c].index # 0,
           \A c \in Local : proposer[c].pc \in {"commit", "done"} =>
              /\ proposer'[c].pc \in {"commit", "done"}
              /\ proposer'[c].index = proposer[c].index,
           \A c \in Local : proposer'[c].pc \in {"commit", "done"} =>
              proposer'[c].index \in DOMAIN log.entries \cup {inst.index}
    PROVE  IInv'
  <1> USE DEF IInv
  <1>1. /\ IsLog(log')
        /\ DOMAIN log'.entries = DOMAIN log.entries \cup {inst.index}
        /\ \A i \in DOMAIN log'.entries :
              \/ i = inst.index /\ log'.entries[i] = inst
              \/ i \in DOMAIN log.entries /\ log'.entries[i] = log.entries[i]
        /\ log'.lastExecuted = log.lastExecuted
    BY AppendReplacesOne DEF Types
  <1>2. Types'
    BY <1>1 DEF Types
  <1>3. ExecutorSleepsIdle'
    BY <1>1 DEF ExecutorSleepsIdle, Log!IsExecutable, Log!NextIndex
  <1>4. CommitFindsIndex'
    BY <1>1 DEF CommitFindsIndex
  <1>5. \A d, i : Stands(d, i) => Stands(d, i)'
    BY StandsOn
  <1>6. AtItsIndex'
    BY <1>1, <1>5 DEF AtItsIndex
  <1> QED
    BY <1>2, <1>3, <1>4, <1>6

LEMMA AppendLocalKeeps ==
    ASSUME IInv, NEW c \in Local, AppendLocal(c) PROVE IInv'
  <1>0. New([ballot |-> BallotOf[c], index |-> proposer[c].index, cmd |-> c]) \in Instance
    BY PartitionAssumption DEF IInv, Types, AppendLocal, New, Instance, Command
  <1> PICK inst \in Instance :
             inst = New([ballot |-> BallotOf[c], index |-> proposer[c].index, cmd |-> c])
    BY <1>0
  <1>1. inst.state = "INPROGRESS" /\ inst.cmd = c /\ inst.index = proposer[c].index
    BY DEF New
  <1>2. log' = Log!Append(log, inst) /\ UNCHANGED <<store, running, accepted, executor, history>>
    BY DEF AppendLocal
  <1>3. /\ proposer' \in [Local -> [pc : {"idle", "append", "commit", "done"}, index : Nat]]
        /\ \A d \in Local : d # c => proposer'[d] = proposer[d]
        /\ proposer'[c].pc = "commit" /\ proposer'[c].index = proposer[c].index
        /\ proposer[c].pc = "append"
    BY DEF AppendLocal, IInv, Types
  <1>4. Stands(inst.cmd, inst.index)'
    BY <1>1, <1>3 DEF Stands
  <1>5. \A d \in Local : proposer'[d].pc # "idle" => proposer'[d].index # 0
    BY <1>3 DEF IInv, Types
  <1>6. \A d \in Local : proposer[d].pc \in {"commit", "done"} =>
              /\ proposer'[d].pc \in {"commit", "done"}
              /\ proposer'[d].index = proposer[d].index
    BY <1>3
  <1>7. \A d \in Local : proposer'[d].pc \in {"commit", "done"} =>
              proposer'[d].index \in DOMAIN log.entries \cup {inst.index}
    BY <1>1, <1>3 DEF IInv, CommitFindsIndex
  <1> QED
    BY <1>1, <1>2, <1>3, <1>4, <1>5, <1>6, <1>7, AppendKeeps DEF IInv, Types

LEMMA AcceptKeeps ==
    ASSUME IInv, NEW inst \in Remote, Accept(inst) PROVE IInv'
  <1>1. New(inst) \in Instance /\ New(inst).state = "INPROGRESS"
        /\ New(inst).cmd = inst.cmd /\ New(inst).index = inst.index
    BY PartitionAssumption DEF New, Instance, Command
  <1>2. /\ log' = Log!Append(log, New(inst))
        /\ UNCHANGED <<store, running, proposer, executor, history>>
        /\ accepted' \subseteq Remote
    BY DEF Accept, IInv, Types
  <1>3. Stands(New(inst).cmd, New(inst).index)'
    BY <1>1 DEF Stands
  <1> QED
    BY <1>1, <1>2, <1>3, AppendKeeps DEF IInv, Types, CommitFindsIndex

LEMMA CommitKeeps ==
    ASSUME IInv, NEW c \in Local, Commit(c) PROVE IInv'
  <1> USE DEF IInv
  <1>0. PICK i \in Nat : i = proposer[c].index
    BY DEF Types
  <1>1. /\ i \in DOMAIN log.entries /\ log' = Log!Commit(log, i)
        /\ UNCHANGED <<store, running, accepted, history>>
    BY <1>0 DEF Commit, Log!IsCommittable
  <1>2. /\ IsLog(log')
        /\ DOMAIN log'.entries = DOMAIN log.entries
        /\ \A j \in DOMAIN log.entries : /\ log'.entries[j].cmd = log.entries[j].cmd
                                         /\ j # i => log'.entries[j] = log.entries[j]
        /\ log'.lastExecuted = log.lastExecuted
    BY <1>1, CommitMarks DEF Types
  <1>3. /\ proposer' \in [Local -> [pc : {"idle", "append", "commit", "done"}, index : Nat]]
        /\ \A d \in Local : d # c => proposer'[d] = proposer[d]
        /\ proposer[c].pc = "commit" /\ proposer'[c].pc = "done"
        /\ proposer'[c].index = proposer[c].index
    BY DEF Commit, Types
  <1>4. executor' \in {executor, "outer"}
    BY DEF Commit
  <1>5. Types'
    BY <1>1, <1>2, <1>3, <1>4 DEF Types
  <1>6. ExecutorSleepsIdle'
    BY <1>0, <1>1, <1>4 DEF ExecutorSleepsIdle, Commit, Woken
  <1>7. CommitFindsIndex'
    BY <1>2, <1>3 DEF CommitFindsIndex
  <1>8. \A d, j : Stands(d, j) => Stands(d, j)'
    BY <1>3, StandsOn
  <1>9. AtItsIndex'
    BY <1>1, <1>2, <1>8 DEF AtItsIndex
  <1> QED
    BY <1>5, <1>6, <1>7, <1>9

LEMMA GiveUpKeeps ==
    ASSUME IInv, NEW c \in Local, GiveUp(c) PROVE IInv'
  <1> USE DEF IInv
  <1>1. /\ proposer' \in [Local -> [pc : {"idle", "append", "commit", "done"}, index : Nat]]
        /\ \A d \in Local : d # c => proposer'[d] = proposer[d]
        /\ proposer[c].pc = "commit" /\ proposer'[c].pc = "done"
        /\ proposer'[c].index = proposer[c].index
    BY DEF GiveUp, Types
  <1>2. UNCHANGED <<log, store, running, accepted, executor, history>>
    BY DEF GiveUp
  <1>3. Types'
    BY <1>1, <1>2 DEF Types
  <1>4. ExecutorSleepsIdle'
    BY <1>2 DEF ExecutorSleepsIdle
  <1>5. CommitFindsIndex'
    BY <1>1, <1>2 DEF CommitFindsIndex
  <1>6. \A d, i : Stands(d, i) => Stands(d, i)'
    BY <1>1, StandsOn
  <1>7. AtItsIndex'
    BY <1>2, <1>6 DEF AtItsIndex
  <1> QED
    BY <1>3, <1>4, <1>5, <1>7

\* The store stays a map from keys to values, and a result is one of the three
\* things a client can be told.
LEMMA StoreTypes ==
    ASSUME NEW map, map \in [DOMAIN map -> Values], NEW cmd \in Command
    PROVE  /\ KV!Effect(map, cmd) \in [DOMAIN KV!Effect(map, cmd) -> Values]
           /\ KV!Result(map, cmd) \in Results
  <1>1. cmd.type \in {"GET", "PUT", "DEL"} /\ cmd.value \in Values
    BY PartitionAssumption DEF Values
  <1>2. CASE cmd.type = "GET"
    BY <1>1, <1>2 DEF KV!Effect, KV!Result, KV!Get, Results
  <1>3. CASE cmd.type = "PUT"
    BY <1>1, <1>3 DEF KV!Effect, KV!Result, KV!Put, Results
  <1>4. CASE cmd.type = "DEL"
    BY <1>1, <1>4 DEF KV!Effect, KV!Result, KV!Del, Results
  <1> QED
    BY <1>1, <1>2, <1>3, <1>4

LEMMA ExecuteKeeps ==
    ASSUME IInv, Execute PROVE IInv'
  <1> USE DEF IInv
  <1>0. PICK n \in Nat, cmd \in Command :
           /\ n = Len(history) /\ n = log.lastExecuted
           /\ n + 1 \in DOMAIN log.entries /\ cmd = log.entries[n + 1].cmd
    BY DEF Types, Execute, IsLog, Instance, Log!IsExecutable, Log!NextIndex
  <1> DEFINE e == [cmd |-> cmd, result |-> KV!Result(store, cmd)]
  <1>1. /\ Log!IsExecutable(log) /\ log' = Log!Execute(log)
        /\ store' = KV!Effect(store, cmd) /\ history' = Append(history, e)
        /\ UNCHANGED <<running, proposer, accepted, executor>> /\ executor = "outer"
    BY <1>0 DEF Execute, Log!NextIndex
  <1>2. /\ IsLog(log')
        /\ DOMAIN log'.entries = DOMAIN log.entries
        /\ \A j \in DOMAIN log.entries : log'.entries[j].cmd = log.entries[j].cmd
        /\ log'.lastExecuted = n + 1
    BY <1>0, <1>1, ExecuteAdvances DEF Types
  <1>3. store' \in [DOMAIN store' -> Values] /\ e \in Executed
    BY <1>1, StoreTypes DEF Types, Executed
  <1> HIDE DEF e
  <1>4. /\ history' \in Seq(Executed) /\ Len(history') = n + 1
        /\ \A k \in 1 .. n : history'[k] = history[k]
        /\ history'[n + 1] = e
    BY <1>0, <1>1, <1>3 DEF Types
  <1>5. Types'
    BY <1>1, <1>2, <1>3, <1>4 DEF Types
  <1>6. ExecutorSleepsIdle'
    BY <1>1 DEF ExecutorSleepsIdle
  <1>7. CommitFindsIndex'
    BY <1>1, <1>2 DEF CommitFindsIndex
  <1>8. \A d, i : Stands(d, i) => Stands(d, i)'
    BY <1>1, StandsOn
  <1>9. AtItsIndex'
    BY <1>0, <1>2, <1>4, <1>8 DEF AtItsIndex, e
  <1> QED
    BY <1>5, <1>6, <1>7, <1>9

\* The rest only moves the executor and running_.
LEMMA RestKeeps ==
    ASSUME IInv, ExecuteWaits \/ ExecutorEnds \/ Stop PROVE IInv'
  <1> USE DEF IInv
  <1>1. UNCHANGED <<log, store, proposer, accepted, history>>
    BY DEF ExecuteWaits, ExecutorEnds, Stop
  <1>2. running' \in BOOLEAN /\ executor' \in {"outer", "asleep", "ended"}
    BY DEF ExecuteWaits, ExecutorEnds, Stop, WokenByStop, Types
  <1>3. Types'
    BY <1>1, <1>2 DEF Types
  <1>4. ExecutorSleepsIdle'
    BY <1>1 DEF ExecutorSleepsIdle, ExecuteWaits, ExecutorEnds, Stop, WokenByStop
  <1>5. CommitFindsIndex' /\ AtItsIndex'
    BY <1>1 DEF CommitFindsIndex, AtItsIndex, Stands
  <1> QED
    BY <1>3, <1>4, <1>5

LEMMA StepIInv == IInv /\ [Next]_partitionVars => IInv'
  <1> SUFFICES ASSUME IInv, [Next]_partitionVars PROVE IInv'
    OBVIOUS
  <1>1. ASSUME NEW c \in Local, Proposer(c) PROVE IInv'
    BY <1>1, AdvanceKeeps, AppendLocalKeeps, CommitKeeps, GiveUpKeeps DEF Proposer
  <1>2. ASSUME NEW inst \in Remote, Accept(inst) PROVE IInv'
    BY <1>2, AcceptKeeps
  <1>3. CASE Executor
    BY <1>3, ExecuteKeeps, RestKeeps DEF Executor
  <1>4. CASE Stop
    BY <1>4, RestKeeps
  <1>5. CASE UNCHANGED partitionVars
    BY <1>5 DEF partitionVars, IInv, Types, ExecutorSleepsIdle, CommitFindsIndex, AtItsIndex, Stands
  <1> QED
    BY <1>1, <1>2, <1>3, <1>4, <1>5 DEF Next

LEMMA Inductive == Spec => []IInv
  BY InitIInv, StepIInv, PTL DEF Spec

-----------------------------------------------------------------------------
(* Theorems.                                                               *)

\* Whatever is proposed, replaced and stopped, the log keeps its shape, and as
\* many commands were executed as last_executed_ says.
THEOREM TypeCorrect == Spec => []TypeOK
  <1>1. IInv => TypeOK
    BY DEF IInv, Types, TypeOK, IsLog, Instance
  <1> QED
    BY <1>1, Inductive, PTL

\* No wakeup of cv_executable_ is lost: notify_one is called whenever the next
\* instance becomes executable, though other instances are replaced meanwhile.
THEOREM NoLostWakeup == Spec => []ExecutorSleepsIdle
  <1>1. IInv => ExecutorSleepsIdle
    BY DEF IInv
  <1> QED
    BY <1>1, Inductive, PTL

\* Commit finds its index in the log, so that cv_committable_ is never waited on.
THEOREM CommitNeverWaits == Spec => []CommitFindsIndex
  <1>1. IInv => CommitFindsIndex
    BY DEF IInv
  <1> QED
    BY <1>1, Inductive, PTL

-----------------------------------------------------------------------------
(* The refinement of SequentialStore.  The store holds, of every key, what *)
(* the last command that wrote it has left there.                          *)

Keys == {c.key : c \in Command}

Writes(key) == {j \in 1 .. Len(history) : history[j].cmd.key = key /\ history[j].cmd.type # "GET"}

LastWrite(w, key) ==
    IF w = 0 THEN Writes(key) = {} ELSE w \in Writes(key) /\ \A j \in Writes(key) : j <= w

StoreFits ==
    \A key \in Keys : \E w \in 0 .. Len(history) :
        /\ LastWrite(w, key)
        /\ key \in DOMAIN store <=> w # 0 /\ history[w].cmd.type = "PUT"
        /\ key \in DOMAIN store => store[key] = history[w].cmd.value

\* The abstract store names the last write in the same way.
LEMMA WriterIs ==
    ASSUME Types, NEW key, NEW w \in 0 .. Len(history), LastWrite(w, key)
    PROVE  SS!Writer(key) = w
  <1> DEFINE W == Writes(key)
  <1>1. SS!Writer(key) = IF W = {} THEN 0 ELSE CHOOSE j \in W : \A i \in W : i <= j
    <2>1. DOMAIN history = 1 .. Len(history)
      BY DEF Types
    <2> QED
      BY <2>1 DEF SS!Writer, Writes
  <1>2. W \subseteq Nat
    BY DEF Writes
  <1>3. LastWrite(w, key) <=> IF w = 0 THEN W = {} ELSE w \in W /\ \A j \in W : j <= w
    BY DEF LastWrite
  <1>4. 0 \notin W
    BY DEF Writes
  <1> HIDE DEF W
  <1>5. CASE w = 0
    BY <1>1, <1>3, <1>5
  <1>6. CASE w # 0
    <2>1. \A j \in W : (\A i \in W : i <= j) => j = w
      BY <1>2, <1>3, <1>6
    <2> QED
      BY <1>1, <1>3, <1>6, <2>1
  <1> QED
    BY <1>5, <1>6

\* What executing one command does to one key.
LEMMA EffectOnKey ==
    ASSUME NEW map, NEW cmd \in Command, NEW key
    PROVE  LET after == KV!Effect(map, cmd) IN
           /\ cmd.key # key \/ cmd.type = "GET" =>
                 /\ key \in DOMAIN after <=> key \in DOMAIN map
                 /\ key \in DOMAIN map => after[key] = map[key]
           /\ cmd.key = key /\ cmd.type # "GET" =>
                 /\ key \in DOMAIN after <=> cmd.type = "PUT"
                 /\ key \in DOMAIN after => after[key] = cmd.value
  <1>1. cmd.type \in {"GET", "PUT", "DEL"}
    BY PartitionAssumption
  <1>2. CASE cmd.type = "GET"
    BY <1>2 DEF KV!Effect
  <1>3. CASE cmd.type = "PUT"
    BY <1>3 DEF KV!Effect, KV!Put
  <1>4. CASE cmd.type = "DEL"
    BY <1>4 DEF KV!Effect, KV!Del
  <1> QED
    BY <1>1, <1>2, <1>3, <1>4

\* Execute, seen from the log's next index.
LEMMA ExecuteReads ==
    ASSUME IInv, Execute
    PROVE  \E n \in Nat, cmd \in Command :
             /\ n = Len(history) /\ n + 1 \in DOMAIN log.entries /\ cmd = log.entries[n + 1].cmd
             /\ store' = KV!Effect(store, cmd)
             /\ history' = Append(history, [cmd |-> cmd, result |-> KV!Result(store, cmd)])
  BY DEF IInv, Types, Execute, IsLog, Instance, Log!IsExecutable, Log!NextIndex

LEMMA ExecuteFits ==
    ASSUME IInv, StoreFits, Execute PROVE StoreFits'
  <1>1. PICK n \in Nat, cmd \in Command :
          /\ n = Len(history)
          /\ store' = KV!Effect(store, cmd)
          /\ history' = Append(history, [cmd |-> cmd, result |-> KV!Result(store, cmd)])
    BY ExecuteReads
  <1>2. /\ Len(history') = n + 1
        /\ \A k \in 1 .. n : history'[k] = history[k]
        /\ history'[n + 1].cmd = cmd
    BY <1>1 DEF IInv, Types
  <1> SUFFICES ASSUME NEW key \in Keys
               PROVE  \E w \in 0 .. Len(history') :
                         /\ LastWrite(w, key)'
                         /\ key \in DOMAIN store' <=> w # 0 /\ history'[w].cmd.type = "PUT"
                         /\ key \in DOMAIN store' => store'[key] = history'[w].cmd.value
    BY DEF StoreFits
  <1>3. CASE cmd.key # key \/ cmd.type = "GET"
    <2>1. PICK w \in 0 .. n :
            /\ LastWrite(w, key)
            /\ key \in DOMAIN store <=> w # 0 /\ history[w].cmd.type = "PUT"
            /\ key \in DOMAIN store => store[key] = history[w].cmd.value
      BY <1>1 DEF StoreFits
    <2>2. Writes(key)' = Writes(key)
      BY <1>1, <1>2, <1>3 DEF Writes
    <2>3. LastWrite(w, key)'
      BY <2>1, <2>2 DEF LastWrite
    <2>4. /\ key \in DOMAIN store' <=> key \in DOMAIN store
          /\ key \in DOMAIN store => store'[key] = store[key]
      BY <1>1, <1>3, EffectOnKey
    <2>5. w # 0 => history'[w] = history[w]
      BY <1>2
    <2> QED
      BY <1>2, <2>1, <2>3, <2>4, <2>5
  <1>4. CASE cmd.key = key /\ cmd.type # "GET"
    <2>1. n + 1 \in Writes(key)' /\ \A j \in Writes(key)' : j <= n + 1
      BY <1>2, <1>4 DEF Writes
    <2>2. LastWrite(n + 1, key)'
      BY <2>1 DEF LastWrite
    <2>3. /\ key \in DOMAIN store' <=> cmd.type = "PUT"
          /\ key \in DOMAIN store' => store'[key] = cmd.value
      BY <1>1, <1>4, EffectOnKey
    <2> QED
      BY <1>2, <2>2, <2>3
  <1> QED
    BY <1>3, <1>4

LEMMA StepFits == IInv /\ StoreFits /\ [Next]_partitionVars => StoreFits'
  <1> SUFFICES ASSUME IInv, StoreFits, [Next]_partitionVars PROVE StoreFits'
    OBVIOUS
  <1>1. CASE Execute
    BY <1>1, ExecuteFits
  <1>2. CASE UNCHANGED <<store, history>>
    BY <1>2 DEF StoreFits, LastWrite, Writes
  <1>3. Execute \/ UNCHANGED <<store, history>>
    BY DEF Next, Proposer, Executor, AdvanceLastIndex, AppendLocal, Commit, GiveUp, Accept,
           ExecuteWaits, ExecutorEnds, Stop, partitionVars
  <1> QED
    BY <1>1, <1>2, <1>3

LEMMA Fits == Spec => []StoreFits
  <1>1. Init => StoreFits
    BY DEF Init, KV!EmptyStore, StoreFits, LastWrite, Writes
  <1> QED
    BY <1>1, StepFits, Inductive, PTL DEF Spec

\* One command is executed, for the first time, and its answer is the one the
\* commands before it call for.
LEMMA ExecuteTakesEffect ==
    ASSUME IInv, StoreFits, Execute PROVE SS!Next
  <1>1. PICK n \in Nat, cmd \in Command :
          /\ n = Len(history) /\ n + 1 \in DOMAIN log.entries /\ cmd = log.entries[n + 1].cmd
          /\ history' = Append(history, [cmd |-> cmd, result |-> KV!Result(store, cmd)])
    BY ExecuteReads
  <1>2. \A k \in DOMAIN history : history[k].cmd # cmd
    <2>1. Stands(cmd, n + 1)
      BY <1>1 DEF IInv, AtItsIndex
    <2>2. DOMAIN history = 1 .. n
      BY <1>1 DEF IInv, Types
    <2>3. \A k \in 1 .. n : Stands(history[k].cmd, k)
      BY <1>1 DEF IInv, AtItsIndex
    <2>4. \A k \in 1 .. n : k # n + 1
      OBVIOUS
    <2> QED
      BY <2>1, <2>2, <2>3, <2>4, OneIndex
  <1>3. KV!Result(store, cmd) = SS!Answer(cmd)
    <2>1. PICK w \in 0 .. Len(history) :
            /\ LastWrite(w, cmd.key)
            /\ cmd.key \in DOMAIN store <=> w # 0 /\ history[w].cmd.type = "PUT"
            /\ cmd.key \in DOMAIN store => store[cmd.key] = history[w].cmd.value
      BY DEF StoreFits, Keys
    <2>2. SS!Writer(cmd.key) = w
      BY <2>1, WriterIs DEF IInv
    <2>3. SS!Present(cmd.key) <=> cmd.key \in DOMAIN store
      BY <2>1, <2>2 DEF SS!Present
    <2>4. cmd.key \in DOMAIN store => store[cmd.key] # KV!kEmpty
      BY PartitionAssumption DEF IInv, Types, Values
    <2>5. cmd.type \in {"GET", "PUT", "DEL"}
      BY PartitionAssumption
    <2> QED
      BY <2>1, <2>2, <2>3, <2>4, <2>5
      DEF KV!Result, KV!Get, KV!kEmpty, KV!kNotFound, SS!Answer
  <1> QED
    BY <1>1, <1>2, <1>3 DEF SS!Next, SS!TakeEffect

\* To its clients a partition is a sequential store: each command it executes
\* takes effect once and is answered by what came before it, although instances
\* are replaced under the executor and indexes are given out out of order.
THEOREM IsSequentialStore == Spec => ImplementsSequentialStore
  <1>1. Init => SS!Init
    BY DEF Init, SS!Init
  <1>2. IInv /\ StoreFits /\ [Next]_partitionVars => [SS!Next]_history
    <2> SUFFICES ASSUME IInv, StoreFits, Next PROVE SS!Next \/ UNCHANGED history
      BY DEF partitionVars
    <2>1. CASE Execute
      BY <2>1, ExecuteTakesEffect
    <2>2. Execute \/ UNCHANGED history
      BY DEF Next, Proposer, Executor, AdvanceLastIndex, AppendLocal, Commit, GiveUp, Accept,
             ExecuteWaits, ExecutorEnds, Stop
    <2> QED
      BY <2>1, <2>2
  <1> QED
    BY <1>1, <1>2, Inductive, Fits, PTL DEF Spec, ImplementsSequentialStore, SS!Spec

=============================================================================
