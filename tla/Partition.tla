----------------------------- MODULE Partition -----------------------------
(***************************************************************************)
(* One partition of a replica: its CommonLog and its store, and the        *)
(* threads that meet there: those of Replicate, which take an index,       *)
(* append and commit; the handlers of Accept, which append what another    *)
(* leader proposes; the executor thread; and Stop (common_log.{h,cc},      *)
(* kvstore.cc, replicant.cc).                                              *)
(*                                                                         *)
(* Each action is one section under the log's mu_, the notification of a   *)
(* condition variable included.                                            *)
(***************************************************************************)
EXTENDS Integers, Sequences, FiniteSets

CONSTANTS
    Local,      \* commands this replica proposes: records [id, type, key, value]
    BallotOf,   \* the ballot it leads with when it proposes each
    Remote      \* instances [ballot, index, cmd] other leaders propose

Command == Local \cup {inst.cmd : inst \in Remote}

Log == INSTANCE CommonLog
KV  == INSTANCE KVStore

\* A command is proposed once; Parse lets in three types and no empty value.
ASSUME PartitionAssumption ==
    /\ BallotOf \in [Local -> Nat]
    /\ \A inst \in Remote : /\ inst.ballot \in Nat /\ inst.index \in Nat \ {0}
                            /\ inst.cmd \notin Local
    /\ \A a, b \in Remote : a.cmd = b.cmd => a = b
    /\ \A c \in Command : c.type \in {"GET", "PUT", "DEL"} /\ c.value # KV!kEmpty

VARIABLES
    log,       \* log_, last_index_ and last_executed_: see CommonLog
    store,     \* kv_store_
    running,   \* running_
    proposer,  \* the Replicate thread of each local command, and its index
    accepted,  \* remote instances whose handler has appended
    executor,  \* the executor thread
    history    \* what Execute returned, in order

partitionVars == <<log, store, running, proposer, accepted, executor, history>>

TypeOK ==
    /\ log.lastIndex \in Nat /\ log.lastExecuted \in Nat
    /\ \A i \in DOMAIN log.entries :
          /\ log.entries[i].index = i /\ log.entries[i].cmd \in Command
          /\ log.entries[i].state \in {"INPROGRESS", "COMMITTED", "EXECUTED"}
    /\ running \in BOOLEAN
    /\ proposer \in [Local -> [pc : {"idle", "append", "commit", "done"}, index : Nat]]
    /\ accepted \subseteq Remote
    /\ executor \in {"outer", "asleep", "ended"}
    /\ Len(history) = log.lastExecuted

Init ==
    /\ log = Log!NewLog
    /\ store = KV!EmptyStore
    /\ running = TRUE
    /\ proposer = [c \in Local |-> [pc |-> "idle", index |-> 0]]
    /\ accepted = {}
    /\ executor = "outer"
    /\ history = <<>>

-----------------------------------------------------------------------------
(* Append, and the threads that call it.                                   *)

New(inst) == [ballot |-> inst.ballot, index |-> inst.index, cmd |-> inst.cmd,
              state |-> "INPROGRESS"]

AdvanceLastIndex(c) ==
    /\ proposer[c].pc = "idle"
    /\ log' = Log!AdvanceLastIndex(log)
    /\ proposer' = [proposer EXCEPT ![c] = [pc |-> "append", index |-> log.lastIndex + 1]]
    /\ UNCHANGED <<store, running, accepted, executor, history>>

AppendLocal(c) ==
    LET inst == [ballot |-> BallotOf[c], index |-> proposer[c].index, cmd |-> c] IN
    /\ proposer[c].pc = "append"
    /\ log' = Log!Append(log, New(inst))
    /\ proposer' = [proposer EXCEPT ![c].pc = "commit"]
    /\ UNCHANGED <<store, running, accepted, executor, history>>

Accept(inst) ==
    /\ inst \notin accepted
    /\ log' = Log!Append(log, New(inst))
    /\ accepted' = accepted \cup {inst}
    /\ UNCHANGED <<store, running, proposer, executor, history>>

-----------------------------------------------------------------------------
(* Commit, when a majority has stored the command.  Its wait for the index *)
(* is never entered (CommitFindsIndex), and cv_committable_ is left out.   *)

\* Slip: the executor is notified before the state is set.
WokenEarly(after) == Log!IsExecutable(log)

\* cv_executable_.notify_one()
Woken(after) == Log!IsExecutable(after)

Commit(c) ==
    LET i == proposer[c].index
        after == Log!Commit(log, i)
    IN  /\ proposer[c].pc = "commit"
        /\ Log!IsCommittable(log, i)
        /\ log' = after
        /\ executor' = IF executor = "asleep" /\ Woken(after) THEN "outer" ELSE executor
        /\ proposer' = [proposer EXCEPT ![c].pc = "done"]
        /\ UNCHANGED <<store, running, accepted, history>>

\* No majority: Commit is not called.
GiveUp(c) ==
    /\ proposer[c].pc = "commit"
    /\ proposer' = [proposer EXCEPT ![c].pc = "done"]
    /\ UNCHANGED <<log, store, running, accepted, executor, history>>

-----------------------------------------------------------------------------
(* Execute.                                                                *)

Execute ==
    LET cmd == log.entries[Log!NextIndex(log)].cmd IN
    /\ executor = "outer"
    /\ running
    /\ Log!IsExecutable(log)
    /\ log' = Log!Execute(log)
    /\ store' = KV!Effect(store, cmd)
    /\ history' = Append(history, [cmd |-> cmd, result |-> KV!Result(store, cmd)])
    /\ UNCHANGED <<running, proposer, accepted, executor>>

ExecuteWaits ==
    /\ executor = "outer"
    /\ running
    /\ ~ Log!IsExecutable(log)
    /\ executor' = "asleep"
    /\ UNCHANGED <<log, store, running, proposer, accepted, history>>

ExecutorEnds ==
    /\ executor = "outer"
    /\ ~ running
    /\ executor' = "ended"
    /\ UNCHANGED <<log, store, running, proposer, accepted, history>>

\* Slip: the executor is not notified.
NotWokenByStop == executor

WokenByStop == IF executor = "asleep" THEN "outer" ELSE executor

Stop ==
    /\ running
    /\ running' = FALSE
    /\ executor' = WokenByStop
    /\ UNCHANGED <<log, store, proposer, accepted, history>>

-----------------------------------------------------------------------------
Proposer(c) == AdvanceLastIndex(c) \/ AppendLocal(c) \/ Commit(c) \/ GiveUp(c)

Executor == Execute \/ ExecuteWaits \/ ExecutorEnds

Next ==
    \/ \E c \in Local : Proposer(c)
    \/ \E inst \in Remote : Accept(inst)
    \/ Executor
    \/ Stop

Spec == Init /\ [][Next]_partitionVars

\* The executor runs.  Nobody need propose, commit or stop.
FairSpec == Spec /\ WF_partitionVars(Executor)

-----------------------------------------------------------------------------
(* Properties.                                                             *)

\* The executor sleeps only while there is nothing for it to execute and the log
\* is running, although other leaders' instances replace what it waits for or
\* has executed, and Commit notifies it only when the next index is committed.
ExecutorSleepsIdle == executor = "asleep" => running /\ ~ Log!IsExecutable(log)

\* Commit never has to wait: whoever replaces an instance, the index stays.
CommitFindsIndex ==
    \A c \in Local : proposer[c].pc \in {"commit", "done"} => proposer[c].index \in DOMAIN log.entries

\* What is committed, with all before it, is executed, unless the log is stopped
\* or another leader's instance comes first.
Due(i) == \A j \in log.lastExecuted + 1 .. i :
              j \in DOMAIN log.entries /\ log.entries[j].state = "COMMITTED"

CommittedIsExecuted ==
    \A i \in 1 .. Cardinality(Command) :
        Due(i) ~> \/ log.lastExecuted >= i
                  \/ ~ running
                  \/ \E j \in DOMAIN log.entries : j <= i /\ log.entries[j].state = "INPROGRESS"

\* To its clients the partition is a sequential store.
SS == INSTANCE SequentialStore

ImplementsSequentialStore == SS!Spec

=============================================================================
