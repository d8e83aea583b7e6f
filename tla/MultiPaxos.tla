----------------------------- MODULE MultiPaxos -----------------------------
(***************************************************************************)
(* Replication: a command is given an index and a ballot by the replica    *)
(* its client is connected to, appended there, offered to the others by    *)
(* Accept calls, committed once a majority has answered OK, executed in    *)
(* index order by the partition's executor thread and answered.            *)
(*                                                                         *)
(* Composes Election, which owns ballot_ and the threads that change it,   *)
(* with one CommonLog per replica and partition (multipaxos.cc,            *)
(* common_log.cc and the executor thread of replicant.cc).                 *)
(***************************************************************************)
EXTENDS Ballots, FiniteSets, Sequences

CONSTANTS
    NumPeers, PoolSize, MaxPrepares, MaxBeats, MaxFailures,   \* see Election
    MaxAcceptFailures,   \* bound: Accept calls that end with a status other than OK
    PartitionSize,   \* config["partition_size"], the number of logs_
    Command,         \* requests; each one is sent once, by one client
    Home,            \* the replica a command's client is connected to
    PartitionOf      \* hash_function(key) % partition_size_

Partitions == 0 .. PartitionSize - 1

VARIABLES
    ballot, commitReceived, prep, beat, calls, failures, held, regressed,  \* see Election
    log,       \* logs_ of every replica
    prepLast,  \* max_last_index_ of the replica's prepare phase
    op,        \* the thread that runs Replicate for a command
    accepts,   \* Accept calls on their way, with their handler
    acceptFailures,   \* Accept calls failed so far
    applied,   \* commands every kv_store_ has executed, in order
    answered   \* commands whose client got the result of their execution

electionVars == <<ballot, commitReceived, prep, beat, calls, failures, held, regressed>>
replicationVars == <<log, prepLast, op, accepts, acceptFailures, applied, answered>>
vars == <<electionVars, replicationVars>>

E   == INSTANCE Election
Log == INSTANCE CommonLog

Nodes == E!Nodes

ASSUME ReplicationAssumption ==
    /\ E!ElectionAssumption
    /\ PartitionSize \in Nat \ {0}
    /\ MaxAcceptFailures \in Nat
    /\ Home \in [Command -> Nodes]
    /\ PartitionOf \in [Command -> Partitions]

States == {"INPROGRESS", "COMMITTED", "EXECUTED"}

Instance == [ballot : Nat, index : Nat \ {0}, cmd : Command, state : States]

IsLog(lg) ==
    /\ lg = [entries |-> lg.entries, lastIndex |-> lg.lastIndex, lastExecuted |-> lg.lastExecuted]
    /\ lg.lastIndex \in Nat
    /\ lg.lastExecuted \in Nat
    /\ DOMAIN lg.entries \subseteq Nat \ {0}
    /\ lg.entries \in [DOMAIN lg.entries -> Instance]

\* pc of a Replicate thread, down to its result: "ok" is kOk, "failed" stands
\* for kRetry and kSomeoneElseLeader, which differ in what the client is told.
Op == [pc : {"idle", "leading", "indexed", "checked", "wait", "ok", "failed"},
       ballot : Nat, index : Nat, oks : SUBSET Nodes, done : SUBSET Nodes]

AcceptCall == [cmd : Command, to : Nodes,
               stage : {"sent", "passed", "refused", "appended", "followed", "ok", "reject"},
               reply : Nat, awaited : BOOLEAN]

TypeOK ==
    /\ E!TypeOK
    /\ log = [n \in Nodes |-> [p \in Partitions |-> log[n][p]]]
    /\ \A n \in Nodes, p \in Partitions : IsLog(log[n][p])
    /\ prepLast \in [Nodes -> Nat]
    /\ op \in [Command -> Op]
    /\ accepts \subseteq AcceptCall
    /\ acceptFailures \in Nat
    /\ applied \in [Nodes -> [Partitions -> Seq(Command)]]
    /\ answered \subseteq Command

Init ==
    /\ E!Init
    /\ log = [n \in Nodes |-> [p \in Partitions |-> Log!NewLog]]
    /\ prepLast = [n \in Nodes |-> 0]
    /\ op = [c \in Command |-> [pc |-> "idle", ballot |-> 0, index |-> 0,
                                oks |-> {}, done |-> {}]]
    /\ accepts = {}
    /\ acceptFailures = 0
    /\ applied = [n \in Nodes |-> [p \in Partitions |-> <<>>]]
    /\ answered = {}

\* The log a command goes to on replica n, and the instance that offers it.
LogOf(n, c) == log[n][PartitionOf[c]]

Proposal(c) == [ballot |-> op[c].ballot, index |-> op[c].index, cmd |-> c,
                state |-> "INPROGRESS"]

\* All calls of a replica share its thread pool.
PoolFree(n) ==
    Cardinality(E!InFlight(n)) +
    Cardinality({a \in accepts : Home[a.cmd] = n /\ a.awaited /\ a.stage # "sent"}) < PoolSize

-----------------------------------------------------------------------------
(* The steps of the election, and what they do to logs_[0].                *)

StartCampaign(n) ==
    /\ E!StartCampaign(n)
    /\ prepLast' = [prepLast EXCEPT ![n] = log[n][0].lastIndex]
    /\ UNCHANGED <<log, op, accepts, acceptFailures, applied, answered>>

BecomeLeader(n) ==
    /\ E!BecomeLeader(n)
    /\ log' = [log EXCEPT ![n][0] = Log!SetLastIndex(@, prepLast[n])]
    /\ UNCHANGED <<prepLast, op, accepts, acceptFailures, applied, answered>>

ElectionStep ==
    /\ \/ \E n \in Nodes : \/ E!PrepareThreadLoop(n)
                           \/ E!SkipCampaign(n)
                           \/ E!CampaignWon(n)
                           \/ E!CampaignLost(n)
                           \/ E!CommitThreadStep(n)
       \/ \E c \in calls : /\ c.stage = "sent" /\ c.awaited => PoolFree(c.from)
                           /\ (E!Handler(c) \/ E!Callback(c) \/ E!CallFails(c))
    /\ UNCHANGED replicationVars

-----------------------------------------------------------------------------
(* Replicate and RunAcceptPhase, on the thread that serves the client.     *)

Replicate(c) ==
    LET b == ballot[Home[c]] IN
    /\ op[c].pc = "idle"
    /\ op' = [op EXCEPT ![c] =
                IF IsLeader(b, Home[c])
                THEN [@ EXCEPT !.pc = "leading", !.ballot = b]
                ELSE [@ EXCEPT !.pc = "failed"]]
    /\ UNCHANGED <<electionVars, log, prepLast, accepts, acceptFailures, applied, answered>>

AdvanceLastIndex(c) ==
    /\ op[c].pc = "leading"
    /\ log' = [log EXCEPT ![Home[c]][PartitionOf[c]] = Log!AdvanceLastIndex(@)]
    /\ op' = [op EXCEPT ![c] = [@ EXCEPT !.pc = "indexed",
                                         !.index = LogOf(Home[c], c).lastIndex + 1]]
    /\ UNCHANGED <<electionVars, prepLast, accepts, acceptFailures, applied, answered>>

\* The index is not given back when the ballot has moved on.
CheckBallot(c) ==
    /\ op[c].pc = "indexed"
    /\ op' = [op EXCEPT ![c].pc = IF op[c].ballot = ballot[Home[c]]
                                  THEN "checked" ELSE "failed"]
    /\ UNCHANGED <<electionVars, log, prepLast, accepts, acceptFailures, applied, answered>>

\* The replica's own Append and vote, and the posts of the Accept calls.
ProposeToAll(c) ==
    /\ op[c].pc = "checked"
    /\ log' = [log EXCEPT ![Home[c]][PartitionOf[c]] = Log!Append(@, Proposal(c))]
    /\ op' = [op EXCEPT ![c] = [@ EXCEPT !.pc = "wait", !.oks = {Home[c]},
                                         !.done = {Home[c]}]]
    /\ accepts' = accepts \cup
          [cmd : {c}, to : Nodes \ {Home[c]}, stage : {"sent"}, reply : {0}, awaited : {TRUE}]
    /\ UNCHANGED <<electionVars, prepLast, acceptFailures, applied, answered>>

\* The end of the wait on the call's state: a majority commits, even if the
\* replica no longer leads.
CommitByMajority(c) ==
    /\ op[c].pc = "wait"
    /\ E!Majority(op[c].oks)
    /\ Log!IsCommittable(LogOf(Home[c], c), op[c].index)
    /\ log' = [log EXCEPT ![Home[c]][PartitionOf[c]] = Log!Commit(@, op[c].index)]
    /\ op' = [op EXCEPT ![c].pc = "ok"]
    /\ UNCHANGED <<electionVars, prepLast, accepts, acceptFailures, applied, answered>>

GiveUp(c) ==
    /\ op[c].pc = "wait"
    /\ ~ E!Majority(op[c].oks)
    /\ ~ IsLeader(ballot[Home[c]], Home[c]) \/ op[c].done = Nodes
    /\ op' = [op EXCEPT ![c].pc = "failed"]
    /\ UNCHANGED <<electionVars, log, prepLast, accepts, acceptFailures, applied, answered>>

-----------------------------------------------------------------------------
(* The Accept handler.  Between its comparisons with ballot_ other threads *)
(* of the replica move the ballot.                                         *)

StepAccept(a, stage) == accepts' = (accepts \ {a}) \cup {[a EXCEPT !.stage = stage]}

AcceptCompare(a) ==
    /\ a.stage = "sent"
    /\ a.awaited => PoolFree(Home[a.cmd])
    /\ StepAccept(a, IF op[a.cmd].ballot >= ballot[a.to] THEN "passed" ELSE "refused")
    /\ UNCHANGED <<electionVars, log, prepLast, op, acceptFailures, applied, answered>>

AcceptAppend(a) ==
    /\ a.stage = "passed"
    /\ log' = [log EXCEPT ![a.to][PartitionOf[a.cmd]] = Log!Append(@, Proposal(a.cmd))]
    /\ StepAccept(a, "appended")
    /\ UNCHANGED <<electionVars, prepLast, op, acceptFailures, applied, answered>>

AcceptFollow(a) ==
    /\ a.stage = "appended"
    /\ E!BecomeFollower(a.to, op[a.cmd].ballot)
    /\ StepAccept(a, "followed")
    /\ UNCHANGED <<commitReceived, beat, calls, failures, regressed>>
    /\ UNCHANGED <<log, prepLast, op, acceptFailures, applied, answered>>

\* Slip: the second comparison is forgotten.
NeverOutdated(a) == FALSE

Outdated(a) == op[a.cmd].ballot < ballot[a.to]

\* Slip: a rejection names the ballot the caller would have needed.
SuggestedBallot(m) == ballot[m] + kRoundIncrement

RejectBallot(m) == ballot[m]

\* The last comparison decides the answer; a response left alone says OK.
AcceptAnswer(a) ==
    /\ a.stage \in {"refused", "followed"}
    /\ accepts' = (accepts \ {a}) \cup
          (IF a.awaited
           THEN {[a EXCEPT !.stage = IF Outdated(a) THEN "reject" ELSE "ok",
                           !.reply = IF Outdated(a) THEN RejectBallot(a.to) ELSE 0]}
           ELSE {})
    /\ UNCHANGED <<electionVars, log, prepLast, op, acceptFailures, applied, answered>>

\* Slip: a call that is not OK is not counted at all.
CountedIfOk(a, oks) ==
    IF op[a.cmd].pc = "wait" /\ oks # {}
    THEN [op EXCEPT ![a.cmd].done = @ \cup oks, ![a.cmd].oks = @ \cup oks]
    ELSE op

Counted(a, oks) ==
    IF op[a.cmd].pc = "wait"
    THEN [op EXCEPT ![a.cmd].done = @ \cup {a.to}, ![a.cmd].oks = @ \cup oks]
    ELSE op

AcceptCallback(a) ==
    /\ \/ /\ a.stage = "ok"
          /\ op' = Counted(a, {a.to})
          /\ UNCHANGED <<ballot, prep, held>>
       \/ /\ a.stage = "reject"
          /\ op' = Counted(a, {})
          /\ E!BecomeFollower(Home[a.cmd], a.reply)
    /\ accepts' = accepts \ {a}
    /\ UNCHANGED <<commitReceived, beat, calls, failures, regressed>>
    /\ UNCHANGED <<log, prepLast, acceptFailures, applied, answered>>

AcceptFails(a) ==
    /\ a.awaited
    /\ a.stage = "sent" => PoolFree(Home[a.cmd])
    /\ acceptFailures < MaxAcceptFailures
    /\ acceptFailures' = acceptFailures + 1
    /\ op' = Counted(a, {})
    /\ accepts' = (accepts \ {a}) \cup
          (IF a.stage \in {"ok", "reject"} THEN {} ELSE {[a EXCEPT !.awaited = FALSE]})
    /\ UNCHANGED <<electionVars, log, prepLast, applied, answered>>

-----------------------------------------------------------------------------
(* The executor thread of a partition: execute, then answer the client if  *)
(* it is one of this replica's.                                            *)

Execute(n, p) ==
    LET lg == log[n][p]
        c  == lg.entries[Log!NextIndex(lg)].cmd
    IN  /\ Log!IsExecutable(lg)
        /\ log' = [log EXCEPT ![n][p] = Log!Execute(@)]
        /\ applied' = [applied EXCEPT ![n][p] = Append(@, c)]
        /\ answered' = IF Home[c] = n THEN answered \cup {c} ELSE answered
        /\ UNCHANGED <<electionVars, prepLast, op, accepts, acceptFailures>>

-----------------------------------------------------------------------------
OpStep(c) ==
    \/ Replicate(c)
    \/ AdvanceLastIndex(c)
    \/ CheckBallot(c)
    \/ ProposeToAll(c)
    \/ CommitByMajority(c)
    \/ GiveUp(c)

AcceptStep(a) ==
    \/ AcceptCompare(a)
    \/ AcceptAppend(a)
    \/ AcceptFollow(a)
    \/ AcceptAnswer(a)
    \/ AcceptCallback(a)

Next ==
    \/ ElectionStep
    \/ \E n \in Nodes : StartCampaign(n) \/ BecomeLeader(n)
    \/ \E c \in Command : OpStep(c)
    \/ \E a \in accepts : AcceptStep(a) \/ AcceptFails(a)
    \/ \E n \in Nodes, p \in Partitions : Execute(n, p)

Spec == Init /\ [][Next]_vars

-----------------------------------------------------------------------------
(* Fairness: every thread, handler and callback goes on; an executor waits *)
(* only for its next index to be committed.                                *)

PrepareThreadStep(n) ==
    \/ StartCampaign(n)
    \/ BecomeLeader(n)
    \/ /\ \/ E!PrepareThreadLoop(n) \/ E!SkipCampaign(n)
          \/ E!CampaignWon(n) \/ E!CampaignLost(n)
       /\ UNCHANGED replicationVars

ElectionCall(n) ==
    /\ \E c \in E!Pending(n) : /\ c.stage = "sent" /\ c.awaited => PoolFree(n)
                              /\ (E!Handler(c) \/ E!Callback(c))
    /\ UNCHANGED replicationVars

PendingAccepts(n) ==
    {a \in accepts : Home[a.cmd] = n /\ (a.awaited \/ a.stage # "sent")}

Fairness ==
    /\ \A n \in Nodes :
          /\ WF_vars(PrepareThreadStep(n))
          /\ WF_vars(E!CommitThreadStep(n) /\ UNCHANGED replicationVars)
          /\ WF_vars(ElectionCall(n))
          /\ WF_vars(\E a \in PendingAccepts(n) : AcceptStep(a))
          /\ \A p \in Partitions : WF_vars(Execute(n, p))
    /\ \A c \in Command : WF_vars(OpStep(c))

-----------------------------------------------------------------------------
(* Properties.                                                             *)

\* An index and a ballot stand for one command, in every log of a partition
\* and in every proposal on its way ("Insert case3" in common_log.cc): a
\* replica that keeps the old instance at equal ballots loses nothing.
Proposed(c) == op[c].pc \in {"wait", "ok", "failed"} /\ op[c].done # {}

OneCommandPerBallot ==
    /\ \A n \in Nodes, p \in Partitions : \A i \in DOMAIN log[n][p].entries :
          LET e == log[n][p].entries[i]
          IN  /\ Proposed(e.cmd) /\ PartitionOf[e.cmd] = p
              /\ e.index = i /\ e.index = op[e.cmd].index /\ e.ballot = op[e.cmd].ballot
    /\ \A c, d \in Command :
          /\ Proposed(c) /\ Proposed(d) /\ PartitionOf[c] = PartitionOf[d]
          /\ op[c].ballot = op[d].ballot /\ op[c].index = op[d].index
          => c = d

\* Holds(m, c): replica m stores command c at its index, or an instance of a
\* higher ballot, unless BecomeLeader once took m's ballot down: an OK that m
\* gives by a ballot it should no longer follow may be backed by nothing.
Holds(m, c) ==
    \/ /\ op[c].index \in DOMAIN LogOf(m, c).entries
       /\ LET e == LogOf(m, c).entries[op[c].index]
          IN  e.cmd = c \/ e.ballot > op[c].ballot
    \/ m \in regressed

\* Every OK to an Accept, counted or on its way, is backed by an instance in
\* the log of the replica that gave it, however its ballot moved meanwhile.
AckedIsStored ==
    /\ \A c \in Command : \A m \in op[c].oks : Holds(m, c)
    /\ \A a \in accepts : a.stage = "ok" => Holds(a.to, a.cmd)

\* A client gets a result only of a command that a majority has taken into
\* its logs: from the quorum, over Commit, to the executor and its Write.  A
\* replica whose ballot once went down counts for it whatever it stores.
AnsweredIsReplicated ==
    \A c \in answered : /\ op[c].pc = "ok"
                        /\ 2 * Cardinality({m \in Nodes : Holds(m, c)}) > NumPeers

Stored(n, c) == \E i \in DOMAIN LogOf(n, c).entries : LogOf(n, c).entries[i].cmd = c

\* With one candidate a majority stores the command itself, and goes on storing
\* it, whatever was answered before and whatever that candidate's next campaign
\* and its late calls replace.
AnsweredIsKept ==
    \A c \in answered : 2 * Cardinality({m \in Nodes : Stored(m, c)}) > NumPeers

\* The executors apply to a store, k-th, the command that was given index k:
\* nothing is skipped, repeated or applied under another command's index.
AppliedAtItsIndex ==
    \A n \in Nodes, p \in Partitions :
        /\ Len(applied[n][p]) = log[n][p].lastExecuted
        /\ \A k \in DOMAIN applied[n][p] :
              LET c == applied[n][p][k] IN op[c].index = k /\ PartitionOf[c] = p

\* What is committed or executed at an index is never replaced by another
\* command ("Insert case2" in common_log.cc).
KeepsCommitted(n) ==
    \A p \in Partitions : \A i \in DOMAIN log[n][p].entries :
        log[n][p].entries[i].state # "INPROGRESS"
            => log'[n][p].entries[i].cmd = log[n][p].entries[i].cmd

CommittedStays == [][\A n \in Nodes : KeepsCommitted(n)]_vars

\* Every Replicate comes to an end, whatever fails.
ReplicateEnds == \A c \in Command : <>(op[c].pc \in {"ok", "failed"})

\* When every earlier index of the partition went to a command that was
\* committed, a committed command is executed and its client answered.
NoHoleBefore(c) ==
    \A i \in 1 .. op[c].index : \E d \in Command :
        /\ Home[d] = Home[c] /\ PartitionOf[d] = PartitionOf[c]
        /\ op[d].index = i /\ op[d].pc = "ok"

CommittedIsAnswered ==
    \A c \in Command : op[c].pc = "ok" /\ NoHoleBefore(c) ~> c \in answered

-----------------------------------------------------------------------------
(* Refinement.                                                             *)

RL == INSTANCE ReplicatedLog WITH
        slot      <- [c \in Command |-> IF Proposed(c) THEN op[c].index ELSE 0],
        holders   <- [c \in Command |-> {n \in Nodes : Stored(n, c)}],
        committed <- {c \in Command : op[c].pc = "ok"},
        executed  <- applied

\* With one candidate, replication is the replicated log it is meant to be:
\* no index taken twice, no stored command lost, no commit short of a
\* majority, every store a prefix of the same sequence of commands.
ImplementsReplicatedLog == RL!Spec

\* Replication moves the ballots only as the election allows.
ImplementsElection == E!Spec

=============================================================================
