-------------------------- MODULE MultiPaxosProofs --------------------------
(***************************************************************************)
(* Replication, for any cluster, any commands and any number of campaigns  *)
(* and failures: what it does to the ballots is an election, an index and  *)
(* a ballot stand for one command, and a client is answered only for what  *)
(* a majority stores.                                                      *)
(***************************************************************************)
EXTENDS MultiPaxos, FiniteSetTheorems, TLAPS

-----------------------------------------------------------------------------
(* What the operations of a log do to it.                                  *)

\* AdvanceLastIndex gives out the next index and leaves the instances alone.
LEMMA AdvanceLastIndexKeeps ==
    ASSUME NEW lg, IsLog(lg)
    PROVE  /\ IsLog(Log!AdvanceLastIndex(lg))
           /\ Log!AdvanceLastIndex(lg).entries = lg.entries
           /\ Log!AdvanceLastIndex(lg).lastIndex = lg.lastIndex + 1
           /\ Log!AdvanceLastIndex(lg).lastExecuted = lg.lastExecuted
  BY DEF IsLog, Log!AdvanceLastIndex

\* SetLastIndex never takes the last index down.
LEMMA SetLastIndexKeeps ==
    ASSUME NEW lg, IsLog(lg), NEW i \in Nat
    PROVE  /\ IsLog(Log!SetLastIndex(lg, i))
           /\ Log!SetLastIndex(lg, i).entries = lg.entries
           /\ Log!SetLastIndex(lg, i).lastIndex >= lg.lastIndex
           /\ Log!SetLastIndex(lg, i).lastIndex \in {lg.lastIndex, i}
           /\ Log!SetLastIndex(lg, i).lastExecuted = lg.lastExecuted
  BY DEF IsLog, Log!SetLastIndex, Log!Larger

\* Append puts the new instance at its index if nothing is there or something
\* of a lower ballot; it takes nothing away and touches no other index.
LEMMA AppendReplacesOne ==
    ASSUME NEW lg, IsLog(lg), NEW inst \in Instance
    PROVE  LET after == Log!Append(lg, inst) IN
           /\ IsLog(after)
           /\ DOMAIN after.entries = DOMAIN lg.entries \cup {inst.index}
           /\ \A i \in DOMAIN after.entries :
                 \/ /\ i = inst.index /\ after.entries[i] = inst
                    /\ i \in DOMAIN lg.entries => inst.ballot > lg.entries[i].ballot
                 \/ /\ i \in DOMAIN lg.entries /\ after.entries[i] = lg.entries[i]
                    /\ i = inst.index => lg.entries[i].ballot >= inst.ballot
           /\ after.lastIndex >= lg.lastIndex
           /\ after.lastIndex \in {lg.lastIndex, inst.index}
           /\ after.lastExecuted = lg.lastExecuted
  <1>1. inst.index \in Nat \ {0} /\ inst.ballot \in Nat
    BY DEF Instance
  <1>2. ~ (inst.index <= Log!GlobalLastExecuted)
    BY <1>1 DEF Log!GlobalLastExecuted
  <1> DEFINE F == Log!Insert(lg.entries, inst)
  <1> DEFINE last == IF inst.index \in DOMAIN lg.entries THEN lg.lastIndex
                     ELSE Log!Larger(lg.lastIndex, inst.index)
  <1>3. Log!Append(lg, inst) = [entries |-> F, lastIndex |-> last, lastExecuted |-> lg.lastExecuted]
    BY <1>2 DEF IsLog, Log!Append
  <1>4. last \in Nat /\ last >= lg.lastIndex /\ last \in {lg.lastIndex, inst.index}
    BY <1>1 DEF IsLog, Log!Larger
  <1>5. \A i \in DOMAIN lg.entries : lg.entries[i].ballot \in Nat
    BY DEF IsLog, Instance
  <1>6. /\ DOMAIN F = DOMAIN lg.entries \cup {inst.index}
        /\ F = [i \in DOMAIN F |-> F[i]]
        /\ \A i \in DOMAIN F :
              \/ /\ i = inst.index /\ F[i] = inst
                 /\ i \in DOMAIN lg.entries => inst.ballot > lg.entries[i].ballot
              \/ /\ i \in DOMAIN lg.entries /\ F[i] = lg.entries[i]
                 /\ i = inst.index => lg.entries[i].ballot >= inst.ballot
    <2>1. CASE inst.index \notin DOMAIN lg.entries \/ inst.ballot > lg.entries[inst.index].ballot
      BY <1>1, <1>5, <2>1 DEF Log!Insert, Log!Put
    <2>2. CASE ~ (inst.index \notin DOMAIN lg.entries \/ inst.ballot > lg.entries[inst.index].ballot)
      <3>1. F = lg.entries
        BY <2>2 DEF Log!Insert
      <3>2. inst.index \in DOMAIN lg.entries /\ lg.entries[inst.index].ballot >= inst.ballot
        BY <1>1, <1>5, <2>2
      <3> QED
        BY <3>1, <3>2 DEF IsLog
    <2> QED
      BY <2>1, <2>2
  <1>7. \A i \in DOMAIN F : F[i] \in Instance
    BY <1>6 DEF IsLog
  <1> HIDE DEF F, last
  <1> QED
    BY <1>1, <1>3, <1>4, <1>6, <1>7 DEF IsLog

\* b is instance a, perhaps at another state.
SameInstance(b, a) == b.ballot = a.ballot /\ b.index = a.index /\ b.cmd = a.cmd

\* Commit changes the state of one instance, if at all.
LEMMA CommitMarks ==
    ASSUME NEW lg, IsLog(lg), NEW i \in DOMAIN lg.entries
    PROVE  LET after == Log!Commit(lg, i) IN
           /\ IsLog(after)
           /\ DOMAIN after.entries = DOMAIN lg.entries
           /\ \A j \in DOMAIN lg.entries : /\ SameInstance(after.entries[j], lg.entries[j])
                                           /\ j # i => after.entries[j] = lg.entries[j]
           /\ after.lastIndex = lg.lastIndex
           /\ after.lastExecuted = lg.lastExecuted
  <1> USE DEF SameInstance
  <1>1. CASE lg.entries[i].state # "INPROGRESS"
    BY <1>1 DEF Log!Commit
  <1>2. CASE lg.entries[i].state = "INPROGRESS"
    <2> DEFINE F == [lg.entries EXCEPT ![i] = [lg.entries[i] EXCEPT !.state = "COMMITTED"]]
    <2>1. Log!Commit(lg, i) =
            [entries |-> F, lastIndex |-> lg.lastIndex, lastExecuted |-> lg.lastExecuted]
      BY <1>2 DEF IsLog, Log!Commit
    <2>2. [lg.entries[i] EXCEPT !.state = "COMMITTED"] \in Instance
      BY DEF IsLog, Instance, States
    <2>3. /\ DOMAIN F = DOMAIN lg.entries /\ F \in [DOMAIN F -> Instance]
          /\ \A j \in DOMAIN F : /\ SameInstance(F[j], lg.entries[j])
                                 /\ j # i => F[j] = lg.entries[j]
      BY <2>2 DEF IsLog, Instance
    <2> HIDE DEF F
    <2> QED
      BY <2>1, <2>3 DEF IsLog
  <1> QED
    BY <1>1, <1>2

\* Execute takes the next instance, which is committed, and moves lastExecuted
\* on by one.
LEMMA ExecuteAdvances ==
    ASSUME NEW lg, IsLog(lg), Log!IsExecutable(lg)
    PROVE  LET after == Log!Execute(lg) IN
           /\ IsLog(after)
           /\ DOMAIN after.entries = DOMAIN lg.entries
           /\ Log!NextIndex(lg) \in DOMAIN lg.entries
           /\ lg.entries[Log!NextIndex(lg)].state = "COMMITTED"
           /\ \A j \in DOMAIN lg.entries :
                 /\ SameInstance(after.entries[j], lg.entries[j])
                 /\ after.entries[j] # lg.entries[j] => lg.entries[j].state = "COMMITTED"
           /\ after.lastIndex = lg.lastIndex
           /\ after.lastExecuted = Log!NextIndex(lg)
           /\ Log!NextIndex(lg) = lg.lastExecuted + 1
  <1> DEFINE i == lg.lastExecuted + 1
  <1> DEFINE F == [lg.entries EXCEPT ![i] = [lg.entries[i] EXCEPT !.state = "EXECUTED"]]
  <1>1. /\ i \in DOMAIN lg.entries /\ lg.entries[i].state = "COMMITTED"
        /\ Log!NextIndex(lg) = i
    BY DEF Log!IsExecutable, Log!NextIndex
  <1>2. Log!Execute(lg) = [entries |-> F, lastIndex |-> lg.lastIndex, lastExecuted |-> i]
    <2>1. Log!Execute(lg) = [lg EXCEPT !.entries = F, !.lastExecuted = i]
      BY <1>1 DEF Log!Execute, IsLog
    <2> QED
      BY <2>1 DEF IsLog
  <1>3. [lg.entries[i] EXCEPT !.state = "EXECUTED"] \in Instance
    BY <1>1 DEF IsLog, Instance, States
  <1>4. /\ DOMAIN F = DOMAIN lg.entries /\ F \in [DOMAIN F -> Instance]
        /\ \A j \in DOMAIN F : /\ SameInstance(F[j], lg.entries[j])
                               /\ F[j] # lg.entries[j] => lg.entries[j].state = "COMMITTED"
    BY <1>1, <1>3 DEF IsLog, Instance, SameInstance
  <1>5. i \in Nat
    BY DEF IsLog
  <1> HIDE DEF F
  <1> QED
    BY <1>1, <1>2, <1>4, <1>5 DEF IsLog

-----------------------------------------------------------------------------
(* The election underneath, and what is proved of it.                      *)

\* The theorems of ElectionProofs, for the election inside MultiPaxos.
EP == INSTANCE ElectionProofs

\* The election that ElectionProofs is about is the one MultiPaxos composes:
\* operator by operator, the two instances are the same.
LEMMA SameElection ==
    /\ EP!ElectionAssumption
    /\ EP!Init <=> E!Init
    /\ EP!TypeOK <=> E!TypeOK
    /\ EP!TypeOK' <=> E!TypeOK'
    /\ EP!BallotsAreIssued <=> E!BallotsAreIssued
    /\ [EP!Next]_EP!electionVars <=> [E!Next]_E!electionVars
  <1> USE DEF
          E!Cardinality, EP!Cardinality, E!kIdBits, EP!kIdBits, E!kRoundIncrement,
          EP!kRoundIncrement, E!kMaxNumPeers, EP!kMaxNumPeers, E!ExtractLeaderId,
          EP!ExtractLeaderId, E!IsLeader, EP!IsLeader, E!NextBallot, EP!NextBallot, E!Nodes,
          EP!Nodes, E!history, EP!history, E!electionVars, EP!electionVars, E!PrepareThread,
          EP!PrepareThread, E!CommitThread, EP!CommitThread, E!Call, EP!Call, E!TypeOK,
          EP!TypeOK, E!Init, EP!Init, E!Majority, EP!Majority, E!Raised, EP!Raised,
          E!Notified, EP!Notified, E!BecomeFollowerOf, EP!BecomeFollowerOf,
          E!BecomeFollower, EP!BecomeFollower, E!Send, EP!Send, E!InFlight, EP!InFlight,
          E!HasThread, EP!HasThread, E!Step, EP!Step, E!Answer, EP!Answer, E!Counted,
          EP!Counted, E!CountedOk, EP!CountedOk, E!PrepareThreadLoop, EP!PrepareThreadLoop,
          E!SkipCampaign, EP!SkipCampaign, E!StartCampaign, EP!StartCampaign, E!CampaignWon,
          EP!CampaignWon, E!CampaignLost, EP!CampaignLost, E!WonBallot, EP!WonBallot,
          E!Woken, EP!Woken, E!BecomeLeader, EP!BecomeLeader, E!CommitThreadLoop,
          EP!CommitThreadLoop, E!StartBeat, EP!StartBeat, E!EndBeat, EP!EndBeat,
          E!StopBeating, EP!StopBeating, E!PrepareCompare, EP!PrepareCompare,
          E!PreparePromise, EP!PreparePromise, E!PrepareReject, EP!PrepareReject,
          E!CommitHandler, EP!CommitHandler, E!PrepareCallback, EP!PrepareCallback,
          E!CommitCallback, EP!CommitCallback, E!Abandoned, EP!Abandoned, E!CallFails,
          EP!CallFails, E!HearBallot, EP!HearBallot, E!PrepareThreadStep,
          EP!PrepareThreadStep, E!CommitThreadStep, EP!CommitThreadStep, E!Handler,
          EP!Handler, E!Callback, EP!Callback, E!Next, EP!Next, E!Issued, EP!Issued,
          E!BallotsAreIssued, EP!BallotsAreIssued
  <1>1. EP!ElectionAssumption
    BY ReplicationAssumption DEF EP!ElectionAssumption, E!ElectionAssumption
  <1>2. EP!Init <=> E!Init
    OBVIOUS
  <1>3. EP!TypeOK <=> E!TypeOK
    OBVIOUS
  <1>4. EP!BallotsAreIssued <=> E!BallotsAreIssued
    OBVIOUS
  <1>5. EP!TypeOK' <=> E!TypeOK'
    OBVIOUS
  <1>6. EP!Next <=> E!Next
    OBVIOUS
  <1>7. [EP!Next]_EP!electionVars <=> [E!Next]_E!electionVars
    BY <1>6
  <1> QED
    BY <1>1, <1>2, <1>3, <1>4, <1>5, <1>7

\* The election's invariant, as ElectionProofs shows it, holds at first ...
LEMMA ElectionInit == E!Init => EP!IInv
  BY SameElection, EP!IInvInit

\* ... and is kept by every step that is a step of the election.
LEMMA ElectionKeeps == EP!IInv /\ [E!Next]_E!electionVars => EP!IInv'
  BY SameElection, EP!IInvNext

\* Every ballot of a replica is held, and held ballots are numbers.
LEMMA ElectionHeld ==
    ASSUME EP!IInv
    PROVE  /\ E!TypeOK
           /\ held \subseteq Nat
           /\ \A n \in Nodes : ballot[n] \in held
  <1>1. E!TypeOK /\ E!BallotsAreIssued
    BY SameElection DEF EP!IInv
  <1> QED
    BY <1>1 DEF E!TypeOK, E!BallotsAreIssued, Nodes

\* No history is lost, and a ballot goes down only where that is recorded.
LEMMA ElectionMoves ==
    ASSUME EP!IInv, [E!Next]_E!electionVars
    PROVE  /\ held \subseteq held' /\ regressed \subseteq regressed'
           /\ \A n \in Nodes : ballot'[n] >= ballot[n] \/ n \in regressed'
  <1>1. \A n \in Nodes : ballot'[n] >= ballot[n] \/ n \in regressed'
    <2>1. EP!NodeStep
      BY SameElection, EP!EveryNodeStep
    <2>2. EP!TypeOK'
      BY ElectionKeeps DEF EP!IInv
    <2>3. \A n \in Nodes : ballot[n] \in Nat /\ ballot'[n] \in Nat
      BY <2>2, ElectionHeld DEF E!TypeOK, EP!TypeOK, EP!Nodes, Nodes, E!Nodes
    <2> QED
      BY <2>1, <2>3 DEF EP!NodeStep, EP!Still, EP!Followed, EP!Led, EP!Nodes, Nodes, E!Nodes
  <1>2. held \subseteq held' /\ regressed \subseteq regressed'
    <2> USE DEF E!history
    <2>1. ASSUME NEW n \in E!Nodes, E!PrepareThreadStep(n) \/ E!CommitThreadStep(n)
          PROVE  held' = held /\ regressed' = regressed
      BY <2>1 DEF E!PrepareThreadStep, E!PrepareThreadLoop, E!SkipCampaign, E!StartCampaign,
         E!CampaignWon, E!CampaignLost, E!CommitThreadStep, E!CommitThreadLoop, E!StartBeat,
         E!EndBeat, E!StopBeating
    <2>2. ASSUME NEW n \in E!Nodes, E!BecomeLeader(n)
          PROVE  held \subseteq held' /\ regressed \subseteq regressed'
      BY <2>2 DEF E!BecomeLeader
    <2>3. ASSUME NEW c \in calls, E!Handler(c) \/ E!Callback(c) \/ E!CallFails(c)
          PROVE  held \subseteq held' /\ regressed' = regressed
      BY <2>3 DEF E!Handler, E!PrepareCompare, E!PreparePromise, E!PrepareReject,
         E!CommitHandler, E!Callback, E!PrepareCallback, E!CommitCallback, E!CallFails,
         E!BecomeFollower, E!BecomeFollowerOf
    <2>4. ASSUME NEW n \in E!Nodes, NEW b \in held, E!HearBallot(n, b)
          PROVE  held \subseteq held' /\ regressed' = regressed
      BY <2>4 DEF E!HearBallot, E!BecomeFollower, E!BecomeFollowerOf
    <2>5. CASE UNCHANGED E!electionVars
      BY <2>5 DEF E!electionVars
    <2> QED
      BY <2>1, <2>2, <2>3, <2>4, <2>5 DEF E!Next
  <1> QED
    BY <1>1, <1>2

\* Only candidates are ever named by a ballot.
LEMMA ElectionCandidates ==
    /\ E!Init => EP!OnlyCandidates
    /\ EP!IInv /\ [E!Next]_E!electionVars /\ EP!OnlyCandidates => EP!OnlyCandidates'
  BY SameElection, EP!CandidatesInit, EP!CandidatesNext

\* So a replica that a held ballot names is a candidate.
LEMMA CandidatesLead ==
    ASSUME EP!OnlyCandidates, NEW b \in held, NEW n \in Nodes, IsLeader(b, n)
    PROVE  n \in E!Candidates
  <1> USE DEF EP!kMaxNumPeers, kMaxNumPeers, EP!kIdBits, kIdBits, EP!kRoundIncrement,
              kRoundIncrement, EP!ExtractLeaderId, ExtractLeaderId, EP!IsLeader, IsLeader
  <1>1. n \in Nat /\ n < kMaxNumPeers
    BY ReplicationAssumption DEF Nodes, E!Nodes, E!ElectionAssumption, E!kMaxNumPeers, E!kIdBits
  <1>2. b # kMaxNumPeers
    BY <1>1
  <1>3. PICK k \in EP!Candidates : IsLeader(b, k)
    BY <1>2 DEF EP!OnlyCandidates
  <1>4. k = n
    BY <1>3
  <1> QED
    BY <1>3, <1>4 DEF EP!Candidates, E!Candidates, EP!Nodes, E!Nodes

-----------------------------------------------------------------------------
(* The inductive invariant: how far a Replicate has come, and what the     *)
(* calls and the instances it leaves behind say of it.                     *)

\* Replicate found its replica leading with this ballot.
Led(c) == op[c].ballot \in held /\ IsLeader(op[c].ballot, Home[c])

\* A Replicate has an index once its replica has been found leading, at most
\* the last one of the log; it counts calls from its proposal on.
OpInOrder(c) ==
    /\ op[c].pc = "idle" => op[c].index = 0
    /\ op[c].pc = "leading" => Led(c) /\ op[c].index = 0
    /\ op[c].pc \in {"indexed", "checked", "wait", "ok"} => op[c].index # 0
    /\ op[c].index # 0 => Led(c) /\ op[c].index <= LogOf(Home[c], c).lastIndex
    /\ op[c].oks \subseteq op[c].done
    /\ op[c].done # {} => op[c].index # 0 /\ op[c].pc \in {"wait", "ok", "failed"}
    /\ op[c].pc \in {"wait", "ok"} => op[c].done # {}

OpsInOrder == \A c \in Command : OpInOrder(c)

\* A replica gives an index of a partition out once.
IndexOnce ==
    \A c, d \in Command :
        /\ c # d /\ Home[c] = Home[d] /\ PartitionOf[c] = PartitionOf[d]
        /\ op[c].index # 0
        => op[c].index # op[d].index

\* An Accept call is about a proposal, goes to another replica, and a rejection
\* carries a ballot that some replica has had.
AcceptsInOrder ==
    \A a \in accepts :
        /\ Proposed(a.cmd)
        /\ a.to # Home[a.cmd]
        /\ a.stage = "reject" => a.reply \in held

\* Replica m stores command c's index at its ballot or a higher one: at the same
\* ballot, command c itself.
Backed(m, c) ==
    \/ /\ op[c].index \in DOMAIN LogOf(m, c).entries
       /\ LogOf(m, c).entries[op[c].index].ballot >= op[c].ballot
    \/ m \in regressed

\* A replica that has taken an instance in stores it until it has answered;
\* one that has refused it has a higher ballot, or had and went below it.
AcksInOrder ==
    /\ \A c \in Command : \A m \in op[c].oks : Backed(m, c)
    /\ \A a \in accepts :
          /\ a.stage \in {"appended", "followed", "ok"} => Backed(a.to, a.cmd)
          /\ a.stage = "refused" => ballot[a.to] > op[a.cmd].ballot \/ a.to \in regressed

\* Only Commit commits, at the replica the command came from.
CommitsInOrder ==
    /\ \A c \in Command : op[c].pc = "ok" => E!Majority(op[c].oks)
    /\ \A n \in Nodes, p \in Partitions : \A i \in DOMAIN log[n][p].entries :
          LET e == log[n][p].entries[i]
          IN  e.state # "INPROGRESS" /\ Home[e.cmd] = n => op[e.cmd].pc = "ok"
    /\ \A c \in answered : op[c].pc = "ok"

IInv ==
    /\ EP!IInv
    /\ TypeOK
    /\ OpsInOrder
    /\ IndexOnce
    /\ AcceptsInOrder
    /\ OneCommandPerBallot
    /\ AppliedAtItsIndex
    /\ AcksInOrder
    /\ CommitsInOrder

-----------------------------------------------------------------------------
(* Replication moves the ballots only as an election does.                 *)

\* Replicas and partitions, and what every command and call is about.
LEMMA Places ==
    /\ Nodes = E!Nodes /\ IsFiniteSet(Nodes) /\ NumPeers \in Nat /\ 0 \in Partitions
    /\ \A c \in Command : Home[c] \in Nodes /\ PartitionOf[c] \in Partitions
  BY ReplicationAssumption, FS_Interval
  DEF Nodes, E!Nodes, E!ElectionAssumption, Partitions

\* Whatever a step does to the ballots, the election's threads and its calls
\* allow: AcceptFollow and AcceptCallback hear a ballot that some replica has had.
LEMMA StepIsElection ==
    ASSUME EP!IInv, TypeOK, OpsInOrder, AcceptsInOrder, [Next]_vars
    PROVE  [E!Next]_E!electionVars
  <1> USE DEF electionVars, E!electionVars
  <1>1. CASE ElectionStep
    BY <1>1 DEF ElectionStep, Nodes, E!Next, E!PrepareThreadStep
  <1>2. CASE \E n \in Nodes : StartCampaign(n) \/ BecomeLeader(n)
    BY <1>2 DEF StartCampaign, BecomeLeader, Nodes, E!Next, E!PrepareThreadStep
  <1>3. ASSUME NEW c \in Command, OpStep(c)
        PROVE  UNCHANGED electionVars
    BY <1>3 DEF OpStep, Replicate, AdvanceLastIndex, CheckBallot, ProposeToAll,
       CommitByMajority, GiveUp
  <1>4. ASSUME NEW a \in accepts, AcceptCompare(a) \/ AcceptAppend(a) \/ AcceptAnswer(a)
                                  \/ AcceptFails(a)
        PROVE  UNCHANGED electionVars
    BY <1>4 DEF AcceptCompare, AcceptAppend, AcceptAnswer, AcceptFails
  <1>5. ASSUME NEW a \in accepts, AcceptFollow(a)
        PROVE  E!Next
    <2>1. a.to \in Nodes /\ op[a.cmd].ballot \in held
      BY DEF TypeOK, AcceptCall, AcceptsInOrder, Proposed, OpsInOrder, OpInOrder, Led
    <2>2. E!HearBallot(a.to, op[a.cmd].ballot)
      BY <1>5, <2>1 DEF AcceptFollow, E!HearBallot
    <2> QED
      BY <2>1, <2>2 DEF E!Next, Nodes
  <1>6. ASSUME NEW a \in accepts, AcceptCallback(a)
        PROVE  E!Next \/ UNCHANGED electionVars
    <2>1. CASE a.stage = "reject"
      <3>1. Home[a.cmd] \in Nodes /\ a.reply \in held
        BY <2>1, Places DEF TypeOK, AcceptCall, AcceptsInOrder
      <3>2. E!HearBallot(Home[a.cmd], a.reply)
        BY <1>6, <2>1, <3>1 DEF AcceptCallback, E!HearBallot
      <3> QED
        BY <3>1, <3>2 DEF E!Next, Nodes
    <2>2. CASE a.stage # "reject"
      BY <1>6, <2>2 DEF AcceptCallback
    <2> QED
      BY <2>1, <2>2
  <1>7. ASSUME NEW n \in Nodes, NEW p \in Partitions, Execute(n, p)
        PROVE  UNCHANGED electionVars
    BY <1>7 DEF Execute
  <1>8. CASE UNCHANGED vars
    BY <1>8 DEF vars
  <1> QED
    BY <1>1, <1>2, <1>3, <1>4, <1>5, <1>6, <1>7, <1>8 DEF Next, AcceptStep

-----------------------------------------------------------------------------
(* Types.                                                                  *)

\* One log of one replica becomes lg.
LEMMA LogUpdate ==
    ASSUME TypeOK, NEW n \in Nodes, NEW p \in Partitions, NEW lg, IsLog(lg),
           log' = [log EXCEPT ![n][p] = lg]
    PROVE  /\ log' = [m \in Nodes |-> [q \in Partitions |-> log'[m][q]]]
           /\ \A m \in Nodes, q \in Partitions :
                 /\ IsLog(log'[m][q])
                 /\ log'[m][q] = IF m = n /\ q = p THEN lg ELSE log[m][q]
  BY DEF TypeOK

\* What a thread of Replicate offers is an instance, once it has an index.
LEMMA ProposalType ==
    ASSUME TypeOK, NEW c \in Command, op[c].index # 0
    PROVE  /\ Proposal(c) \in Instance
           /\ Proposal(c).index = op[c].index /\ Proposal(c).ballot = op[c].ballot
           /\ Proposal(c).cmd = c /\ Proposal(c).state = "INPROGRESS"
  BY DEF TypeOK, Op, Instance, States, Proposal

\* The calls ProposeToAll posts.
Posted(c) == [cmd : {c}, to : Nodes \ {Home[c]}, stage : {"sent"}, reply : {0}, awaited : {TRUE}]

\* The calls of a proposal have their type.
LEMMA PostedTypes ==
    ASSUME NEW c \in Command, NEW a \in Posted(c)
    PROVE  /\ a \in AcceptCall
           /\ a.cmd = c /\ a.to # Home[c] /\ a.stage = "sent"
  <1>1. /\ a.cmd = c /\ a.to \in Nodes \ {Home[c]} /\ a.stage = "sent" /\ a.reply = 0
        /\ a = [cmd |-> a.cmd, to |-> a.to, stage |-> a.stage, reply |-> a.reply,
                awaited |-> a.awaited]
    BY DEF Posted
  <1>2. a.awaited \in BOOLEAN
    BY Zenon DEF Posted
  <1> QED
    BY <1>1, <1>2 DEF AcceptCall

\* The steps of a Replicate thread keep the types.
LEMMA OpTypes ==
    ASSUME TypeOK, OpsInOrder, E!TypeOK', NEW c \in Command, OpStep(c)
    PROVE  TypeOK'
  <1> DEFINE n == Home[c]  p == PartitionOf[c]
  <1>1. n \in Nodes /\ p \in Partitions /\ IsLog(log[n][p]) /\ LogOf(n, c) = log[n][p]
    BY Places DEF TypeOK, LogOf
  <1>2. op[c] \in Op /\ op \in [Command -> Op] /\ ballot[n] \in Nat
    BY <1>1, Places DEF TypeOK, E!TypeOK
  <1> DEFINE LogsTyped == /\ log = [m \in Nodes |-> [q \in Partitions |-> log[m][q]]]
                          /\ \A m \in Nodes, q \in Partitions : IsLog(log[m][q])
             RestTyped == /\ prepLast \in [Nodes -> Nat]
                          /\ acceptFailures \in Nat
                          /\ applied \in [Nodes -> [Partitions -> Seq(Command)]]
                          /\ answered \subseteq Command
  <1>3. LogsTyped /\ RestTyped /\ accepts \subseteq AcceptCall
    BY DEF TypeOK
  <1>4. ASSUME LogsTyped', op' \in [Command -> Op], accepts' \subseteq AcceptCall,
               UNCHANGED <<prepLast, acceptFailures, applied, answered>>
        PROVE  TypeOK'
    BY <1>3, <1>4 DEF TypeOK
  <1> HIDE DEF n, p, LogsTyped, RestTyped
  <1>5. CASE Replicate(c)
    <2>1. op' \in [Command -> Op]
      BY <1>2, <1>5 DEF Replicate, Op, n
    <2> QED
      BY <1>3, <1>4, <1>5, <2>1 DEF Replicate, LogsTyped
  <1>6. CASE AdvanceLastIndex(c)
    <2> DEFINE i == LogOf(Home[c], c).lastIndex + 1
    <2>1. i \in Nat
      BY <1>1 DEF IsLog, n
    <2>2. [op[c] EXCEPT !.pc = "indexed", !.index = i] \in Op
      BY <1>2, <2>1 DEF Op
    <2>3. op' = [op EXCEPT ![c] = [op[c] EXCEPT !.pc = "indexed", !.index = i]]
      BY <1>6 DEF AdvanceLastIndex
    <2> HIDE DEF i
    <2>4. op' \in [Command -> Op]
      BY <1>2, <2>2, <2>3
    <2>5. log' = [log EXCEPT ![n][p] = Log!AdvanceLastIndex(log[n][p])]
      BY <1>6 DEF AdvanceLastIndex, n, p
    <2>6. LogsTyped'
      BY <1>1, <2>5, AdvanceLastIndexKeeps, LogUpdate DEF LogsTyped
    <2> QED
      BY <1>3, <1>4, <1>6, <2>4, <2>6 DEF AdvanceLastIndex
  <1>7. CASE CheckBallot(c)
    <2>1. op' \in [Command -> Op]
      BY <1>2, <1>7 DEF CheckBallot, Op
    <2> QED
      BY <1>3, <1>4, <1>7, <2>1 DEF CheckBallot, LogsTyped
  <1>8. CASE ProposeToAll(c)
    <2>1. op' \in [Command -> Op]
      BY <1>1, <1>2, <1>8 DEF ProposeToAll, Op, n
    <2>2. log' = [log EXCEPT ![n][p] = Log!Append(log[n][p], Proposal(c))]
      BY <1>8 DEF ProposeToAll, n, p
    <2>3. Proposal(c) \in Instance
      BY <1>8, ProposalType DEF ProposeToAll, OpsInOrder, OpInOrder
    <2>4. LogsTyped'
      BY <1>1, <2>2, <2>3, AppendReplacesOne, LogUpdate DEF LogsTyped
    <2>5. accepts' \subseteq AcceptCall
      BY <1>3, <1>8, PostedTypes DEF ProposeToAll, Posted
    <2> QED
      BY <1>3, <1>4, <1>8, <2>1, <2>4, <2>5 DEF ProposeToAll
  <1>9. CASE CommitByMajority(c)
    <2>1. op' \in [Command -> Op]
      BY <1>2, <1>9 DEF CommitByMajority, Op
    <2>2. log' = [log EXCEPT ![n][p] = Log!Commit(log[n][p], op[c].index)]
      BY <1>9 DEF CommitByMajority, n, p
    <2>3. op[c].index \in DOMAIN log[n][p].entries
      BY <1>1, <1>9 DEF CommitByMajority, Log!IsCommittable, n, p
    <2>4. LogsTyped'
      BY <1>1, <2>2, <2>3, CommitMarks, LogUpdate DEF LogsTyped
    <2> QED
      BY <1>3, <1>4, <1>9, <2>1, <2>4 DEF CommitByMajority
  <1>10. CASE GiveUp(c)
    <2>1. op' \in [Command -> Op]
      BY <1>2, <1>10 DEF GiveUp, Op
    <2> QED
      BY <1>3, <1>4, <1>10, <2>1 DEF GiveUp, LogsTyped
  <1> QED
    BY <1>5, <1>6, <1>7, <1>8, <1>9, <1>10 DEF OpStep

\* The callbacks of Accept count a call, or a failure, in the call's state.
LEMMA CountedTypes ==
    ASSUME TypeOK, NEW a \in AcceptCall, NEW oks \in SUBSET Nodes
    PROVE  Counted(a, oks) \in [Command -> Op]
  <1>1. op \in [Command -> Op] /\ a.cmd \in Command /\ a.to \in Nodes
    BY DEF TypeOK, AcceptCall
  <1> QED
    BY <1>1 DEF Counted, Op

\* The steps of an Accept call keep the types.
LEMMA AcceptTypes ==
    ASSUME TypeOK, OpsInOrder, AcceptsInOrder, E!TypeOK', NEW a \in accepts,
           AcceptStep(a) \/ AcceptFails(a)
    PROVE  TypeOK'
  <1>1. /\ a \in AcceptCall /\ a.cmd \in Command /\ a.to \in Nodes
        /\ Home[a.cmd] \in Nodes /\ PartitionOf[a.cmd] \in Partitions
        /\ op \in [Command -> Op] /\ accepts \subseteq AcceptCall
        /\ ballot[a.to] \in Nat /\ acceptFailures + 1 \in Nat
    BY Places DEF TypeOK, AcceptCall, E!TypeOK
  <1> DEFINE LogsTyped == /\ log = [m \in Nodes |-> [q \in Partitions |-> log[m][q]]]
                          /\ \A m \in Nodes, q \in Partitions : IsLog(log[m][q])
             RestTyped == /\ prepLast \in [Nodes -> Nat]
                          /\ applied \in [Nodes -> [Partitions -> Seq(Command)]]
                          /\ answered \subseteq Command
  <1>2. LogsTyped /\ RestTyped /\ acceptFailures \in Nat
    BY DEF TypeOK
  <1>3. ASSUME LogsTyped', op' \in [Command -> Op], accepts' \subseteq AcceptCall,
               acceptFailures' \in Nat, UNCHANGED <<prepLast, applied, answered>>
        PROVE  TypeOK'
    BY <1>2, <1>3 DEF TypeOK
  <1>4. ASSUME NEW s \in {"passed", "refused", "appended", "followed"}, StepAccept(a, s)
        PROVE  accepts' \subseteq AcceptCall
    <2>1. [a EXCEPT !.stage = s] \in AcceptCall
      BY <1>1 DEF AcceptCall
    <2> QED
      BY <1>1, <1>4, <2>1 DEF StepAccept
  <1>5. ASSUME UNCHANGED log  PROVE LogsTyped'
    BY <1>2, <1>5
  <1> HIDE DEF LogsTyped, RestTyped
  <1>6. CASE AcceptCompare(a)
    BY <1>1, <1>2, <1>3, <1>4, <1>5, <1>6 DEF AcceptCompare
  <1>7. CASE AcceptAppend(a)
    <2> DEFINE p == PartitionOf[a.cmd]
    <2>1. log' = [log EXCEPT ![a.to][p] = Log!Append(log[a.to][p], Proposal(a.cmd))]
      BY <1>7 DEF AcceptAppend
    <2>2. IsLog(log[a.to][p]) /\ Proposal(a.cmd) \in Instance
      BY <1>1, ProposalType DEF TypeOK, AcceptsInOrder, Proposed, OpsInOrder, OpInOrder
    <2>3. LogsTyped'
      BY <1>1, <2>1, <2>2, AppendReplacesOne, LogUpdate DEF LogsTyped
    <2> QED
      BY <1>1, <1>2, <1>3, <1>4, <1>7, <2>3 DEF AcceptAppend
  <1>8. CASE AcceptFollow(a)
    BY <1>1, <1>2, <1>3, <1>4, <1>5, <1>8 DEF AcceptFollow
  <1>9. CASE AcceptAnswer(a)
    <2>1. [a EXCEPT !.stage = IF Outdated(a) THEN "reject" ELSE "ok",
                    !.reply = IF Outdated(a) THEN RejectBallot(a.to) ELSE 0] \in AcceptCall
      BY <1>1 DEF AcceptCall, RejectBallot
    <2>2. accepts' \subseteq AcceptCall
      BY <1>1, <1>9, <2>1 DEF AcceptAnswer
    <2> QED
      BY <1>1, <1>2, <1>3, <1>5, <1>9, <2>2 DEF AcceptAnswer
  <1>10. CASE AcceptCallback(a)
    <2>1. op' \in [Command -> Op]
      BY <1>1, <1>10, CountedTypes DEF AcceptCallback
    <2> QED
      BY <1>1, <1>2, <1>3, <1>5, <1>10, <2>1 DEF AcceptCallback
  <1>11. CASE AcceptFails(a)
    <2>1. op' \in [Command -> Op]
      BY <1>1, <1>11, CountedTypes DEF AcceptFails
    <2>2. [a EXCEPT !.awaited = FALSE] \in AcceptCall
      BY <1>1, Zenon DEF AcceptCall
    <2>3. accepts' \subseteq AcceptCall
      BY <1>1, <1>11, <2>2 DEF AcceptFails
    <2> QED
      BY <1>1, <1>2, <1>3, <1>5, <1>11, <2>1, <2>3 DEF AcceptFails
  <1> QED
    BY <1>6, <1>7, <1>8, <1>9, <1>10, <1>11 DEF AcceptStep

\* Every step keeps the types.
LEMMA TypeNext ==
    ASSUME TypeOK, OpsInOrder, AcceptsInOrder, E!TypeOK', [Next]_vars
    PROVE  TypeOK'
  <1>1. CASE ElectionStep \/ UNCHANGED vars
    BY <1>1 DEF ElectionStep, vars, replicationVars, TypeOK
  <1>2. ASSUME NEW n \in Nodes, StartCampaign(n)
        PROVE  TypeOK'
    <2>1. log[n][0].lastIndex \in Nat
      BY Places DEF TypeOK, IsLog
    <2>2. prepLast' \in [Nodes -> Nat]
      BY <1>2, <2>1 DEF StartCampaign, TypeOK
    <2> QED
      BY <1>2, <2>2 DEF StartCampaign, TypeOK
  <1>3. ASSUME NEW n \in Nodes, BecomeLeader(n)
        PROVE  TypeOK'
    <2>1. log' = [log EXCEPT ![n][0] = Log!SetLastIndex(log[n][0], prepLast[n])]
      BY <1>3 DEF BecomeLeader
    <2>2. IsLog(log[n][0]) /\ prepLast[n] \in Nat
      BY Places DEF TypeOK
    <2>3. /\ log' = [m \in Nodes |-> [q \in Partitions |-> log'[m][q]]]
          /\ \A m \in Nodes, q \in Partitions : IsLog(log'[m][q])
      BY <2>1, <2>2, Places, SetLastIndexKeeps, LogUpdate
    <2> QED
      BY <1>3, <2>3 DEF BecomeLeader, TypeOK
  <1>4. ASSUME NEW n \in Nodes, NEW p \in Partitions, Execute(n, p)
        PROVE  TypeOK'
    <2> DEFINE lg == log[n][p]
               c  == lg.entries[Log!NextIndex(lg)].cmd
    <2>1. /\ log' = [log EXCEPT ![n][p] = Log!Execute(lg)]
          /\ applied' = [applied EXCEPT ![n][p] = Append(@, c)]
          /\ answered' = IF Home[c] = n THEN answered \cup {c} ELSE answered
          /\ Log!IsExecutable(lg)
      BY <1>4 DEF Execute
    <2>2. IsLog(lg)
      BY DEF TypeOK
    <2>3. /\ log' = [m \in Nodes |-> [q \in Partitions |-> log'[m][q]]]
          /\ \A m \in Nodes, q \in Partitions : IsLog(log'[m][q])
      BY <2>1, <2>2, ExecuteAdvances, LogUpdate
    <2>4. c \in Command
      BY <2>1, <2>2 DEF Log!IsExecutable, IsLog, Instance
    <2> HIDE DEF lg, c
    <2>5. applied' \in [Nodes -> [Partitions -> Seq(Command)]]
      BY <2>1, <2>4 DEF TypeOK
    <2> QED
      BY <1>4, <2>1, <2>3, <2>4, <2>5 DEF Execute, TypeOK
  <1> QED
    BY <1>1, <1>2, <1>3, <1>4, OpTypes, AcceptTypes DEF Next

-----------------------------------------------------------------------------
(* What a step may do to a Replicate, to a log and to an Accept call: all  *)
(* that the invariant needs to know of the actions.                        *)

\* Replica m stores command c's index, at its ballot or a higher one.
Stores(m, c) ==
    /\ op[c].index \in DOMAIN LogOf(m, c).entries
    /\ LogOf(m, c).entries[op[c].index].ballot >= op[c].ballot

\* Except for its result, and the calls counted, a Replicate goes on as it was.
SameOp(c) == op'[c].ballot = op[c].ballot /\ op'[c].index = op[c].index

SameVotes(c) == op'[c].oks = op[c].oks /\ op'[c].done = op[c].done

\* A Replicate stays, or goes on to the next line of RunAcceptPhase.
OpMove(c) ==
    \/ op'[c] = op[c]
    \/ /\ op[c].pc = "idle" /\ op'[c].index = op[c].index /\ SameVotes(c)
       /\ \/ op'[c].pc = "failed"
          \/ /\ op'[c].pc = "leading" /\ op'[c].ballot = ballot[Home[c]]
             /\ IsLeader(op'[c].ballot, Home[c])
    \/ /\ op[c].pc = "leading" /\ op'[c].pc = "indexed"
       /\ op'[c].ballot = op[c].ballot /\ SameVotes(c)
       /\ op'[c].index = LogOf(Home[c], c).lastIndex + 1
       /\ LogOf(Home[c], c)'.lastIndex = op'[c].index
       /\ \A d \in Command \ {c} : op'[d] = op[d]
    \/ /\ op[c].pc = "indexed" /\ op'[c].pc \in {"checked", "failed"}
       /\ SameOp(c) /\ SameVotes(c)
    \/ /\ op[c].pc = "checked" /\ op'[c].pc = "wait" /\ SameOp(c)
       /\ op'[c].oks = {Home[c]} /\ op'[c].done = {Home[c]} /\ Stores(Home[c], c)'
    \/ /\ op[c].pc = "wait" /\ op'[c].pc = "wait" /\ SameOp(c)
       /\ op[c].done \subseteq op'[c].done /\ op'[c].oks \subseteq op'[c].done
       /\ \A m \in op'[c].oks \ op[c].oks :
             \E a \in accepts : a.cmd = c /\ a.to = m /\ a.stage = "ok"
    \/ /\ op[c].pc = "wait" /\ op'[c].pc \in {"ok", "failed"} /\ SameOp(c) /\ SameVotes(c)
       /\ op'[c].pc = "ok" => E!Majority(op[c].oks)

\* A Replicate of replica n has committed index i.
Committing(n, p, i) ==
    \E c \in Command : /\ Home[c] = n /\ PartitionOf[c] = p /\ op[c].index = i
                       /\ op'[c].pc = "ok"

\* Instance b is a, at the same state or at one that follows.
Marked(n, p, i, b, a) ==
    /\ SameInstance(b, a)
    /\ b.state = "INPROGRESS" \/ a.state # "INPROGRESS" \/ Committing(n, p, i)

\* Nothing leaves a log, and what is put into one is what a Replicate proposes.
LogMove(n, p) ==
    /\ log'[n][p].lastIndex >= log[n][p].lastIndex
    /\ log'[n][p].lastExecuted = log[n][p].lastExecuted \/ Execute(n, p)
    /\ DOMAIN log[n][p].entries \subseteq DOMAIN log'[n][p].entries
    /\ \A i \in DOMAIN log'[n][p].entries :
          \/ /\ i \in DOMAIN log[n][p].entries
             /\ Marked(n, p, i, log'[n][p].entries[i], log[n][p].entries[i])
          \/ /\ \E c \in Command : /\ Proposed(c)' /\ PartitionOf[c] = p /\ op'[c].index = i
                                   /\ log'[n][p].entries[i] = Proposal(c)'
             /\ i \in DOMAIN log[n][p].entries =>
                   log'[n][p].entries[i].ballot > log[n][p].entries[i].ballot

\* A call is one there was, one just posted, or one whose handler went on.
AcceptMove(a) ==
    \/ a \in accepts
    \/ \E c \in Command : Proposed(c)' /\ a \in Posted(c)
    \/ \E b \in accepts :
          /\ a.cmd = b.cmd /\ a.to = b.to
          /\ \/ a.stage = b.stage /\ a.reply = b.reply
             \/ b.stage = "sent" /\ a.stage = "passed"
             \/ b.stage = "sent" /\ a.stage = "refused" /\ Outdated(b)
             \/ b.stage = "passed" /\ a.stage = "appended" /\ Stores(a.to, a.cmd)'
             \/ b.stage = "appended" /\ a.stage = "followed"
             \/ /\ b.stage \in {"refused", "followed"} /\ a.stage = "reject"
                /\ a.reply = ballot[a.to]
             \/ b.stage \in {"refused", "followed"} /\ a.stage = "ok" /\ ~ Outdated(b)

Moves ==
    /\ \A c \in Command : OpMove(c)
    /\ \A n \in Nodes, p \in Partitions : LogMove(n, p)
    /\ \A a \in accepts' : AcceptMove(a)

\* Logs that are left alone.
LEMMA LogStays ==
    ASSUME TypeOK, NEW n \in Nodes, NEW p \in Partitions, log'[n][p] = log[n][p]
    PROVE  LogMove(n, p)
  <1>1. log[n][p].lastIndex \in Nat
    BY DEF TypeOK, IsLog
  <1> QED
    BY <1>1 DEF LogMove, Marked, SameInstance

\* When the logs are left alone, so is each of them.
LEMMA LogsStay ==
    ASSUME TypeOK, UNCHANGED log
    PROVE  \A n \in Nodes, p \in Partitions : LogMove(n, p)
  <1> TAKE n \in Nodes, p \in Partitions
  <1>1. log'[n][p] = log[n][p]
    OBVIOUS
  <1> QED
    BY <1>1, LogStays

\* A log in which what is stored stays, but for the state of an instance.
LEMMA LogMarked ==
    ASSUME TypeOK, NEW n \in Nodes, NEW p \in Partitions, NEW lg, IsLog(lg),
           log' = [log EXCEPT ![n][p] = lg],
           DOMAIN lg.entries = DOMAIN log[n][p].entries,
           \A i \in DOMAIN lg.entries : Marked(n, p, i, lg.entries[i], log[n][p].entries[i]),
           lg.lastIndex >= log[n][p].lastIndex,
           lg.lastExecuted = log[n][p].lastExecuted \/ Execute(n, p)
    PROVE  \A m \in Nodes, q \in Partitions : LogMove(m, q)
  <1>1. \A m \in Nodes, q \in Partitions :
           log'[m][q] = IF m = n /\ q = p THEN lg ELSE log[m][q]
    BY DEF TypeOK
  <1> TAKE m \in Nodes, q \in Partitions
  <1>2. CASE m = n /\ q = p
    BY <1>1, <1>2 DEF LogMove
  <1>3. CASE ~ (m = n /\ q = p)
    BY <1>1, <1>3, LogStays
  <1> QED
    BY <1>2, <1>3

\* A log to which a command that is being proposed is appended.
LEMMA LogAppended ==
    ASSUME TypeOK, NEW n \in Nodes, NEW c \in Command, op[c].index # 0,
           log' = [log EXCEPT ![n][PartitionOf[c]] = Log!Append(@, Proposal(c))],
           Proposed(c)', SameOp(c)
    PROVE  /\ \A m \in Nodes, q \in Partitions : LogMove(m, q)
           /\ Stores(n, c)'
  <1> DEFINE p == PartitionOf[c]
             after == Log!Append(log[n][p], Proposal(c))
  <1>1. p \in Partitions /\ IsLog(log[n][p])
    BY Places DEF TypeOK
  <1>2. /\ Proposal(c) \in Instance /\ Proposal(c).index = op[c].index
        /\ Proposal(c).ballot = op[c].ballot /\ op[c].ballot \in Nat
    BY ProposalType DEF TypeOK, Op
  <1>3. Proposal(c)' = Proposal(c) /\ op'[c].index = op[c].index
    BY DEF Proposal, SameOp
  <1>4. /\ IsLog(after)
        /\ DOMAIN after.entries = DOMAIN log[n][p].entries \cup {op[c].index}
        /\ \A i \in DOMAIN after.entries :
              \/ /\ i = op[c].index /\ after.entries[i] = Proposal(c)
                 /\ i \in DOMAIN log[n][p].entries =>
                       op[c].ballot > log[n][p].entries[i].ballot
              \/ /\ i \in DOMAIN log[n][p].entries
                 /\ after.entries[i] = log[n][p].entries[i]
                 /\ i = op[c].index => log[n][p].entries[i].ballot >= op[c].ballot
        /\ after.lastIndex >= log[n][p].lastIndex
        /\ after.lastExecuted = log[n][p].lastExecuted
    <2> DEFINE inst == Proposal(c)
    <2>1. /\ DOMAIN after.entries = DOMAIN log[n][p].entries \cup {inst.index}
          /\ \A i \in DOMAIN after.entries :
                 \/ /\ i = inst.index /\ after.entries[i] = inst
                    /\ i \in DOMAIN log[n][p].entries =>
                          inst.ballot > log[n][p].entries[i].ballot
                 \/ /\ i \in DOMAIN log[n][p].entries
                    /\ after.entries[i] = log[n][p].entries[i]
                    /\ i = inst.index => log[n][p].entries[i].ballot >= inst.ballot
          /\ IsLog(after) /\ after.lastIndex >= log[n][p].lastIndex
          /\ after.lastExecuted = log[n][p].lastExecuted
      BY <1>1, <1>2, AppendReplacesOne, Zenon
    <2> HIDE DEF after, inst
    <2> QED
      BY <1>2, <2>1 DEF inst
  <1>5. log' = [log EXCEPT ![n][p] = after]
    OBVIOUS
  <1> HIDE DEF after
  <1>6. \A m \in Nodes, q \in Partitions :
           log'[m][q] = IF m = n /\ q = p THEN after ELSE log[m][q]
    BY <1>1, <1>5 DEF TypeOK
  <1>7. ASSUME NEW m \in Nodes, NEW q \in Partitions
        PROVE  LogMove(m, q)
    <2>1. CASE m = n /\ q = p
      <3>1. log'[m][q] = after
        BY <1>6, <2>1
      <3>2. ASSUME NEW i \in DOMAIN after.entries,
                   i = op[c].index, after.entries[i] = Proposal(c),
                   i \in DOMAIN log[n][p].entries => op[c].ballot > log[n][p].entries[i].ballot
            PROVE  /\ \E d \in Command : /\ Proposed(d)' /\ PartitionOf[d] = q /\ op'[d].index = i
                                         /\ after.entries[i] = Proposal(d)'
                   /\ i \in DOMAIN log[m][q].entries =>
                         after.entries[i].ballot > log[m][q].entries[i].ballot
        <4>1. /\ Proposed(c)' /\ PartitionOf[c] = q /\ op'[c].index = i
              /\ after.entries[i] = Proposal(c)'
          BY <1>3, <2>1, <3>2
        <4>2. after.entries[i].ballot = op[c].ballot
          BY <1>2, <3>2
        <4> QED
          BY <2>1, <3>2, <4>1, <4>2
      <3>3. ASSUME NEW i \in DOMAIN after.entries, i \in DOMAIN log[n][p].entries,
                   after.entries[i] = log[n][p].entries[i]
            PROVE  Marked(m, q, i, after.entries[i], log[m][q].entries[i])
        BY <2>1, <3>3 DEF Marked, SameInstance
      <3> QED
        BY <1>4, <2>1, <3>1, <3>2, <3>3 DEF LogMove
    <2>2. CASE ~ (m = n /\ q = p)
      BY <1>6, <2>2, LogStays
    <2> QED
      BY <2>1, <2>2
  <1>8. Stores(n, c)'
    <2>1. log'[n][p] = after
      BY <1>1, <1>6
    <2> QED
      BY <1>2, <1>3, <1>4, <2>1 DEF Stores, LogOf, SameOp
  <1> QED
    BY <1>7, <1>8

\* A step of a Replicate thread is a move of that Replicate and no other.
LEMMA OpMoves ==
    ASSUME TypeOK, OpsInOrder, NEW c \in Command, OpStep(c)
    PROVE  Moves
  <1> DEFINE n == Home[c]  p == PartitionOf[c]
  <1>1. /\ n \in Nodes /\ p \in Partitions /\ IsLog(log[n][p]) /\ LogOf(n, c) = log[n][p]
        /\ op \in [Command -> Op] /\ op[c] \in Op
    BY Places DEF TypeOK, LogOf
  <1>2. OpInOrder(c)
    BY DEF OpsInOrder
  <1>3. ASSUME UNCHANGED accepts  PROVE \A a \in accepts' : AcceptMove(a)
    BY <1>3 DEF AcceptMove
  <1>4. ASSUME OpMove(c), \A d \in Command \ {c} : op'[d] = op[d]
        PROVE  \A d \in Command : OpMove(d)
    BY <1>4 DEF OpMove
  <1>5. \A d \in Command \ {c} : op'[d] = op[d]
    BY <1>1 DEF OpStep, Replicate, AdvanceLastIndex, CheckBallot, ProposeToAll,
       CommitByMajority, GiveUp
  <1> HIDE DEF n, p
  <1>6. CASE Replicate(c)
    <2>1. OpMove(c)
      BY <1>1, <1>6 DEF Replicate, OpMove, SameVotes, n, Op
    <2> QED
      BY <1>3, <1>4, <1>5, <1>6, <2>1, LogsStay DEF Replicate, Moves
  <1>7. CASE AdvanceLastIndex(c)
    <2> DEFINE lg == Log!AdvanceLastIndex(log[n][p])
    <2>1. log' = [log EXCEPT ![n][p] = lg]
      BY <1>7 DEF AdvanceLastIndex, n, p
    <2>2. /\ IsLog(lg) /\ lg.entries = log[n][p].entries
          /\ lg.lastIndex = log[n][p].lastIndex + 1 /\ log[n][p].lastIndex \in Nat
          /\ lg.lastExecuted = log[n][p].lastExecuted
      BY <1>1, AdvanceLastIndexKeeps DEF IsLog
    <2> HIDE DEF lg
    <2>3. \A m \in Nodes, q \in Partitions : LogMove(m, q)
      <3>1. /\ DOMAIN lg.entries = DOMAIN log[n][p].entries
            /\ \A i \in DOMAIN lg.entries :
                  Marked(n, p, i, lg.entries[i], log[n][p].entries[i])
            /\ lg.lastIndex >= log[n][p].lastIndex
        BY <2>2 DEF Marked, SameInstance
      <3> QED
        BY <1>1, <2>1, <2>2, <3>1, LogMarked
    <2>4. LogOf(n, c)' = lg
      BY <1>1, <2>1 DEF LogOf, TypeOK, p
    <2>5. /\ op[c].pc = "leading" /\ op'[c].pc = "indexed"
          /\ op'[c].ballot = op[c].ballot /\ SameVotes(c)
          /\ op'[c].index = LogOf(n, c).lastIndex + 1
      BY <1>1, <1>7 DEF AdvanceLastIndex, SameVotes, n, Op
    <2>6. OpMove(c)
      BY <1>1, <1>5, <2>2, <2>4, <2>5 DEF OpMove, n
    <2> QED
      BY <1>3, <1>4, <1>5, <1>7, <2>3, <2>6 DEF AdvanceLastIndex, Moves
  <1>8. CASE CheckBallot(c)
    <2>1. OpMove(c)
      BY <1>1, <1>8 DEF CheckBallot, OpMove, SameOp, SameVotes, Op
    <2> QED
      BY <1>3, <1>4, <1>5, <1>8, <2>1, LogsStay DEF CheckBallot, Moves
  <1>9. CASE ProposeToAll(c)
    <2>1. /\ op[c].pc = "checked" /\ op'[c].pc = "wait" /\ SameOp(c)
          /\ op'[c].oks = {n} /\ op'[c].done = {n} /\ op[c].index # 0
      BY <1>1, <1>2, <1>9 DEF ProposeToAll, SameOp, n, Op, OpInOrder
    <2>2. Proposed(c)'
      BY <2>1 DEF Proposed
    <2>3. log' = [log EXCEPT ![n][PartitionOf[c]] = Log!Append(@, Proposal(c))]
      BY <1>9 DEF ProposeToAll, n
    <2>4. (\A m \in Nodes, q \in Partitions : LogMove(m, q)) /\ Stores(n, c)'
      BY <1>1, <2>1, <2>2, <2>3, LogAppended
    <2>5. OpMove(c)
      BY <2>1, <2>4 DEF OpMove, n
    <2>6. accepts' = accepts \cup Posted(c)
      BY <1>9 DEF ProposeToAll, Posted
    <2>7. \A a \in accepts' : AcceptMove(a)
      BY <2>2, <2>6 DEF AcceptMove
    <2> QED
      BY <1>4, <1>5, <2>4, <2>5, <2>7 DEF Moves
  <1>10. CASE CommitByMajority(c)
    <2> DEFINE lg == Log!Commit(log[n][p], op[c].index)
    <2>1. log' = [log EXCEPT ![n][p] = lg] /\ op[c].index \in DOMAIN log[n][p].entries
      BY <1>1, <1>10 DEF CommitByMajority, Log!IsCommittable, n, p
    <2>2. /\ IsLog(lg) /\ DOMAIN lg.entries = DOMAIN log[n][p].entries
          /\ \A i \in DOMAIN lg.entries :
                /\ SameInstance(lg.entries[i], log[n][p].entries[i])
                /\ i # op[c].index => lg.entries[i] = log[n][p].entries[i]
          /\ lg.lastIndex = log[n][p].lastIndex /\ lg.lastIndex >= log[n][p].lastIndex
          /\ lg.lastExecuted = log[n][p].lastExecuted
      BY <1>1, <2>1, CommitMarks DEF IsLog
    <2> HIDE DEF lg
    <2>3. op'[c].pc = "ok"
      BY <1>1, <1>10 DEF CommitByMajority, Op
    <2>4. OpMove(c)
      BY <1>1, <1>10 DEF CommitByMajority, OpMove, SameOp, SameVotes, Op
    <2>5. \A i \in DOMAIN lg.entries : Marked(n, p, i, lg.entries[i], log[n][p].entries[i])
      BY <2>2, <2>3 DEF Marked, Committing, n, p
    <2>6. \A m \in Nodes, q \in Partitions : LogMove(m, q)
      BY <1>1, <2>1, <2>2, <2>5, LogMarked
    <2> QED
      BY <1>3, <1>4, <1>5, <1>10, <2>4, <2>6 DEF CommitByMajority, Moves
  <1>11. CASE GiveUp(c)
    <2>1. OpMove(c)
      BY <1>1, <1>11 DEF GiveUp, OpMove, SameOp, SameVotes, Op
    <2> QED
      BY <1>3, <1>4, <1>5, <1>11, <2>1, LogsStay DEF GiveUp, Moves
  <1> QED
    BY <1>6, <1>7, <1>8, <1>9, <1>10, <1>11 DEF OpStep

\* A call counted is a move of the Replicate that made it.
LEMMA CountedMoves ==
    ASSUME TypeOK, OpsInOrder, NEW a \in accepts, NEW oks \in SUBSET {a.to},
           oks # {} => a.stage = "ok", op' = Counted(a, oks)
    PROVE  \A d \in Command : OpMove(d)
  <1>1. op \in [Command -> Op] /\ a.cmd \in Command
    BY DEF TypeOK, AcceptCall
  <1>2. CASE op[a.cmd].pc # "wait"
    BY <1>2 DEF Counted, OpMove
  <1>3. CASE op[a.cmd].pc = "wait"
    <2> DEFINE c == a.cmd
    <2>1. op' = [op EXCEPT ![c].done = @ \cup {a.to}, ![c].oks = @ \cup oks]
      BY <1>3 DEF Counted
    <2> HIDE DEF c
    <2>2. \A d \in Command \ {c} : op'[d] = op[d]
      BY <1>1, <2>1 DEF c
    <2>3. /\ op'[c].pc = "wait" /\ op'[c].ballot = op[c].ballot /\ op'[c].index = op[c].index
          /\ op'[c].done = op[c].done \cup {a.to} /\ op'[c].oks = op[c].oks \cup oks
      BY <1>1, <1>3, <2>1 DEF c, Op
    <2>4. op[c].oks \subseteq op[c].done
      BY <1>1 DEF OpsInOrder, OpInOrder, c
    <2>5. OpMove(c)
      BY <1>3, <2>3, <2>4 DEF OpMove, SameOp, c
    <2> QED
      BY <2>2, <2>5 DEF OpMove
  <1> QED
    BY <1>2, <1>3

\* A step of an Accept call is a move of that call, and of the log or the
\* Replicate it acts on.
LEMMA AcceptMoves ==
    ASSUME TypeOK, OpsInOrder, AcceptsInOrder, NEW a \in accepts,
           AcceptStep(a) \/ AcceptFails(a)
    PROVE  Moves
  <1>1. /\ a \in AcceptCall /\ a.cmd \in Command /\ a.to \in Nodes
        /\ op \in [Command -> Op] /\ ballot[a.to] \in Nat /\ op[a.cmd].ballot \in Nat
    BY DEF TypeOK, AcceptCall, Op, E!TypeOK, Nodes
  <1>2. ASSUME UNCHANGED op  PROVE \A d \in Command : OpMove(d)
    BY <1>2 DEF OpMove
  <1>3. ASSUME NEW s, StepAccept(a, s), NEW b \in accepts', b \notin accepts
        PROVE  b.cmd = a.cmd /\ b.to = a.to /\ b.stage = s
    BY <1>1, <1>3 DEF StepAccept, AcceptCall
  <1>4. CASE AcceptCompare(a)
    <2> DEFINE s == IF op[a.cmd].ballot >= ballot[a.to] THEN "passed" ELSE "refused"
    <2>1. /\ StepAccept(a, s) /\ a.stage = "sent"
          /\ s = "passed" \/ (s = "refused" /\ Outdated(a))
      BY <1>1, <1>4 DEF AcceptCompare, Outdated
    <2> HIDE DEF s
    <2>2. \A b \in accepts' : AcceptMove(b)
      BY <1>3, <2>1 DEF AcceptMove
    <2> QED
      BY <1>2, <1>4, <2>2, LogsStay DEF AcceptCompare, Moves
  <1>5. CASE AcceptAppend(a)
    <2>1. /\ Proposed(a.cmd)' /\ SameOp(a.cmd) /\ op[a.cmd].index # 0
      BY <1>1, <1>5 DEF AcceptAppend, AcceptsInOrder, Proposed, SameOp, OpsInOrder, OpInOrder
    <2>2. log' = [log EXCEPT ![a.to][PartitionOf[a.cmd]] = Log!Append(@, Proposal(a.cmd))]
      BY <1>5 DEF AcceptAppend
    <2>3. (\A m \in Nodes, q \in Partitions : LogMove(m, q)) /\ Stores(a.to, a.cmd)'
      BY <1>1, <2>1, <2>2, LogAppended
    <2>4. \A b \in accepts' : AcceptMove(b)
      <3>1. StepAccept(a, "appended") /\ a.stage = "passed"
        BY <1>5 DEF AcceptAppend
      <3> QED
        BY <1>3, <2>3, <3>1 DEF AcceptMove
    <2> QED
      BY <1>2, <1>5, <2>3, <2>4 DEF AcceptAppend, Moves
  <1>6. CASE AcceptFollow(a)
    <2>1. StepAccept(a, "followed") /\ a.stage = "appended"
      BY <1>6 DEF AcceptFollow
    <2>2. \A b \in accepts' : AcceptMove(b)
      BY <1>3, <2>1 DEF AcceptMove
    <2> QED
      BY <1>2, <1>6, <2>2, LogsStay DEF AcceptFollow, Moves
  <1>7. CASE AcceptAnswer(a)
    <2>1. ASSUME NEW b \in accepts', b \notin accepts
          PROVE  /\ b.cmd = a.cmd /\ b.to = a.to
                 /\ \/ b.stage = "reject" /\ b.reply = ballot[a.to] /\ Outdated(a)
                    \/ b.stage = "ok" /\ ~ Outdated(a)
      BY <1>1, <1>7, <2>1 DEF AcceptAnswer, AcceptCall, RejectBallot
    <2>2. \A b \in accepts' : AcceptMove(b)
      BY <1>7, <2>1 DEF AcceptMove, AcceptAnswer
    <2> QED
      BY <1>2, <1>7, <2>2, LogsStay DEF AcceptAnswer, Moves
  <1>8. CASE AcceptCallback(a)
    <2>1. \A d \in Command : OpMove(d)
      BY <1>8, CountedMoves DEF AcceptCallback
    <2>2. \A b \in accepts' : AcceptMove(b)
      BY <1>8 DEF AcceptCallback, AcceptMove
    <2> QED
      BY <1>8, <2>1, <2>2, LogsStay DEF AcceptCallback, Moves
  <1>9. CASE AcceptFails(a)
    <2>1. \A d \in Command : OpMove(d)
      BY <1>9, CountedMoves DEF AcceptFails
    <2>2. ASSUME NEW b \in accepts', b \notin accepts
          PROVE  b.cmd = a.cmd /\ b.to = a.to /\ b.stage = a.stage /\ b.reply = a.reply
      BY <1>1, <1>9, <2>2 DEF AcceptFails, AcceptCall
    <2>3. \A b \in accepts' : AcceptMove(b)
      BY <2>2 DEF AcceptMove
    <2> QED
      BY <1>9, <2>1, <2>3, LogsStay DEF AcceptFails, Moves
  <1> QED
    BY <1>4, <1>5, <1>6, <1>7, <1>8, <1>9 DEF AcceptStep

\* The other steps change nothing of a Replicate or of an Accept call.
LEMMA EveryMove ==
    ASSUME TypeOK, OpsInOrder, AcceptsInOrder, [Next]_vars
    PROVE  Moves
  <1>1. ASSUME UNCHANGED <<op, accepts>>
        PROVE  (\A c \in Command : OpMove(c)) /\ (\A a \in accepts' : AcceptMove(a))
    BY <1>1 DEF OpMove, AcceptMove
  <1>2. CASE ElectionStep \/ UNCHANGED vars
    BY <1>1, <1>2, LogsStay DEF ElectionStep, vars, replicationVars, Moves
  <1>3. ASSUME NEW n \in Nodes, StartCampaign(n)
        PROVE  Moves
    BY <1>1, <1>3, LogsStay DEF StartCampaign, Moves
  <1>4. ASSUME NEW n \in Nodes, BecomeLeader(n)
        PROVE  Moves
    <2> DEFINE lg == Log!SetLastIndex(log[n][0], prepLast[n])
    <2>1. log' = [log EXCEPT ![n][0] = lg]
      BY <1>4 DEF BecomeLeader
    <2>2. /\ IsLog(lg) /\ lg.entries = log[n][0].entries
          /\ lg.lastIndex >= log[n][0].lastIndex
          /\ lg.lastExecuted = log[n][0].lastExecuted
      BY Places, SetLastIndexKeeps DEF TypeOK
    <2> HIDE DEF lg
    <2>3. /\ DOMAIN lg.entries = DOMAIN log[n][0].entries
          /\ \A i \in DOMAIN lg.entries :
                Marked(n, 0, i, lg.entries[i], log[n][0].entries[i])
      BY <2>2 DEF Marked, SameInstance
    <2>4. \A m \in Nodes, q \in Partitions : LogMove(m, q)
      <3>1. n \in Nodes /\ 0 \in Partitions
        BY Places
      <3> QED
        BY <2>1, <2>2, <2>3, <3>1, LogMarked
    <2> QED
      BY <1>1, <1>4, <2>4 DEF BecomeLeader, Moves
  <1>5. ASSUME NEW n \in Nodes, NEW p \in Partitions, Execute(n, p)
        PROVE  Moves
    <2> DEFINE lg == Log!Execute(log[n][p])
    <2>1. log' = [log EXCEPT ![n][p] = lg] /\ Log!IsExecutable(log[n][p])
      BY <1>5 DEF Execute
    <2>2. /\ IsLog(lg) /\ DOMAIN lg.entries = DOMAIN log[n][p].entries
          /\ \A i \in DOMAIN lg.entries :
                /\ SameInstance(lg.entries[i], log[n][p].entries[i])
                /\ lg.entries[i] # log[n][p].entries[i] => log[n][p].entries[i].state = "COMMITTED"
          /\ lg.lastIndex = log[n][p].lastIndex
      <3>1. IsLog(log[n][p])
        BY DEF TypeOK
      <3> QED
        BY <2>1, <3>1, ExecuteAdvances
    <2> HIDE DEF lg
    <2>3. lg.lastIndex >= log[n][p].lastIndex
      BY <2>2 DEF IsLog
    <2>4. \A i \in DOMAIN lg.entries : Marked(n, p, i, lg.entries[i], log[n][p].entries[i])
      BY <2>2 DEF Marked
    <2>5. \A m \in Nodes, q \in Partitions : LogMove(m, q)
      BY <1>5, <2>1, <2>2, <2>3, <2>4, LogMarked
    <2> QED
      BY <1>1, <1>5, <2>5 DEF Execute, Moves
  <1> QED
    BY <1>2, <1>3, <1>4, <1>5, OpMoves, AcceptMoves DEF Next

-----------------------------------------------------------------------------
(* The moves keep the invariant.                                           *)

\* A Replicate keeps its index, and once it has proposed its ballot too; a
\* result is final.
OpKept(c) ==
    /\ op[c].index # 0 => SameOp(c)
    /\ Proposed(c) => Proposed(c)' /\ op[c].index # 0
    /\ op[c].pc = "ok" => op'[c] = op[c]

\* Every way a Replicate goes on keeps these.
LEMMA OpsKept ==
    ASSUME TypeOK, OpsInOrder, \A c \in Command : OpMove(c)
    PROVE  \A c \in Command : OpKept(c)
  <1> TAKE c \in Command
  <1>1. OpInOrder(c) /\ OpMove(c) /\ op[c] \in Op
    BY DEF OpsInOrder, TypeOK
  <1> QED
    BY <1>1 DEF OpInOrder, OpMove, OpKept, Proposed, SameOp, SameVotes

\* What is in a log is an instance.
LEMMA StoredTypes ==
    ASSUME TypeOK, NEW n \in Nodes, NEW p \in Partitions, NEW i \in DOMAIN log[n][p].entries
    PROVE  LET e == log[n][p].entries[i]
           IN  e \in Instance /\ e.cmd \in Command /\ e.ballot \in Nat /\ i \in Nat \ {0}
  <1>1. IsLog(log[n][p])
    BY DEF TypeOK
  <1>2. log[n][p].entries[i] \in Instance /\ i \in Nat \ {0}
    BY <1>1 DEF IsLog
  <1> QED
    BY <1>2 DEF Instance

\* A Replicate that moves on stays in order.
LEMMA OpsNext ==
    ASSUME TypeOK, TypeOK', OpsInOrder, Moves, held \subseteq held',
           \A n \in Nodes : ballot[n] \in held
    PROVE  OpsInOrder'
  <1> SUFFICES ASSUME NEW c \in Command
               PROVE  OpInOrder(c)'
    BY DEF OpsInOrder
  <1> DEFINE n == Home[c]  p == PartitionOf[c]
  <1>1. /\ n \in Nodes /\ p \in Partitions /\ ballot[n] \in held
        /\ op[c] \in Op /\ op'[c] \in Op /\ OpInOrder(c) /\ OpMove(c)
    BY Places DEF TypeOK, OpsInOrder, Moves
  <1>2. /\ log[n][p].lastIndex \in Nat /\ log'[n][p].lastIndex \in Nat
        /\ log'[n][p].lastIndex >= log[n][p].lastIndex
        /\ LogOf(n, c) = log[n][p] /\ LogOf(n, c)' = log'[n][p]
    BY <1>1 DEF TypeOK, IsLog, Moves, LogMove, LogOf
  <1> HIDE DEF n, p
  <1>3. ASSUME op[c].index # 0 => SameOp(c),
               op[c].index = 0 => op'[c].index = 0
        PROVE  op'[c].index # 0 => Led(c)' /\ op'[c].index <= LogOf(n, c)'.lastIndex
    BY <1>1, <1>2, <1>3 DEF OpInOrder, Led, SameOp, n, Op
  <1>4. CASE op'[c] = op[c]
    BY <1>1, <1>3, <1>4 DEF OpInOrder, Led, SameOp, n
  <1>5. CASE op[c].pc = "idle" /\ op'[c] # op[c]
    BY <1>1, <1>3, <1>5 DEF OpInOrder, OpMove, Led, SameVotes, n
  <1>6. CASE op[c].pc = "leading" /\ op'[c] # op[c]
    BY <1>1, <1>2, <1>6 DEF OpInOrder, OpMove, Led, SameVotes, n, Op
  <1>7. CASE op[c].pc \in {"indexed", "checked"} /\ op'[c] # op[c]
    <2>1. /\ SameOp(c) /\ op'[c].pc \in {"checked", "failed", "wait"} /\ op[c].index # 0
          /\ \/ SameVotes(c) /\ op'[c].pc # "wait"
             \/ op'[c].oks = {n} /\ op'[c].done = {n} /\ op'[c].pc = "wait"
      BY <1>1, <1>7 DEF OpInOrder, OpMove, n
    <2> QED
      BY <1>1, <1>3, <1>7, <2>1 DEF OpInOrder, SameOp, SameVotes, n
  <1>8. CASE op[c].pc = "wait" /\ op'[c] # op[c]
    <2>1. /\ SameOp(c) /\ op'[c].pc \in {"wait", "ok", "failed"} /\ op[c].index # 0
          /\ op[c].done \subseteq op'[c].done /\ op'[c].oks \subseteq op'[c].done
      BY <1>1, <1>8 DEF OpInOrder, OpMove, SameVotes
    <2> QED
      BY <1>1, <1>3, <1>8, <2>1 DEF OpInOrder, SameOp, n
  <1> QED
    BY <1>1, <1>4, <1>5, <1>6, <1>7, <1>8 DEF OpMove

\* An index handed out is above every earlier one of its log.
LEMMA IndexOnceNext ==
    ASSUME TypeOK, OpsInOrder, IndexOnce, Moves
    PROVE  IndexOnce'
  <1> SUFFICES ASSUME NEW c \in Command, NEW d \in Command, c # d,
                      Home[c] = Home[d], PartitionOf[c] = PartitionOf[d], op'[c].index # 0
               PROVE  op'[c].index # op'[d].index
    BY DEF IndexOnce
  <1> DEFINE last == log[Home[c]][PartitionOf[c]].lastIndex
  <1>1. /\ op[c].index \in Nat /\ op[d].index \in Nat /\ last \in Nat
        /\ last = LogOf(Home[c], c).lastIndex /\ last = LogOf(Home[d], d).lastIndex
    BY Places DEF TypeOK, Op, IsLog, LogOf
  <1> HIDE DEF last
  <1>2. op[c].index <= last /\ op[d].index <= last
    <2>1. OpInOrder(c) /\ OpInOrder(d)
      BY DEF OpsInOrder
    <2>2. op[c].index # 0 => op[c].index <= last
      BY <1>1, <2>1 DEF OpInOrder
    <2>3. op[d].index # 0 => op[d].index <= last
      BY <1>1, <2>1 DEF OpInOrder
    <2> QED
      BY <1>1, <2>2, <2>3
  <1>3. \A e \in {c, d} :
           \/ op'[e].index = op[e].index
           \/ op'[e].index = last + 1 /\ \A f \in Command \ {e} : op'[f] = op[f]
    BY <1>1 DEF Moves, OpMove, SameOp
  <1>4. CASE op'[c].index = op[c].index /\ op'[d].index = op[d].index
    BY <1>4 DEF IndexOnce
  <1>5. CASE op'[c].index = last + 1 /\ op'[d] = op[d]
    BY <1>1, <1>2, <1>5
  <1>6. CASE op'[d].index = last + 1 /\ op'[c] = op[c]
    BY <1>1, <1>2, <1>6
  <1> QED
    BY <1>3, <1>4, <1>5, <1>6

\* The calls posted are of a command proposed, and a rejection passes on a
\* ballot that the receiver has.
LEMMA AcceptsNext ==
    ASSUME TypeOK, OpsInOrder, AcceptsInOrder, Moves, held \subseteq held',
           \A n \in Nodes : ballot[n] \in held
    PROVE  AcceptsInOrder'
  <1> SUFFICES ASSUME NEW a \in accepts'
               PROVE  /\ Proposed(a.cmd)' /\ a.to # Home[a.cmd]
                      /\ a.stage = "reject" => a.reply \in held'
    BY DEF AcceptsInOrder
  <1>1. AcceptMove(a) /\ \A c \in Command : OpKept(c)
    BY OpsKept DEF Moves
  <1>2. ASSUME NEW c \in Command, Proposed(c)', a \in Posted(c)
        PROVE  a.cmd = c /\ a.to # Home[c] /\ a.stage = "sent"
    BY <1>2, PostedTypes
  <1>3. ASSUME NEW b \in accepts
        PROVE  /\ b.cmd \in Command /\ b.to \in Nodes /\ Proposed(b.cmd)'
               /\ b.to # Home[b.cmd] /\ (b.stage = "reject" => b.reply \in held')
    BY <1>1 DEF AcceptsInOrder, OpKept, TypeOK, AcceptCall
  <1> QED
    BY <1>1, <1>2, <1>3 DEF AcceptMove

\* What is stored or proposed anew has an index of its own, and a ballot that
\* its replica led with.
LEMMA OneCommandNext ==
    ASSUME TypeOK, TypeOK', OpsInOrder, OpsInOrder', IndexOnce', OneCommandPerBallot, Moves
    PROVE  OneCommandPerBallot'
  <1>1. \A c \in Command : OpKept(c)
    BY OpsKept DEF Moves
  <1>2. ASSUME NEW n \in Nodes, NEW p \in Partitions, NEW i \in DOMAIN log'[n][p].entries,
               NEW c, c = log'[n][p].entries[i].cmd
        PROVE  /\ Proposed(c)' /\ PartitionOf[c] = p
               /\ log'[n][p].entries[i].index = i /\ i = op'[c].index
               /\ log'[n][p].entries[i].ballot = op'[c].ballot
    <2> DEFINE e == log'[n][p].entries[i]
               f == log[n][p].entries[i]
    <2>1. \/ i \in DOMAIN log[n][p].entries /\ SameInstance(e, f)
          \/ \E d \in Command : /\ Proposed(d)' /\ PartitionOf[d] = p /\ op'[d].index = i
                                /\ e = Proposal(d)'
      BY DEF Moves, LogMove, Marked
    <2>2. ASSUME i \in DOMAIN log[n][p].entries
          PROVE  /\ f.cmd \in Command /\ Proposed(f.cmd) /\ PartitionOf[f.cmd] = p
                 /\ f.index = i /\ f.index = op[f.cmd].index /\ f.ballot = op[f.cmd].ballot
      BY <2>2, StoredTypes DEF OneCommandPerBallot
    <2>3. CASE i \in DOMAIN log[n][p].entries /\ SameInstance(e, f)
      <3>1. c = f.cmd /\ e.index = f.index /\ e.ballot = f.ballot
        BY <1>2, <2>3 DEF SameInstance
      <3> HIDE DEF e, f
      <3>2. /\ c \in Command /\ Proposed(c) /\ PartitionOf[c] = p
            /\ f.index = i /\ f.index = op[c].index /\ f.ballot = op[c].ballot
        BY <2>2, <2>3, <3>1
      <3>3. Proposed(c)' /\ SameOp(c)
        BY <1>1, <3>2 DEF OpKept
      <3>4. e.index = i /\ i = op'[c].index /\ e.ballot = op'[c].ballot
        BY <3>1, <3>2, <3>3 DEF SameOp
      <3> QED
        BY <3>2, <3>3, <3>4 DEF e
    <2>4. CASE \E d \in Command : /\ Proposed(d)' /\ PartitionOf[d] = p /\ op'[d].index = i
                                  /\ e = Proposal(d)'
      <3>1. PICK d \in Command : /\ Proposed(d)' /\ PartitionOf[d] = p /\ op'[d].index = i
                                /\ e = Proposal(d)'
        BY <2>4
      <3>2. e.cmd = d /\ e.index = op'[d].index /\ e.ballot = op'[d].ballot
        BY <3>1 DEF Proposal
      <3> QED
        BY <1>2, <3>1, <3>2
    <2> QED
      BY <2>1, <2>3, <2>4
  <1>3. ASSUME NEW c \in Command, NEW d \in Command, Proposed(c)', Proposed(d)',
               PartitionOf[c] = PartitionOf[d],
               op'[c].ballot = op'[d].ballot, op'[c].index = op'[d].index
        PROVE  c = d
    <2>1. op'[c].index # 0 /\ Led(c)' /\ Led(d)'
      BY <1>3 DEF OpsInOrder, OpInOrder, Proposed
    <2>2. Home[c] = Home[d]
      BY <1>3, <2>1 DEF Led, IsLeader
    <2> QED
      BY <1>3, <2>1, <2>2 DEF IndexOnce
  <1> QED
    BY <1>2, <1>3 DEF OneCommandPerBallot, Proposed

\* What a replica stores of a proposed command is there to stay, or gives way
\* to something of a higher ballot.
LEMMA StoresOn ==
    ASSUME TypeOK, TypeOK', Moves, NEW c \in Command, NEW m \in Nodes, SameOp(c), Stores(m, c)
    PROVE  Stores(m, c)'
  <1> DEFINE p == PartitionOf[c]  i == op[c].index
             old == log[m][p].entries  new == log'[m][p].entries
  <1>1. /\ p \in Partitions /\ i \in DOMAIN old /\ old[i].ballot >= op[c].ballot
        /\ op'[c].index = i /\ op'[c].ballot = op[c].ballot /\ op[c].ballot \in Nat
    BY Places DEF Stores, LogOf, SameOp, TypeOK, Op
  <1>2. DOMAIN old \subseteq DOMAIN new /\ LogMove(m, p)
    BY <1>1 DEF Moves, LogMove
  <1>3. old[i].ballot \in Nat
    BY <1>1, StoredTypes
  <1>4. new[i].ballot = old[i].ballot \/ new[i].ballot > old[i].ballot
    BY <1>1, <1>2 DEF LogMove, Marked, SameInstance
  <1>5. new[i].ballot \in Nat
    <2>1. IsLog(log'[m][p])
      BY <1>1 DEF TypeOK
    <2>2. new[i] \in Instance
      BY <1>1, <1>2, <2>1 DEF IsLog
    <2> QED
      BY <2>2 DEF Instance
  <1> HIDE DEF old, i
  <1>6. i \in DOMAIN new /\ new[i].ballot >= op[c].ballot
    BY <1>1, <1>2, <1>3, <1>4, <1>5
  <1> QED
    BY <1>1, <1>6 DEF Stores, LogOf

\* A replica goes on holding what it holds, unless its ballot is taken down.
LEMMA BackedOn ==
    ASSUME TypeOK, TypeOK', Moves, regressed \subseteq regressed',
           NEW c \in Command, NEW m \in Nodes, SameOp(c), Backed(m, c)
    PROVE  Backed(m, c)'
  <1>1. Stores(m, c) \/ m \in regressed
    BY DEF Backed, Stores
  <1>2. Stores(m, c)' \/ m \in regressed'
    BY <1>1, StoresOn
  <1> QED
    BY <1>2 DEF Backed, Stores

\* An OK is answered by a replica that has appended the instance, or that had
\* refused it and went below its ballot since.
LEMMA AcksNext ==
    ASSUME TypeOK, TypeOK', OpsInOrder, AcceptsInOrder, AcksInOrder, Moves,
           regressed \subseteq regressed',
           \A n \in Nodes : /\ ballot[n] \in Nat /\ ballot'[n] \in Nat
                            /\ ballot'[n] >= ballot[n] \/ n \in regressed'
    PROVE  AcksInOrder'
  <1>1. \A c \in Command : OpKept(c) /\ OpMove(c) /\ OpInOrder(c) /\ op[c] \in Op
    BY OpsKept DEF Moves, OpsInOrder, TypeOK
  <1>2. ASSUME NEW c \in Command, Proposed(c)
        PROVE  op[c].index # 0 /\ SameOp(c)
    BY <1>1, <1>2 DEF OpKept
  <1>3. ASSUME NEW c \in Command, NEW m \in op'[c].oks
        PROVE  Backed(m, c)'
    <2>1. CASE m \in op[c].oks
      <3>1. Proposed(c) /\ m \in Nodes /\ Backed(m, c)
        BY <1>1, <2>1 DEF OpInOrder, Proposed, AcksInOrder, Op
      <3> QED
        BY <1>2, <3>1, BackedOn
    <2>2. CASE m \notin op[c].oks
      <3>1. \/ m = Home[c] /\ Stores(Home[c], c)'
            \/ \E a \in accepts : a.cmd = c /\ a.to = m /\ a.stage = "ok"
        BY <1>1, <1>3, <2>2 DEF OpMove, SameVotes
      <3>2. ASSUME NEW a \in accepts, a.cmd = c, a.to = m, a.stage = "ok"
            PROVE  Backed(m, c)'
        <4>1. Proposed(c) /\ m \in Nodes /\ Backed(m, c)
          BY <3>2 DEF AcceptsInOrder, AcksInOrder, TypeOK, AcceptCall
        <4> QED
          BY <1>2, <4>1, BackedOn
      <3> QED
        BY <3>1, <3>2 DEF Backed, Stores
    <2> QED
      BY <2>1, <2>2
  <1>4. ASSUME NEW a \in accepts'
        PROVE  /\ a.stage \in {"appended", "followed", "ok"} => Backed(a.to, a.cmd)'
               /\ a.stage = "refused" => ballot'[a.to] > op'[a.cmd].ballot \/ a.to \in regressed'
    <2>1. AcceptMove(a)
      BY DEF Moves
    <2>2. ASSUME NEW b \in accepts
          PROVE  /\ b.cmd \in Command /\ b.to \in Nodes /\ Proposed(b.cmd)
                 /\ op[b.cmd].ballot \in Nat /\ op'[b.cmd].ballot = op[b.cmd].ballot
                 /\ ballot[b.to] \in Nat /\ ballot'[b.to] \in Nat
                 /\ ballot'[b.to] >= ballot[b.to] \/ b.to \in regressed'
      <3>1. b.cmd \in Command /\ b.to \in Nodes /\ Proposed(b.cmd)
        BY DEF TypeOK, AcceptCall, AcceptsInOrder
      <3> QED
        BY <1>1, <1>2, <3>1 DEF SameOp, Op
    <2>3. ASSUME NEW b \in accepts, Backed(b.to, b.cmd)
          PROVE  Backed(b.to, b.cmd)'
      BY <1>2, <2>2, <2>3, BackedOn
    <2>4. ASSUME NEW b \in accepts, Outdated(b) \/ b.stage = "refused"
          PROVE  ballot'[b.to] > op'[b.cmd].ballot \/ b.to \in regressed'
      <3>1. ballot[b.to] > op[b.cmd].ballot \/ b.to \in regressed
        BY <2>2, <2>4 DEF Outdated, AcksInOrder
      <3> QED
        BY <2>2, <3>1
    <2>5. CASE a \in accepts
      BY <2>3, <2>4, <2>5 DEF AcksInOrder
    <2>6. CASE \E c \in Command : Proposed(c)' /\ a \in Posted(c)
      BY <2>6, PostedTypes
    <2>7. ASSUME NEW b \in accepts, a.cmd = b.cmd, a.to = b.to,
                 \/ a.stage = b.stage
                 \/ b.stage = "sent" /\ a.stage = "passed"
                 \/ b.stage = "sent" /\ a.stage = "refused" /\ Outdated(b)
                 \/ b.stage = "passed" /\ a.stage = "appended" /\ Stores(a.to, a.cmd)'
                 \/ b.stage = "appended" /\ a.stage = "followed"
                 \/ b.stage \in {"refused", "followed"} /\ a.stage = "reject"
                 \/ b.stage \in {"refused", "followed"} /\ a.stage = "ok" /\ ~ Outdated(b)
          PROVE  /\ a.stage \in {"appended", "followed", "ok"} => Backed(a.to, a.cmd)'
                 /\ a.stage = "refused" =>
                       ballot'[a.to] > op'[a.cmd].ballot \/ a.to \in regressed'
      <3>1. CASE a.stage = "refused"
        BY <2>4, <2>7, <3>1
      <3>2. CASE a.stage \in {"appended", "followed", "ok"} /\ b.stage # "refused"
        <4>1. Backed(b.to, b.cmd) \/ Stores(a.to, a.cmd)'
          BY <2>7, <3>2 DEF AcksInOrder
        <4>2. Backed(b.to, b.cmd)' \/ Stores(b.to, b.cmd)'
          BY <2>3, <2>7, <4>1 DEF Stores, LogOf
        <4>3. Backed(b.to, b.cmd)'
          BY <4>2 DEF Backed, Stores
        <4> QED
          BY <2>7, <3>2, <4>3 DEF Backed, LogOf
      <3>3. CASE a.stage = "ok" /\ b.stage = "refused"
        <4>1. b.to \in regressed'
          BY <2>2, <2>7, <3>3 DEF Outdated, AcksInOrder
        <4> QED
          BY <2>7, <3>3, <4>1 DEF Backed
      <3> QED
        BY <2>7, <3>1, <3>2, <3>3
    <2> QED
      BY <2>1, <2>5, <2>6, <2>7 DEF AcceptMove
  <1> QED
    BY <1>3, <1>4 DEF AcksInOrder

\* An executor applies the command of its next index, which is committed.
LEMMA Executed ==
    ASSUME TypeOK, OneCommandPerBallot, NEW n \in Nodes, NEW p \in Partitions, Execute(n, p)
    PROVE  \E c \in Command :
              LET k == log[n][p].lastExecuted + 1
              IN  /\ k \in DOMAIN log[n][p].entries
                  /\ log[n][p].entries[k].cmd = c /\ log[n][p].entries[k].state = "COMMITTED"
                  /\ Proposed(c) /\ op[c].index = k /\ PartitionOf[c] = p
                  /\ applied' = [applied EXCEPT ![n][p] = Append(@, c)]
                  /\ answered' = IF Home[c] = n THEN answered \cup {c} ELSE answered
                  /\ log'[n][p].lastExecuted = k /\ UNCHANGED op
                  /\ \A m \in Nodes, q \in Partitions :
                        ~ (m = n /\ q = p) => log'[m][q] = log[m][q]
  <1> DEFINE lg == log[n][p]
             k  == lg.lastExecuted + 1
             c  == lg.entries[k].cmd
  <1>1. IsLog(lg) /\ Log!IsExecutable(lg) /\ Log!NextIndex(lg) = k
    BY DEF TypeOK, Execute, Log!NextIndex
  <1>2. /\ k \in DOMAIN lg.entries /\ lg.entries[k].state = "COMMITTED"
        /\ IsLog(Log!Execute(lg)) /\ Log!Execute(lg).lastExecuted = k
    BY <1>1, ExecuteAdvances
  <1>3. c \in Command /\ Proposed(c) /\ op[c].index = k /\ PartitionOf[c] = p
    BY <1>2, StoredTypes DEF OneCommandPerBallot
  <1>4. /\ log' = [log EXCEPT ![n][p] = Log!Execute(lg)]
        /\ applied' = [applied EXCEPT ![n][p] = Append(@, c)]
        /\ answered' = IF Home[c] = n THEN answered \cup {c} ELSE answered
        /\ UNCHANGED op
    BY <1>1 DEF Execute
  <1>5. /\ log'[n][p].lastExecuted = k
        /\ \A m \in Nodes, q \in Partitions : ~ (m = n /\ q = p) => log'[m][q] = log[m][q]
    BY <1>2, <1>4 DEF TypeOK
  <1> QED
    BY <1>2, <1>3, <1>4, <1>5

\* Nobody else applies or answers.
LEMMA OnlyExecutorsApply ==
    ASSUME [Next]_vars
    PROVE  \/ \E n \in Nodes, p \in Partitions : Execute(n, p)
           \/ UNCHANGED <<applied, answered>>
  <1>1. ASSUME NEW c \in Command, OpStep(c)
        PROVE  UNCHANGED <<applied, answered>>
    BY <1>1 DEF OpStep, Replicate, AdvanceLastIndex, CheckBallot, ProposeToAll,
       CommitByMajority, GiveUp
  <1>2. ASSUME NEW a \in accepts, AcceptStep(a) \/ AcceptFails(a)
        PROVE  UNCHANGED <<applied, answered>>
    BY <1>2 DEF AcceptStep, AcceptCompare, AcceptAppend, AcceptFollow, AcceptAnswer,
       AcceptCallback, AcceptFails
  <1>3. ASSUME NEW n \in Nodes, StartCampaign(n) \/ BecomeLeader(n)
        PROVE  UNCHANGED <<applied, answered>>
    BY <1>3 DEF StartCampaign, BecomeLeader
  <1>4. CASE ElectionStep \/ UNCHANGED vars
    BY <1>4 DEF ElectionStep, vars, replicationVars
  <1> QED
    BY <1>1, <1>2, <1>3, <1>4 DEF Next

\* An executor appends to its store's history the command of the next index.
LEMMA AppliedNext ==
    ASSUME TypeOK, TypeOK', OpsInOrder, OneCommandPerBallot, AppliedAtItsIndex, Moves, [Next]_vars
    PROVE  AppliedAtItsIndex'
  <1> DEFINE InOrder(m, q) ==
        /\ Len(applied[m][q]) = log[m][q].lastExecuted
        /\ \A j \in DOMAIN applied[m][q] :
              op[applied[m][q][j]].index = j /\ PartitionOf[applied[m][q][j]] = q
  <1>1. \A m \in Nodes, q \in Partitions :
           InOrder(m, q) /\ applied[m][q] \in Seq(Command) /\ log[m][q].lastExecuted \in Nat
    BY DEF AppliedAtItsIndex, TypeOK, IsLog
  <1>2. \A c \in Command : op[c].index # 0 => op'[c].index = op[c].index
    BY OpsKept DEF Moves, OpKept, SameOp
  <1>3. ASSUME NEW m \in Nodes, NEW q \in Partitions, applied'[m][q] = applied[m][q],
               log'[m][q].lastExecuted = log[m][q].lastExecuted
        PROVE  InOrder(m, q)'
    <2>1. \A j \in DOMAIN applied[m][q] : j # 0 /\ applied[m][q][j] \in Command
      BY <1>1
    <2>2. \A j \in DOMAIN applied[m][q] : op'[applied[m][q][j]].index = j
      BY <1>1, <1>2, <2>1
    <2> QED
      BY <1>1, <1>3, <2>2
  <1>4. ASSUME NEW n \in Nodes, NEW p \in Partitions, Execute(n, p)
        PROVE  \A m \in Nodes, q \in Partitions : InOrder(m, q)'
    <2> DEFINE k == log[n][p].lastExecuted + 1
    <2>1. PICK c \in Command :
              /\ op[c].index = k /\ PartitionOf[c] = p
              /\ applied' = [applied EXCEPT ![n][p] = Append(@, c)]
              /\ log'[n][p].lastExecuted = k /\ UNCHANGED op
              /\ \A m \in Nodes, q \in Partitions :
                    ~ (m = n /\ q = p) => log'[m][q] = log[m][q]
      BY <1>4, Executed
    <2> HIDE DEF k
    <2>2. applied'[n][p] = Append(applied[n][p], c)
      BY <2>1 DEF TypeOK
    <2>3. /\ Len(applied'[n][p]) = k /\ DOMAIN applied'[n][p] = 1 .. k
          /\ applied'[n][p][k] = c
          /\ \A j \in 1 .. k : j # k => j \in DOMAIN applied[n][p]
                                     /\ applied'[n][p][j] = applied[n][p][j]
      BY <1>1, <2>2 DEF k
    <2>4. InOrder(n, p)'
      BY <1>1, <2>1, <2>3
    <2>5. ASSUME NEW m \in Nodes, NEW q \in Partitions, ~ (m = n /\ q = p)
          PROVE  InOrder(m, q)'
      <3>1. applied'[m][q] = applied[m][q] /\ log'[m][q] = log[m][q]
        BY <2>1, <2>5 DEF TypeOK
      <3> QED
        BY <1>3, <3>1
    <2> QED
      BY <2>4, <2>5
  <1>5. CASE \A m \in Nodes, q \in Partitions : ~ Execute(m, q)
    <2>1. UNCHANGED applied
      BY <1>5, OnlyExecutorsApply
    <2>2. \A m \in Nodes, q \in Partitions : log'[m][q].lastExecuted = log[m][q].lastExecuted
      BY <1>5 DEF Moves, LogMove
    <2> QED
      BY <1>3, <2>1, <2>2 DEF AppliedAtItsIndex
  <1> QED
    BY <1>4, <1>5 DEF AppliedAtItsIndex

\* A commit is of the Replicate's own index, behind a majority; an answer is of
\* an instance committed at the replica it came to.
LEMMA CommitsNext ==
    ASSUME TypeOK, TypeOK', OpsInOrder, IndexOnce, OneCommandPerBallot, CommitsInOrder, Moves,
           [Next]_vars
    PROVE  CommitsInOrder'
  <1>1. \A c \in Command : OpKept(c) /\ OpMove(c) /\ OpInOrder(c)
    BY OpsKept DEF Moves, OpsInOrder
  <1>2. ASSUME NEW c \in Command, op[c].pc = "ok"  PROVE op'[c].pc = "ok"
    BY <1>1, <1>2 DEF OpKept
  <1>3. ASSUME NEW c \in Command, op'[c].pc = "ok"
        PROVE  E!Majority(op'[c].oks)
    <2>1. CASE op[c].pc = "ok"
      BY <1>1, <2>1 DEF OpKept, CommitsInOrder
    <2>2. CASE op[c].pc # "ok"
      BY <1>1, <1>3, <2>2 DEF OpMove, SameVotes
    <2> QED
      BY <2>1, <2>2
  <1>4. ASSUME NEW n \in Nodes, NEW p \in Partitions, NEW i \in DOMAIN log'[n][p].entries,
               NEW d, d = log'[n][p].entries[i].cmd,
               log'[n][p].entries[i].state # "INPROGRESS", Home[d] = n
        PROVE  op'[d].pc = "ok"
    <2> DEFINE e == log'[n][p].entries[i]
               f == log[n][p].entries[i]
    <2>1. i \in DOMAIN log[n][p].entries /\ Marked(n, p, i, e, f)
      <3>1. \A c \in Command : Proposal(c)'.state = "INPROGRESS"
        BY DEF Proposal
      <3>2. \/ i \in DOMAIN log[n][p].entries /\ Marked(n, p, i, e, f)
            \/ \E c \in Command : e = Proposal(c)'
        BY DEF Moves, LogMove
      <3> QED
        BY <1>4, <3>1, <3>2
    <2>2. /\ d = f.cmd /\ d \in Command /\ PartitionOf[d] = p /\ op[d].index = i /\ i # 0
      <3>1. /\ f.cmd \in Command /\ PartitionOf[f.cmd] = p /\ op[f.cmd].index = i /\ i # 0
        BY <2>1, StoredTypes DEF OneCommandPerBallot
      <3>2. e.cmd = f.cmd
        BY <2>1 DEF Marked, SameInstance
      <3> QED
        BY <1>4, <3>1, <3>2
    <2>3. CASE f.state # "INPROGRESS"
      <3>1. op[d].pc = "ok"
        BY <1>4, <2>1, <2>2, <2>3 DEF CommitsInOrder
      <3> QED
        BY <1>2, <2>2, <3>1
    <2>4. CASE Committing(n, p, i)
      <3>1. PICK c \in Command : /\ Home[c] = n /\ PartitionOf[c] = p /\ op[c].index = i
                                /\ op'[c].pc = "ok"
        BY <2>4 DEF Committing
      <3>2. c = d
        BY <1>4, <2>2, <3>1 DEF IndexOnce
      <3> QED
        BY <3>1, <3>2
    <2> QED
      BY <1>4, <2>1, <2>3, <2>4 DEF Marked
  <1>5. ASSUME NEW d \in answered'
        PROVE  op'[d].pc = "ok"
    <2>1. \A c \in answered : c \in Command /\ op'[c].pc = "ok"
      BY <1>2 DEF CommitsInOrder, TypeOK
    <2>2. CASE d \notin answered
      <3>1. PICK n \in Nodes, p \in Partitions : Execute(n, p)
        BY <1>5, <2>2, OnlyExecutorsApply
      <3> DEFINE k == log[n][p].lastExecuted + 1
      <3>2. PICK c \in Command :
              /\ k \in DOMAIN log[n][p].entries
              /\ log[n][p].entries[k].cmd = c /\ log[n][p].entries[k].state = "COMMITTED"
              /\ answered' = IF Home[c] = n THEN answered \cup {c} ELSE answered
        BY <3>1, Executed
      <3> HIDE DEF k
      <3>3. d = c /\ Home[c] = n
        BY <1>5, <2>2, <3>2
      <3>4. op[c].pc = "ok"
        BY <3>2, <3>3 DEF CommitsInOrder
      <3> QED
        BY <1>2, <3>3, <3>4
    <2> QED
      BY <2>1, <2>2
  <1> QED
    BY <1>3, <1>4, <1>5 DEF CommitsInOrder, E!Majority

-----------------------------------------------------------------------------
(* The invariant, and what it gives.                                       *)

\* The invariant holds at first ...
LEMMA InvInit == Init => IInv
  <1> SUFFICES ASSUME Init
               PROVE  IInv
    OBVIOUS
  <1>1. EP!IInv
    BY ElectionInit DEF Init
  <1>2. TypeOK
    <2>1. IsLog(Log!NewLog)
      BY DEF IsLog, Log!NewLog
    <2>2. E!TypeOK
      BY <1>1, ElectionHeld
    <2>3. /\ log = [n \in Nodes |-> [p \in Partitions |-> log[n][p]]]
          /\ \A n \in Nodes, p \in Partitions : log[n][p] = Log!NewLog
      BY DEF Init
    <2>4. /\ prepLast \in [Nodes -> Nat] /\ op \in [Command -> Op] /\ accepts \subseteq AcceptCall
          /\ acceptFailures \in Nat /\ answered \subseteq Command
          /\ applied \in [Nodes -> [Partitions -> Seq(Command)]]
      BY DEF Init, Op
    <2> QED
      BY <2>1, <2>2, <2>3, <2>4 DEF TypeOK
  <1>3. \A c \in Command : /\ op[c].pc = "idle" /\ op[c].index = 0
                           /\ op[c].oks = {} /\ op[c].done = {}
    BY DEF Init
  <1>4. \A n \in Nodes, p \in Partitions :
           log[n][p].entries = [i \in {} |-> 0] /\ log[n][p].lastExecuted = 0
    BY DEF Init, Log!NewLog
  <1>5. OpsInOrder /\ IndexOnce /\ AcceptsInOrder
    BY <1>3 DEF OpsInOrder, OpInOrder, IndexOnce, AcceptsInOrder, Init
  <1>6. OneCommandPerBallot
    BY <1>3, <1>4 DEF OneCommandPerBallot, Proposed
  <1>7. AppliedAtItsIndex
    BY <1>4 DEF AppliedAtItsIndex, Init
  <1>8. AcksInOrder /\ CommitsInOrder
    BY <1>3, <1>4 DEF AcksInOrder, CommitsInOrder, Init
  <1> QED
    BY <1>1, <1>2, <1>5, <1>6, <1>7, <1>8 DEF IInv

\* ... and every step keeps it.
LEMMA InvNext == IInv /\ [Next]_vars => IInv'
  <1> SUFFICES ASSUME IInv, [Next]_vars
               PROVE  IInv'
    OBVIOUS
  <1>1. /\ EP!IInv /\ TypeOK /\ OpsInOrder /\ IndexOnce /\ AcceptsInOrder
        /\ OneCommandPerBallot /\ AppliedAtItsIndex /\ AcksInOrder /\ CommitsInOrder
    BY DEF IInv
  <1>2. [E!Next]_E!electionVars
    BY <1>1, StepIsElection
  <1>3. EP!IInv' /\ E!TypeOK'
    <2>1. EP!IInv'
      BY <1>1, <1>2, ElectionKeeps
    <2> QED
      BY <2>1, SameElection DEF EP!IInv
  <1>4. TypeOK'
    BY <1>1, <1>3, TypeNext
  <1>5. Moves
    BY <1>1, EveryMove
  <1>6. /\ held \subseteq held' /\ regressed \subseteq regressed'
        /\ \A n \in Nodes : /\ ballot[n] \in held
                            /\ ballot'[n] >= ballot[n] \/ n \in regressed'
    BY <1>1, <1>2, ElectionHeld, ElectionMoves
  <1>7. \A n \in Nodes : ballot[n] \in Nat /\ ballot'[n] \in Nat
    BY <1>1, <1>4 DEF TypeOK, E!TypeOK, Nodes
  <1>8. OpsInOrder'
    BY <1>1, <1>4, <1>5, <1>6, OpsNext
  <1>9. IndexOnce' /\ AcceptsInOrder'
    BY <1>1, <1>5, <1>6, IndexOnceNext, AcceptsNext
  <1>10. OneCommandPerBallot'
    BY <1>1, <1>4, <1>5, <1>8, <1>9, OneCommandNext
  <1>11. AppliedAtItsIndex' /\ CommitsInOrder'
    BY <1>1, <1>4, <1>5, AppliedNext, CommitsNext
  <1>12. AcksInOrder'
    BY <1>1, <1>4, <1>5, <1>6, <1>7, AcksNext
  <1> QED
    BY <1>3, <1>4, <1>8, <1>9, <1>10, <1>11, <1>12 DEF IInv

\* So it holds throughout.
LEMMA Inductive == Spec => []IInv
  BY InvInit, InvNext, PTL DEF Spec

\* Every log, every Replicate and every Accept call of replication keeps its
\* type.
THEOREM TypeCorrect == Spec => []TypeOK
  <1>1. IInv => TypeOK
    BY DEF IInv
  <1> QED
    BY <1>1, Inductive, PTL

\* Replication implements the election, though Accept calls carry ballots and
\* their handlers and callbacks move them: no ballot is followed through
\* replication that some replica has not had.
THEOREM RefinesElection == Spec => ImplementsElection
  <1>1. Init => E!Init
    BY DEF Init
  <1>2. IInv /\ [Next]_vars => [E!Next]_E!electionVars
    BY StepIsElection DEF IInv
  <1> QED
    BY <1>1, <1>2, Inductive, PTL DEF Spec, ImplementsElection, E!Spec

\* An index and a ballot stand for one command of a partition.
THEOREM OneCommand == Spec => []OneCommandPerBallot
  <1>1. IInv => OneCommandPerBallot
    BY DEF IInv
  <1> QED
    BY <1>1, Inductive, PTL

\* Every store executes, k-th, the command that was given index k.
THEOREM AppliedInOrder == Spec => []AppliedAtItsIndex
  <1>1. IInv => AppliedAtItsIndex
    BY DEF IInv
  <1> QED
    BY <1>1, Inductive, PTL

\* What backs a proposal at its own ballot is the command proposed.
LEMMA BackedByCommand ==
    ASSUME IInv, NEW c \in Command, NEW m \in Nodes, Proposed(c), Backed(m, c)
    PROVE  Holds(m, c)
  <1> SUFFICES ASSUME m \notin regressed PROVE Holds(m, c)
    BY DEF Holds
  <1>0. PICK i : i = op[c].index
    OBVIOUS
  <1>1. PICK p \in Partitions : p = PartitionOf[c] /\ i = op[c].index
    BY <1>0, Places
  <1>2. i \in DOMAIN log[m][p].entries /\ log[m][p].entries[i].ballot >= op[c].ballot
    BY <1>1 DEF Backed, LogOf
  <1>3. OneCommandPerBallot
    BY DEF IInv
  <1> DEFINE e == log[m][p].entries[i]
  <1>4. /\ Proposed(e.cmd) /\ PartitionOf[e.cmd] = p
        /\ e.index = i /\ e.index = op[e.cmd].index /\ e.ballot = op[e.cmd].ballot
    BY <1>2, <1>3 DEF OneCommandPerBallot
  <1> HIDE DEF e
  <1>5. PICK d \in Command : /\ d = e.cmd /\ Proposed(d) /\ PartitionOf[d] = p
                            /\ op[d].index = i /\ e.ballot = op[d].ballot
    BY <1>2, <1>4, StoredTypes DEF e, IInv
  <1>6. op[c].ballot \in Nat /\ op[d].ballot \in Nat
    BY DEF IInv, TypeOK, Op
  <1>7. op[d].ballot = op[c].ballot => d = c
    BY <1>1, <1>3, <1>5 DEF OneCommandPerBallot
  <1>8. e.cmd = c \/ e.ballot > op[c].ballot
    BY <1>2, <1>5, <1>6, <1>7 DEF e
  <1> QED
    BY <1>1, <1>2, <1>8 DEF Holds, LogOf, e

\* The OK of an Accept is given by a replica that stores the command, or an
\* instance of a higher ballot, unless its ballot was once taken down.
THEOREM AcksAreBacked == Spec => []AckedIsStored
  <1>1. IInv => AckedIsStored
    <2> SUFFICES ASSUME IInv PROVE AckedIsStored
      OBVIOUS
    <2>1. ASSUME NEW c \in Command, NEW m \in op[c].oks PROVE Holds(m, c)
      <3>1. m \in Nodes /\ Backed(m, c)
        BY <2>1 DEF IInv, AcksInOrder, TypeOK, Op
      <3>2. Proposed(c)
        BY <2>1 DEF IInv, OpsInOrder, OpInOrder, Proposed
      <3> QED
        BY <3>1, <3>2, BackedByCommand
    <2>2. ASSUME NEW a \in accepts, a.stage = "ok" PROVE Holds(a.to, a.cmd)
      <3>1. /\ a.to \in Nodes /\ a.cmd \in Command
            /\ Proposed(a.cmd) /\ Backed(a.to, a.cmd)
        BY <2>2 DEF IInv, AcksInOrder, AcceptsInOrder, TypeOK, AcceptCall
      <3> QED
        BY <3>1, BackedByCommand
    <2> QED
      BY <2>1, <2>2 DEF AckedIsStored
  <1> QED
    BY <1>1, Inductive, PTL

\* A client is answered only for a command whose quorum stores it, or instances
\* of higher ballots: the quorum is counted before Commit, Commit marks its
\* instance and no other of its replica's, and the executor answers for nothing
\* else.  Replicas whose ballot once went down are not spoken of: they count
\* whatever they store, and with three candidates they can be the majority.
THEOREM AnsweredIsStored == Spec => []AnsweredIsReplicated
  <1>1. IInv => AnsweredIsReplicated
    <2> SUFFICES ASSUME IInv, NEW c \in answered
                 PROVE  /\ op[c].pc = "ok"
                        /\ 2 * Cardinality({m \in Nodes : Holds(m, c)}) > NumPeers
      BY DEF AnsweredIsReplicated
    <2> DEFINE S == {m \in Nodes : Holds(m, c)}
    <2>1. c \in Command /\ op[c].pc = "ok" /\ op[c].oks \subseteq Nodes
      BY DEF IInv, TypeOK, CommitsInOrder, Op
    <2>2. E!Cardinality(op[c].oks) > NumPeers \div 2
      BY <2>1 DEF IInv, CommitsInOrder, E!Majority
    <2>3. Cardinality(op[c].oks) > NumPeers \div 2
      BY <2>2 DEF E!Cardinality, Cardinality
    <2>4. op[c].oks \subseteq S /\ S \subseteq Nodes
      <3>1. Proposed(c)
        BY <2>1 DEF IInv, OpsInOrder, OpInOrder, Proposed
      <3>2. \A m \in op[c].oks : Backed(m, c)
        BY <2>1 DEF IInv, AcksInOrder
      <3> QED
        BY <2>1, <3>1, <3>2, BackedByCommand
    <2> HIDE DEF S
    <2>5. IsFiniteSet(S) /\ Cardinality(op[c].oks) <= Cardinality(S)
      BY <2>4, Places, FS_Subset
    <2>6. Cardinality(S) \in Nat /\ Cardinality(op[c].oks) \in Nat
      BY <2>4, <2>5, FS_Subset, FS_CardinalityType
    <2> QED
      BY <2>1, <2>3, <2>5, <2>6, Places DEF S
  <1> QED
    BY <1>1, Inductive, PTL

=============================================================================
