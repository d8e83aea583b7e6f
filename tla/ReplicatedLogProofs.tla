------------------------ MODULE ReplicatedLogProofs ------------------------
(***************************************************************************)
(* Replication while only one replica ever campaigns, as long as nobody    *)
(* restarts: what is stored stays, and replication implements the          *)
(* replicated log it is meant to be.                                       *)
(***************************************************************************)
EXTENDS MultiPaxosProofs

-----------------------------------------------------------------------------
(* What a sole candidate k gives, besides the invariant of replication.    *)

\* Every index is handed out by k.
HandedOutBy(k) == \A c \in Command : op[c].index # 0 => Home[c] = k

\* Nobody else commits.
CommitsAt(k) ==
    \A n \in Nodes \ {k}, p \in Partitions : \A i \in DOMAIN log[n][p].entries :
        log[n][p].entries[i].state = "INPROGRESS"

\* The commands that have been given an index.
Indexed == {c \in Command : op[c].index # 0}

\* No index is above the number of those: what BecomeLeader makes of the last
\* index is at most what it already was.
IndexesInRange ==
    /\ \A n \in Nodes, p \in Partitions : log[n][p].lastIndex <= Cardinality(Indexed)
    /\ \A n \in Nodes : prepLast[n] <= Cardinality(Indexed)

\* The invariant while replica k is the only candidate.
SoleInv(k) ==
    /\ IInv
    /\ EP!OnlyCandidates
    /\ regressed = {}
    /\ CommitsAt(k)

\* A leader has won a campaign, or was told its own ballot: it is k.
LEMMA IndexesAreOnes ==
    ASSUME NEW k \in Nodes, E!Candidates \subseteq {k}, IInv, EP!OnlyCandidates
    PROVE  HandedOutBy(k)
  <1> SUFFICES ASSUME NEW c \in Command, op[c].index # 0
               PROVE  Home[c] = k
    BY DEF HandedOutBy
  <1>1. op[c].ballot \in held /\ IsLeader(op[c].ballot, Home[c]) /\ Home[c] \in Nodes
    BY Places DEF IInv, OpsInOrder, OpInOrder, Led
  <1> QED
    BY <1>1, CandidatesLead

\* So an index of a partition is one command's, whatever the ballot.
LEMMA IndexIsOneCommands ==
    ASSUME IInv, NEW k \in Nodes, HandedOutBy(k), NEW c \in Command, NEW d \in Command,
           op[c].index # 0, op[c].index = op[d].index, PartitionOf[c] = PartitionOf[d]
    PROVE  c = d
  BY DEF HandedOutBy, IInv, IndexOnce

\* What is stored at an index is the command that was given it.
LEMMA StoredAtItsIndex ==
    ASSUME IInv, NEW n \in Nodes, NEW p \in Partitions, NEW i \in DOMAIN log[n][p].entries
    PROVE  LET c == log[n][p].entries[i].cmd
           IN  c \in Command /\ Proposed(c) /\ PartitionOf[c] = p /\ op[c].index = i /\ i # 0
  BY StoredTypes DEF IInv, OneCommandPerBallot

\* An instance may be replaced, and only by one of the same command.
LEMMA StoredStays ==
    ASSUME IInv, IInv', [Next]_vars, NEW k \in Nodes, HandedOutBy(k)',
           NEW n \in Nodes, NEW p \in Partitions, NEW i \in DOMAIN log[n][p].entries
    PROVE  /\ i \in DOMAIN log'[n][p].entries
           /\ log'[n][p].entries[i].cmd = log[n][p].entries[i].cmd
  <1>1. Moves
    BY EveryMove DEF IInv
  <1>2. LogMove(n, p)
    BY <1>1 DEF Moves
  <1>3. i \in DOMAIN log'[n][p].entries
    BY <1>2 DEF LogMove
  <1>4. PICK d \in Command : /\ d = log[n][p].entries[i].cmd /\ Proposed(d)
                            /\ PartitionOf[d] = p /\ op[d].index = i /\ i # 0
    BY StoredAtItsIndex
  <1>5. op'[d].index = i
    BY <1>1, <1>4, OpsKept DEF Moves, OpKept, SameOp, IInv
  <1>6. CASE Marked(n, p, i, log'[n][p].entries[i], log[n][p].entries[i])
    BY <1>3, <1>6 DEF Marked, SameInstance
  <1>7. CASE \E c \in Command : /\ PartitionOf[c] = p /\ op'[c].index = i
                                /\ log'[n][p].entries[i] = Proposal(c)'
    <2>1. PICK c \in Command : /\ PartitionOf[c] = p /\ op'[c].index = i
                              /\ log'[n][p].entries[i] = Proposal(c)'
      BY <1>7
    <2>2. c = d
      BY <1>4, <1>5, <2>1 DEF HandedOutBy, IInv, IndexOnce
    <2>3. log'[n][p].entries[i].cmd = c
      BY <2>1 DEF Proposal
    <2> QED
      BY <1>3, <1>4, <2>2, <2>3
  <1> QED
    BY <1>2, <1>3, <1>6, <1>7 DEF LogMove

-----------------------------------------------------------------------------
(* The invariant.                                                          *)

\* A ballot goes down nowhere else than in BecomeLeader.
LEMMA OnlyLeadersRegress ==
    ASSUME E!TypeOK, [E!Next]_E!electionVars, \A n \in Nodes : ballot'[n] >= ballot[n]
    PROVE  regressed' = regressed
  <1> USE DEF E!history
  <1>1. ASSUME NEW n \in E!Nodes, E!PrepareThreadStep(n) \/ E!CommitThreadStep(n)
        PROVE  regressed' = regressed
    BY <1>1 DEF E!PrepareThreadStep, E!PrepareThreadLoop, E!SkipCampaign, E!StartCampaign,
       E!CampaignWon, E!CampaignLost, E!CommitThreadStep, E!CommitThreadLoop, E!StartBeat,
       E!EndBeat, E!StopBeating
  <1>2. ASSUME NEW n \in E!Nodes, E!BecomeLeader(n)
        PROVE  regressed' = regressed
    <2>1. ballot'[n] = E!WonBallot(n) /\ ballot[n] \in Nat /\ E!WonBallot(n) \in Nat
      BY <1>2 DEF E!BecomeLeader, E!TypeOK, E!WonBallot, E!PrepareThread
    <2>2. ~ (E!WonBallot(n) < ballot[n])
      BY <2>1 DEF Nodes
    <2> QED
      BY <1>2, <2>2 DEF E!BecomeLeader
  <1>3. ASSUME NEW c \in calls, E!Handler(c) \/ E!Callback(c) \/ E!CallFails(c)
        PROVE  regressed' = regressed
    BY <1>3 DEF E!Handler, E!PrepareCompare, E!PreparePromise, E!PrepareReject,
       E!CommitHandler, E!Callback, E!PrepareCallback, E!CommitCallback, E!CallFails
  <1>4. ASSUME NEW n \in E!Nodes, NEW b \in held, E!HearBallot(n, b)
        PROVE  regressed' = regressed
    BY <1>4 DEF E!HearBallot
  <1>5. CASE UNCHANGED E!electionVars
    BY <1>5 DEF E!electionVars
  <1> QED
    BY <1>1, <1>2, <1>3, <1>4, <1>5 DEF E!Next

\* An instance is marked as committed by its own Replicate, which k runs.
LEMMA CommitsAtNext ==
    ASSUME IInv, NEW k \in Nodes, HandedOutBy(k), CommitsAt(k), Moves
    PROVE  CommitsAt(k)'
  <1> SUFFICES ASSUME NEW n \in Nodes \ {k}, NEW p \in Partitions,
                      NEW i \in DOMAIN log'[n][p].entries
               PROVE  log'[n][p].entries[i].state = "INPROGRESS"
    BY DEF CommitsAt
  <1>1. LogMove(n, p)
    BY DEF Moves
  <1>2. CASE /\ i \in DOMAIN log[n][p].entries
             /\ Marked(n, p, i, log'[n][p].entries[i], log[n][p].entries[i])
    <2>1. log[n][p].entries[i].state = "INPROGRESS" /\ i # 0
      BY <1>2, StoredAtItsIndex DEF CommitsAt
    <2>2. ~ Committing(n, p, i)
      BY <2>1 DEF Committing, HandedOutBy
    <2> QED
      BY <1>2, <2>1, <2>2 DEF Marked
  <1>3. CASE \E c \in Command : log'[n][p].entries[i] = Proposal(c)'
    BY <1>3 DEF Proposal
  <1> QED
    BY <1>1, <1>2, <1>3 DEF LogMove

\* The invariant of a sole candidate holds at first, and every step keeps it.
LEMMA SoleInvInit ==
    ASSUME NEW k \in Nodes
    PROVE  Init => SoleInv(k)
  <1> SUFFICES ASSUME Init
               PROVE  SoleInv(k)
    OBVIOUS
  <1>1. IInv
    BY InvInit
  <1>2. EP!OnlyCandidates
    BY ElectionCandidates DEF Init
  <1>3. regressed = {}
    BY DEF Init, E!Init
  <1>4. CommitsAt(k)
    BY DEF Init, CommitsAt, Log!NewLog
  <1> QED
    BY <1>1, <1>2, <1>3, <1>4 DEF SoleInv

\* The step keeps it too: no ballot goes down, so regressed stays empty.
LEMMA SoleInvNext ==
    ASSUME NEW k \in Nodes, E!Candidates \subseteq {k}
    PROVE  SoleInv(k) /\ [Next]_vars => SoleInv(k)'
  <1> SUFFICES ASSUME SoleInv(k), [Next]_vars
               PROVE  SoleInv(k)'
    OBVIOUS
  <1>1. IInv /\ IInv' /\ EP!IInv /\ EP!IInv' /\ EP!OnlyCandidates /\ E!TypeOK
    BY InvNext, ElectionHeld DEF SoleInv, IInv
  <1>2. [E!Next]_E!electionVars /\ [EP!Next]_EP!electionVars
    BY <1>1, StepIsElection, SameElection DEF IInv
  <1>3. /\ k \in EP!Nodes /\ EP!Candidates \subseteq {k} /\ EP!Nodes = Nodes
        /\ EP!ElectionAssumption
    BY SameElection DEF EP!Candidates, E!Candidates, EP!Nodes, E!Nodes, Nodes
  <1>4. EP!OnlyCandidates'
    BY <1>1, <1>2, ElectionCandidates
  <1>5. \A n \in Nodes : ballot'[n] >= ballot[n]
    BY <1>1, <1>2, <1>3, EP!SoleGrows
  <1>6. regressed' = {}
    BY <1>1, <1>2, <1>5, OnlyLeadersRegress DEF SoleInv
  <1>7. CommitsAt(k)'
    BY <1>1, IndexesAreOnes, CommitsAtNext, EveryMove DEF SoleInv, IInv
  <1> QED
    BY <1>1, <1>4, <1>6, <1>7 DEF SoleInv

-----------------------------------------------------------------------------
(* What is committed stays.                                                *)

\* As long as only replica k ever campaigns, who has given an OK stores the command.
LEMMA OksStore ==
    ASSUME IInv, regressed = {}, NEW k \in Nodes, HandedOutBy(k),
           NEW c \in Command, Proposed(c)
    PROVE  \A m \in op[c].oks : m \in Nodes /\ Stored(m, c)
  <1> TAKE m \in op[c].oks
  <1>1. /\ m \in Nodes /\ op[c].index \in DOMAIN LogOf(m, c).entries
        /\ PartitionOf[c] \in Partitions /\ op[c].index # 0
    BY Places DEF IInv, AcksInOrder, Backed, TypeOK, Op, OpsInOrder, OpInOrder, Proposed
  <1>2. PICK d \in Command : /\ d = LogOf(m, c).entries[op[c].index].cmd
                            /\ PartitionOf[d] = PartitionOf[c] /\ op[d].index = op[c].index
    BY <1>1, StoredAtItsIndex DEF LogOf
  <1>3. d = c
    BY <1>1, <1>2, IndexIsOneCommands
  <1> QED
    BY <1>1, <1>2, <1>3 DEF Stored

\* As long as only replica k ever campaigns, no replica's ballot goes down, and a
\* majority stores every command that was answered, itself and for good: no
\* replica is excepted.
THEOREM AnsweredStays ==
    ASSUME NEW k \in Nodes, E!Candidates \subseteq {k}
    PROVE  Spec => []AnsweredIsKept
  <1>1. Init => SoleInv(k)
    BY SoleInvInit
  <1>2. SoleInv(k) /\ [Next]_vars => SoleInv(k)'
    BY SoleInvNext
  <1>3. SoleInv(k) => AnsweredIsKept
    <2> SUFFICES ASSUME SoleInv(k), NEW c \in answered
                 PROVE  2 * Cardinality({m \in Nodes : Stored(m, c)}) > NumPeers
      BY DEF AnsweredIsKept
    <2> DEFINE S == {m \in Nodes : Stored(m, c)}
    <2>1. /\ IInv /\ regressed = {} /\ HandedOutBy(k)
          /\ c \in Command /\ op[c].pc = "ok" /\ Proposed(c)
      BY IndexesAreOnes DEF SoleInv, IInv, TypeOK, CommitsInOrder, OpsInOrder, OpInOrder, Proposed
    <2>2. op[c].oks \subseteq S /\ S \subseteq Nodes
      BY <2>1, OksStore
    <2>3. Cardinality(op[c].oks) > NumPeers \div 2
      BY <2>1 DEF IInv, CommitsInOrder, E!Majority, E!Cardinality, Cardinality
    <2> HIDE DEF S
    <2>4. IsFiniteSet(S) /\ Cardinality(op[c].oks) <= Cardinality(S)
      BY <2>2, Places, FS_Subset
    <2>5. Cardinality(S) \in Nat /\ Cardinality(op[c].oks) \in Nat
      BY <2>2, <2>4, FS_Subset, FS_CardinalityType
    <2> QED
      BY <2>3, <2>4, <2>5, Places DEF S
  <1> QED
    BY <1>1, <1>2, <1>3, PTL DEF Spec

\* As long as only replica k ever campaigns, no committed instance is replaced
\* by another command's ("Insert case2" of common_log.cc), however many of its
\* campaigns its calls outlive.  With two candidates one is.
THEOREM CommittedIsKept ==
    ASSUME NEW k \in Nodes, E!Candidates \subseteq {k}
    PROVE  Spec => CommittedStays
  <1>1. Init => SoleInv(k)
    BY SoleInvInit
  <1>2. SoleInv(k) /\ [Next]_vars => SoleInv(k)'
    BY SoleInvNext
  <1>3. SoleInv(k) => HandedOutBy(k)
    BY IndexesAreOnes DEF SoleInv
  <1>4. SoleInv(k) /\ SoleInv(k)' /\ HandedOutBy(k)' /\ [Next]_vars
            => [\A n \in Nodes : KeepsCommitted(n)]_vars
    BY StoredStays DEF KeepsCommitted, SoleInv
  <1> QED
    BY <1>1, <1>2, <1>3, <1>4, PTL DEF Spec, CommittedStays

-----------------------------------------------------------------------------
(* How far indexes go.                                                     *)

\* The indexes given out to finitely many commands can be counted, and never
\* become fewer.
LEMMA IndexedGrows ==
    ASSUME IsFiniteSet(Command), IInv, [Next]_vars
    PROVE  /\ Indexed \subseteq Indexed' /\ Indexed' \subseteq Command
           /\ IsFiniteSet(Indexed) /\ IsFiniteSet(Indexed')
           /\ Cardinality(Indexed) \in Nat /\ Cardinality(Indexed') \in Nat
           /\ Cardinality(Indexed) <= Cardinality(Indexed')
           /\ Cardinality(Indexed') <= Cardinality(Command)
  <1>1. \A c \in Command : op[c].index # 0 => op'[c].index = op[c].index
    BY EveryMove, OpsKept DEF IInv, Moves, OpKept, SameOp
  <1>2. Indexed \subseteq Indexed' /\ Indexed' \subseteq Command
    BY <1>1 DEF Indexed
  <1> HIDE DEF Indexed
  <1>3. IsFiniteSet(Indexed') /\ Cardinality(Indexed') <= Cardinality(Command)
    BY <1>2, FS_Subset
  <1>4. IsFiniteSet(Indexed) /\ Cardinality(Indexed) <= Cardinality(Indexed')
    BY <1>2, <1>3, FS_Subset
  <1> QED
    BY <1>2, <1>3, <1>4, FS_CardinalityType

\* A last index goes up by giving one out, or to where another one was.
LastMove(n, p) ==
    \/ log'[n][p].lastIndex <= Cardinality(Indexed)
    \/ \E c \in Command : /\ c \notin Indexed /\ c \in Indexed'
                          /\ log'[n][p].lastIndex = log[n][p].lastIndex + 1

\* Every step moves the last indexes in one of these two ways: an append takes
\* an index already given out, and BecomeLeader one the replica had itself.
LEMMA LastMoves ==
    ASSUME IsFiniteSet(Command), IInv, IndexesInRange, [Next]_vars
    PROVE  /\ \A n \in Nodes, p \in Partitions : LastMove(n, p)
           /\ \A n \in Nodes : prepLast'[n] <= Cardinality(Indexed)
  <1> DEFINE N == Cardinality(Indexed)
  <1>1. N \in Nat
    BY IndexedGrows
  <1>2. \A n \in Nodes, p \in Partitions :
           IsLog(log[n][p]) /\ log[n][p].lastIndex \in Nat /\ log[n][p].lastIndex <= N
    BY DEF IndexesInRange, IInv, TypeOK, IsLog
  <1>3. \A n \in Nodes : prepLast[n] \in Nat /\ prepLast[n] <= N
    BY DEF IndexesInRange, IInv, TypeOK
  <1>4. \A c \in Command : op[c].index \in Nat /\ op[c].index <= N
    <2> TAKE c \in Command
    <2>1. op[c].index \in Nat /\ OpInOrder(c)
      BY DEF IInv, TypeOK, Op, OpsInOrder
    <2>2. CASE op[c].index # 0
      BY <1>1, <1>2, <2>1, <2>2, Places DEF OpInOrder, LogOf
    <2> QED
      BY <1>1, <2>1, <2>2
  <1> HIDE DEF N
  <1>5. ASSUME NEW n \in Nodes, NEW p \in Partitions, NEW lg,
               log' = [log EXCEPT ![n][p] = lg],
               \/ lg.lastIndex <= N
               \/ \E c \in Command : /\ c \notin Indexed /\ c \in Indexed'
                                     /\ lg.lastIndex = log[n][p].lastIndex + 1
        PROVE  \A m \in Nodes, q \in Partitions : LastMove(m, q)
    <2>1. \A m \in Nodes, q \in Partitions :
             log'[m][q] = IF m = n /\ q = p THEN lg ELSE log[m][q]
      BY <1>5 DEF IInv, TypeOK
    <2> QED
      BY <1>2, <1>5, <2>1 DEF LastMove, N
  <1>6. ASSUME UNCHANGED log  PROVE \A m \in Nodes, q \in Partitions : LastMove(m, q)
    BY <1>2, <1>6 DEF LastMove, N
  <1>7. ASSUME NEW n \in Nodes, NEW c \in Command, op[c].index # 0,
               log' = [log EXCEPT ![n][PartitionOf[c]] = Log!Append(@, Proposal(c))]
        PROVE  \A m \in Nodes, q \in Partitions : LastMove(m, q)
    <2> DEFINE p == PartitionOf[c]
               lg == Log!Append(log[n][p], Proposal(c))
    <2>1. p \in Partitions /\ Proposal(c) \in Instance /\ Proposal(c).index = op[c].index
      BY <1>7, Places, ProposalType DEF IInv
    <2>2. log' = [log EXCEPT ![n][p] = lg]
      BY <1>7
    <2>3. lg.lastIndex \in {log[n][p].lastIndex, op[c].index}
      BY <1>2, <2>1, AppendReplacesOne
    <2> HIDE DEF lg, p
    <2>4. lg.lastIndex <= N
      BY <1>2, <1>4, <2>1, <2>3
    <2> QED
      BY <1>5, <2>1, <2>2, <2>4
  <1>8. ASSUME NEW c \in Command, OpStep(c)
        PROVE  /\ \A m \in Nodes, q \in Partitions : LastMove(m, q)
               /\ UNCHANGED prepLast
    <2> DEFINE n == Home[c]  p == PartitionOf[c]
    <2>1. n \in Nodes /\ p \in Partitions /\ OpInOrder(c) /\ op \in [Command -> Op]
      BY Places DEF IInv, OpsInOrder, TypeOK
    <2>2. CASE AdvanceLastIndex(c)
      <3> DEFINE lg == Log!AdvanceLastIndex(log[n][p])
      <3>1. log' = [log EXCEPT ![n][p] = lg]
        BY <2>2 DEF AdvanceLastIndex
      <3>2. lg.lastIndex = log[n][p].lastIndex + 1
        BY <1>2, <2>1, AdvanceLastIndexKeeps
      <3> HIDE DEF lg
      <3>3. c \notin Indexed
        BY <2>1, <2>2 DEF AdvanceLastIndex, OpInOrder, Indexed
      <3>4. op'[c].index = log[n][p].lastIndex + 1
        BY <2>1, <2>2 DEF AdvanceLastIndex, LogOf, Op
      <3>5. op'[c].index # 0
        BY <1>2, <2>1, <3>4
      <3>6. c \in Indexed'
        BY <3>5 DEF Indexed
      <3> HIDE DEF n, p
      <3> QED
        BY <1>5, <2>1, <2>2, <3>1, <3>2, <3>3, <3>6 DEF AdvanceLastIndex
    <2>3. CASE ProposeToAll(c)
      <3>1. op[c].index # 0
        BY <2>1, <2>3 DEF ProposeToAll, OpInOrder
      <3> QED
        BY <1>7, <2>1, <2>3, <3>1 DEF ProposeToAll
    <2>4. CASE CommitByMajority(c)
      <3> DEFINE lg == Log!Commit(log[n][p], op[c].index)
      <3>1. log' = [log EXCEPT ![n][p] = lg] /\ op[c].index \in DOMAIN log[n][p].entries
        BY <2>4 DEF CommitByMajority, Log!IsCommittable, LogOf
      <3>2. lg.lastIndex = log[n][p].lastIndex
        BY <1>2, <2>1, <3>1, CommitMarks
      <3> HIDE DEF lg
      <3>3. lg.lastIndex <= N
        BY <1>2, <2>1, <3>2
      <3> HIDE DEF n, p
      <3> QED
        BY <1>5, <2>1, <2>4, <3>1, <3>3 DEF CommitByMajority
    <2>5. CASE Replicate(c) \/ CheckBallot(c) \/ GiveUp(c)
      BY <1>6, <2>5 DEF Replicate, CheckBallot, GiveUp
    <2> QED
      BY <1>8, <2>2, <2>3, <2>4, <2>5 DEF OpStep
  <1>9. ASSUME NEW a \in accepts, AcceptStep(a) \/ AcceptFails(a)
        PROVE  /\ \A m \in Nodes, q \in Partitions : LastMove(m, q)
               /\ UNCHANGED prepLast
    <2>1. CASE AcceptAppend(a)
      <3>1. a.to \in Nodes /\ a.cmd \in Command /\ op[a.cmd].index # 0
        BY DEF IInv, TypeOK, AcceptCall, AcceptsInOrder, Proposed, OpsInOrder, OpInOrder
      <3> QED
        BY <1>7, <2>1, <3>1 DEF AcceptAppend
    <2>2. CASE ~ AcceptAppend(a)
      BY <1>6, <1>9, <2>2 DEF AcceptStep, AcceptCompare, AcceptFollow, AcceptAnswer,
         AcceptCallback, AcceptFails
    <2> QED
      BY <2>1, <2>2
  <1>10. ASSUME NEW n \in Nodes, BecomeLeader(n)
         PROVE  /\ \A m \in Nodes, q \in Partitions : LastMove(m, q)
                /\ UNCHANGED prepLast
    <2> DEFINE lg == Log!SetLastIndex(log[n][0], prepLast[n])
    <2>1. log' = [log EXCEPT ![n][0] = lg] /\ UNCHANGED prepLast /\ 0 \in Partitions
      BY <1>10, Places DEF BecomeLeader
    <2>2. lg.lastIndex \in {log[n][0].lastIndex, prepLast[n]}
      BY <1>2, <1>3, <2>1, SetLastIndexKeeps
    <2> HIDE DEF lg
    <2>3. lg.lastIndex <= N
      BY <1>2, <1>3, <2>1, <2>2
    <2> QED
      BY <1>5, <2>1, <2>3
  <1>11. ASSUME NEW n \in Nodes, StartCampaign(n)
         PROVE  /\ UNCHANGED log
                /\ \A m \in Nodes : prepLast'[m] <= N
    <2>1. 0 \in Partitions
      BY Places
    <2> QED
      BY <1>2, <1>3, <1>11, <2>1 DEF StartCampaign, IInv, TypeOK
  <1>12. ASSUME NEW n \in Nodes, NEW p \in Partitions, Execute(n, p)
         PROVE  /\ \A m \in Nodes, q \in Partitions : LastMove(m, q)
                /\ UNCHANGED prepLast
    <2> DEFINE lg == Log!Execute(log[n][p])
    <2>1. log' = [log EXCEPT ![n][p] = lg] /\ UNCHANGED prepLast /\ Log!IsExecutable(log[n][p])
      BY <1>12 DEF Execute
    <2>2. lg.lastIndex = log[n][p].lastIndex
      BY <1>2, <2>1, ExecuteAdvances
    <2> HIDE DEF lg
    <2>3. lg.lastIndex <= N
      BY <1>2, <2>2
    <2> QED
      BY <1>5, <2>1, <2>3
  <1>13. CASE ElectionStep \/ UNCHANGED vars
    BY <1>3, <1>6, <1>13 DEF ElectionStep, vars, replicationVars, N
  <1> QED
    BY <1>3, <1>6, <1>8, <1>9, <1>10, <1>11, <1>12, <1>13 DEF Next, N

\* Indexes stay within the number of those given out.
LEMMA IndexesInit == Init => IndexesInRange
  <1> SUFFICES ASSUME Init
               PROVE  IndexesInRange
    OBVIOUS
  <1>1. Indexed = {}
    BY DEF Init, Indexed
  <1>2. Cardinality(Indexed) = 0
    BY <1>1, FS_EmptySet
  <1> QED
    BY <1>2 DEF Init, IndexesInRange, Log!NewLog

\* An index given out is one more to count.
LEMMA IndexesNext ==
    ASSUME IsFiniteSet(Command), IInv, IInv', IndexesInRange, [Next]_vars
    PROVE  IndexesInRange'
  <1> DEFINE N == Cardinality(Indexed)
             M == Cardinality(Indexed')
  <1>1. /\ Indexed \subseteq Indexed' /\ IsFiniteSet(Indexed) /\ IsFiniteSet(Indexed')
        /\ N \in Nat /\ M \in Nat /\ N <= M
    BY IndexedGrows
  <1>2. ASSUME NEW c, c \notin Indexed, c \in Indexed'
        PROVE  N + 1 <= M
    <2>1. Cardinality(Indexed \cup {c}) = N + 1
      BY <1>1, <1>2, FS_AddElement
    <2>2. Indexed \cup {c} \subseteq Indexed'
      BY <1>1, <1>2
    <2> HIDE DEF N, M, Indexed
    <2> QED
      BY <1>1, <2>1, <2>2, FS_Subset DEF M
  <1> HIDE DEF Indexed, N, M
  <1>3. ASSUME NEW n \in Nodes, NEW p \in Partitions
        PROVE  log'[n][p].lastIndex <= M
    <2>1. LastMove(n, p)
      BY LastMoves
    <2>2. /\ log[n][p].lastIndex \in Nat /\ log'[n][p].lastIndex \in Nat
          /\ log[n][p].lastIndex <= N
      BY DEF IInv, TypeOK, IsLog, IndexesInRange, N
    <2> QED
      BY <1>1, <1>2, <2>1, <2>2 DEF LastMove, N
  <1>4. ASSUME NEW n \in Nodes
        PROVE  prepLast'[n] <= M
    <2>1. prepLast'[n] <= N /\ prepLast'[n] \in Nat
      BY LastMoves DEF IInv, TypeOK, N
    <2> QED
      BY <1>1, <2>1
  <1> QED
    BY <1>3, <1>4 DEF IndexesInRange, M

-----------------------------------------------------------------------------
(* The refinement: what the steps do to slot, holders, committed and       *)
(* executed.                                                               *)

\* The values that stand for slot and holders of ReplicatedLog.
Slot == [c \in Command |-> IF Proposed(c) THEN op[c].index ELSE 0]

Holders == [c \in Command |-> {n \in Nodes : Stored(n, c)}]

\* What a step of the replicated log may assume of the states around it.
Context(k) ==
    /\ IInv /\ regressed = {} /\ CommitsAt(k)
    /\ HandedOutBy(k)
    /\ IndexesInRange

\* What is stored is in its place, in the next state too.
InPlace ==
    \A n \in Nodes, p \in Partitions : \A i \in DOMAIN log[n][p].entries :
        \E c \in Command : /\ c = log[n][p].entries[i].cmd
                           /\ Proposed(c) /\ PartitionOf[c] = p /\ op[c].index = i /\ i # 0

\* The invariant says so of a state ...
LEMMA StoredInPlace == IInv => InPlace
  BY StoredAtItsIndex DEF InPlace

\* ... and hence of the next one.
LEMMA StoredInPlaceNext == IInv' => InPlace'
  BY StoredInPlace, PTL

\* A Replicate has its index from before it proposes, and for good.
LEMMA SlotStays ==
    ASSUME IInv, [Next]_vars, NEW c \in Command, Proposed(c)' => Proposed(c)
    PROVE  Slot'[c] = Slot[c]
  <1>1. OpKept(c)
    BY EveryMove, OpsKept DEF IInv, Moves
  <1>2. CASE Proposed(c)
    BY <1>1, <1>2 DEF OpKept, SameOp, Slot
  <1>3. CASE ~ Proposed(c)
    BY <1>3 DEF Slot
  <1> QED
    BY <1>2, <1>3

\* Nobody stores a command anew while no index enters a log.
LEMMA HoldersStay ==
    ASSUME NEW k \in Nodes, Context(k), Context(k)', [Next]_vars,
           \A n \in Nodes, p \in Partitions :
               DOMAIN log'[n][p].entries = DOMAIN log[n][p].entries
    PROVE  Holders' = Holders
  <1>1. ASSUME NEW n \in Nodes, NEW c \in Command
        PROVE  Stored(n, c)' <=> Stored(n, c)
    <2>1. IInv /\ IInv' /\ HandedOutBy(k)' /\ PartitionOf[c] \in Partitions
      BY Places DEF Context
    <2>2. \A i \in DOMAIN log[n][PartitionOf[c]].entries :
             log'[n][PartitionOf[c]].entries[i].cmd = log[n][PartitionOf[c]].entries[i].cmd
      BY <2>1, StoredStays
    <2> QED
      BY <2>1, <2>2 DEF Stored, LogOf
  <1> QED
    BY <1>1 DEF Holders

\* Appending a command that is being proposed makes the replica a holder of it,
\* if it is none, and changes no other holder.
LEMMA HoldersAppend ==
    ASSUME NEW k \in Nodes, Context(k), Context(k)', [Next]_vars,
           NEW n \in Nodes, NEW c \in Command, op[c].index # 0,
           log' = [log EXCEPT ![n][PartitionOf[c]] = Log!Append(@, Proposal(c))]
    PROVE  \A m \in Nodes, d \in Command :
               Stored(m, d)' <=> Stored(m, d) \/ (m = n /\ d = c)
  <1> DEFINE p == PartitionOf[c]
             after == Log!Append(log[n][p], Proposal(c))
  <1>1. /\ IInv /\ IInv' /\ HandedOutBy(k)' /\ InPlace' /\ IsLog(log[n][p])
        /\ p \in Partitions /\ \A d \in Command : PartitionOf[d] \in Partitions
    BY Places, StoredInPlaceNext DEF Context, IInv, TypeOK
  <1>2. /\ Proposal(c) \in Instance /\ Proposal(c).index = op[c].index
        /\ op'[c].index = op[c].index
    BY <1>1, ProposalType, EveryMove, OpsKept DEF IInv, Moves, OpKept, SameOp
  <1>3. DOMAIN after.entries = DOMAIN log[n][p].entries \cup {op[c].index}
    BY <1>1, <1>2, AppendReplacesOne
  <1>4. \A m \in Nodes, q \in Partitions :
           log'[m][q] = IF m = n /\ q = p THEN after ELSE log[m][q]
    BY <1>1 DEF IInv, TypeOK
  <1> HIDE DEF after, p
  <1>5. \A d, e \in Command :
           op'[d].index # 0 /\ op'[d].index = op'[e].index /\ PartitionOf[d] = PartitionOf[e]
           => d = e
    <2>1. IndexOnce'
      BY <1>1 DEF IInv
    <2> QED
      BY <1>1, <2>1 DEF HandedOutBy, IndexOnce
  <1>6. ASSUME NEW m \in Nodes, NEW d \in Command, Stored(m, d)
        PROVE  Stored(m, d)'
    BY <1>1, <1>6, StoredStays DEF Stored, LogOf
  <1>7. Stored(n, c)'
    <2>1. log'[n][p] = after /\ op[c].index \in DOMAIN log'[n][p].entries
      BY <1>1, <1>3, <1>4
    <2>2. PICK d \in Command : /\ d = log'[n][p].entries[op[c].index].cmd
                              /\ PartitionOf[d] = p /\ op'[d].index = op[c].index
      BY <1>1, <2>1 DEF InPlace
    <2>3. d = c
      BY <1>2, <1>5, <2>2 DEF p
    <2> QED
      BY <2>1, <2>2, <2>3 DEF Stored, LogOf, p
  <1>8. ASSUME NEW m \in Nodes, NEW d \in Command, Stored(m, d)', ~ Stored(m, d)
        PROVE  m = n /\ d = c
    <2> DEFINE q == PartitionOf[d]
    <2>1. PICK i \in DOMAIN log'[m][q].entries : log'[m][q].entries[i].cmd = d
      BY <1>8 DEF Stored, LogOf
    <2>2. i \notin DOMAIN log[m][q].entries
      BY <1>1, <1>8, <2>1, StoredStays DEF Stored, LogOf
    <2>3. m = n /\ q = p /\ i = op[c].index
      BY <1>1, <1>3, <1>4, <2>1, <2>2
    <2>4. op'[d].index = i
      BY <1>1, <2>1 DEF InPlace
    <2> QED
      BY <1>2, <1>5, <2>3, <2>4 DEF p
  <1> QED
    BY <1>6, <1>7, <1>8

\* A step that gives no slot, commits nothing, stores nothing anew and executes
\* nothing is a stutter.
LEMMA Stutters ==
    ASSUME NEW k \in Nodes, Context(k), Context(k)', [Next]_vars,
           \A c \in Command : /\ Proposed(c)' => Proposed(c)
                              /\ op'[c].pc = "ok" => op[c].pc = "ok",
           \A n \in Nodes, p \in Partitions :
               DOMAIN log'[n][p].entries = DOMAIN log[n][p].entries,
           UNCHANGED applied
    PROVE  UNCHANGED RL!logVars
  <1>1. Slot' = Slot
    BY SlotStays DEF Context, Slot
  <1>2. Holders' = Holders
    BY HoldersStay
  <1>3. \A c \in Command : op'[c].pc = "ok" <=> op[c].pc = "ok"
    BY EveryMove, OpsKept DEF Context, IInv, Moves, OpKept
  <1> QED
    BY <1>1, <1>2, <1>3 DEF RL!logVars, Slot, Holders

\* A Replicate that appends its command at its own replica proposes it: the
\* index is nobody else's, and nobody stores the command yet.
LEMMA ProposeIsPropose ==
    ASSUME NEW k \in Nodes, IsFiniteSet(Command), Context(k), Context(k)', [Next]_vars,
           NEW c \in Command, ProposeToAll(c)
    PROVE  RL!Propose(c, op[c].index, Home[c]) /\ op[c].index \in 1 .. Cardinality(Command)
  <1>1. /\ op \in [Command -> Op] /\ op[c] \in Op /\ op[c].pc = "checked" /\ OpInOrder(c)
        /\ IInv /\ Home[c] \in Nodes /\ HandedOutBy(k) /\ InPlace
        /\ \A d \in Command : OpInOrder(d)
    BY Places, StoredInPlace DEF ProposeToAll, Context, IInv, TypeOK, OpsInOrder
  <1>2. /\ op[c].index \in Nat /\ op[c].index # 0 /\ ~ Proposed(c)
        /\ op'[c].index = op[c].index /\ Proposed(c)'
        /\ \A d \in Command \ {c} : op'[d] = op[d]
    BY <1>1 DEF ProposeToAll, OpInOrder, Proposed, Op
  <1>3. op[c].index \in 1 .. Cardinality(Command)
    <2>1. op[c].index <= Cardinality(Indexed)
      <3>1. op[c].index <= LogOf(Home[c], c).lastIndex
        BY <1>1, <1>2 DEF OpInOrder
      <3>2. /\ LogOf(Home[c], c).lastIndex <= Cardinality(Indexed)
            /\ LogOf(Home[c], c).lastIndex \in Nat
        BY <1>1, Places DEF LogOf, Context, IndexesInRange, IInv, TypeOK, IsLog
      <3> QED
        BY <1>1, <1>2, <3>1, <3>2, IndexedGrows
    <2>2. /\ Cardinality(Indexed) \in Nat /\ Cardinality(Command) \in Nat
          /\ Cardinality(Indexed) <= Cardinality(Command)
      BY FS_Subset, FS_CardinalityType DEF Indexed
    <2> QED
      BY <1>2, <2>1, <2>2
  <1>4. \A d \in Command : Slot[d] = op[c].index => PartitionOf[d] # PartitionOf[c]
    <2> SUFFICES ASSUME NEW d \in Command, Slot[d] = op[c].index, PartitionOf[d] = PartitionOf[c]
                 PROVE  FALSE
      OBVIOUS
    <2>1. Proposed(d) /\ op[d].index = op[c].index
      BY <1>2 DEF Slot
    <2>2. d = c
      BY <1>1, <1>2, <2>1, IndexIsOneCommands
    <2> QED
      BY <1>2, <2>1, <2>2
  <1>5. Slot[c] = 0 /\ Slot' = [Slot EXCEPT ![c] = op[c].index]
    <2>1. Slot[c] = 0 /\ Slot'[c] = op[c].index
      BY <1>2 DEF Slot
    <2>2. \A d \in Command \ {c} : Slot'[d] = Slot[d]
      BY <1>2 DEF Slot, Proposed
    <2> QED
      BY <2>1, <2>2 DEF Slot
  <1>6. Holders' = [Holders EXCEPT ![c] = {Home[c]}]
    <2>1. \A m \in Nodes : ~ Stored(m, c)
      BY <1>1, <1>2, Places DEF Stored, LogOf, InPlace
    <2>2. \A m \in Nodes, d \in Command :
               Stored(m, d)' <=> Stored(m, d) \/ (m = Home[c] /\ d = c)
      BY <1>1, <1>2, HoldersAppend DEF ProposeToAll
    <2>3. \A m \in Nodes : Stored(m, c)' <=> m = Home[c]
      BY <2>1, <2>2
    <2>4. Holders'[c] = {Home[c]}
      BY <1>1, <2>3 DEF Holders
    <2>5. \A d \in Command \ {c} : Holders'[d] = Holders[d]
      BY <2>2 DEF Holders
    <2> QED
      BY <2>4, <2>5 DEF Holders
  <1>7. {d \in Command : op'[d].pc = "ok"} = {d \in Command : op[d].pc = "ok"}
    <2>1. op'[c].pc = "wait"
      BY <1>1 DEF ProposeToAll, Op
    <2> QED
      BY <1>1, <1>2, <2>1
  <1>8. applied' = applied
    BY DEF ProposeToAll
  <1> QED
    BY <1>3, <1>4, <1>5, <1>6, <1>7, <1>8 DEF RL!Propose, RL!Used, Slot, Holders

\* The Accept handler's Append stores the command.
LEMMA AppendIsStore ==
    ASSUME NEW k \in Nodes, Context(k), Context(k)', [Next]_vars,
           NEW a \in accepts, AcceptAppend(a)
    PROVE  RL!Store(a.cmd, a.to)
  <1>1. /\ a.cmd \in Command /\ a.to \in Nodes /\ Proposed(a.cmd) /\ IInv
        /\ op[a.cmd].index \in Nat /\ op[a.cmd].index # 0
    BY DEF Context, IInv, TypeOK, AcceptCall, AcceptsInOrder, Op, OpsInOrder, OpInOrder, Proposed
  <1>2. UNCHANGED <<op, applied>>
    BY DEF AcceptAppend
  <1>3. Slot[a.cmd] > 0
    BY <1>1 DEF Slot
  <1>4. Slot' = Slot
    BY <1>2 DEF Slot, Proposed
  <1>5. Holders' = [Holders EXCEPT ![a.cmd] = @ \cup {a.to}]
    <2> DEFINE c == a.cmd  n == a.to
    <2>1. \A m \in Nodes, d \in Command :
               Stored(m, d)' <=> Stored(m, d) \/ (m = n /\ d = c)
      BY <1>1, HoldersAppend DEF AcceptAppend
    <2> HIDE DEF c, n
    <2>2. Holders'[c] = Holders[c] \cup {n}
      BY <1>1, <2>1 DEF Holders, c, n
    <2>3. \A d \in Command \ {c} : Holders'[d] = Holders[d]
      BY <2>1 DEF Holders
    <2>4. Holders' = [Holders EXCEPT ![c] = @ \cup {n}]
      BY <1>1, <2>2, <2>3 DEF Holders
    <2> QED
      BY <2>4 DEF c, n
  <1> QED
    BY <1>2, <1>3, <1>4, <1>5 DEF RL!Store, Slot, Holders

\* A majority's OKs are a majority of holders, as no ballot ever goes down.
LEMMA CommitIsCommit ==
    ASSUME NEW k \in Nodes, Context(k), Context(k)', [Next]_vars,
           NEW c \in Command, CommitByMajority(c)
    PROVE  RL!Commit(c)
  <1>1. /\ IInv /\ op \in [Command -> Op] /\ op[c] \in Op /\ op[c].pc = "wait" /\ OpInOrder(c)
        /\ E!Majority(op[c].oks) /\ Home[c] \in Nodes /\ PartitionOf[c] \in Partitions
        /\ HandedOutBy(k) /\ InPlace
    BY Places, StoredInPlace DEF CommitByMajority, Context, IInv, TypeOK, OpsInOrder
  <1>2. Proposed(c) /\ op[c].index \in Nat /\ op[c].index # 0
    BY <1>1 DEF OpInOrder, Proposed, Op
  <1>3. \A m \in op[c].oks : m \in Nodes /\ Stored(m, c)
    BY <1>1, <1>2, OksStore DEF Context
  <1>4. 2 * Cardinality(Holders[c]) > Cardinality(Nodes)
    <2>1. op[c].oks \subseteq Holders[c] /\ Holders[c] \subseteq Nodes
      BY <1>3 DEF Holders
    <2>2. Cardinality(op[c].oks) > NumPeers \div 2
      BY <1>1 DEF E!Majority, E!Cardinality, Cardinality
    <2>3. Cardinality(Nodes) = NumPeers /\ NumPeers \in Nat
      BY ReplicationAssumption, FS_Interval DEF Nodes, E!Nodes, E!ElectionAssumption
    <2> HIDE DEF Holders
    <2>4. IsFiniteSet(Holders[c]) /\ Cardinality(op[c].oks) <= Cardinality(Holders[c])
      BY <2>1, Places, FS_Subset
    <2>5. Cardinality(Holders[c]) \in Nat /\ Cardinality(op[c].oks) \in Nat
      BY <2>1, <2>4, FS_Subset, FS_CardinalityType
    <2> QED
      BY <2>2, <2>3, <2>4, <2>5
  <1>5. /\ op'[c].pc = "ok" /\ op'[c].index = op[c].index /\ op'[c].done = op[c].done
        /\ \A d \in Command \ {c} : op'[d] = op[d]
    BY <1>1 DEF CommitByMajority, Op
  <1>6. Slot' = Slot
    <2>1. \A d \in Command : Slot'[d] = Slot[d]
      BY <1>1, <1>2, <1>5 DEF Slot, Proposed
    <2> QED
      BY <2>1 DEF Slot
  <1>7. Holders' = Holders
    <2> DEFINE n == Home[c]  p == PartitionOf[c]
               lg == Log!Commit(log[n][p], op[c].index)
    <2>1. log' = [log EXCEPT ![n][p] = lg] /\ op[c].index \in DOMAIN log[n][p].entries
      BY DEF CommitByMajority, Log!IsCommittable, LogOf
    <2>2. DOMAIN lg.entries = DOMAIN log[n][p].entries
      BY <1>1, <2>1, CommitMarks DEF IInv, TypeOK
    <2> HIDE DEF lg, n, p
    <2>3. \A m \in Nodes, q \in Partitions :
             DOMAIN log'[m][q].entries = DOMAIN log[m][q].entries
      BY <1>1, <2>1, <2>2 DEF IInv, TypeOK
    <2> QED
      BY <2>3, HoldersStay
  <1>8. {d \in Command : op'[d].pc = "ok"} = {d \in Command : op[d].pc = "ok"} \cup {c}
    BY <1>5
  <1>9. applied' = applied
    BY DEF CommitByMajority
  <1>10. Slot[c] > 0
    BY <1>2 DEF Slot
  <1> QED
    BY <1>4, <1>6, <1>7, <1>8, <1>9, <1>10
    DEF RL!Commit, RL!Cardinality, Cardinality, Slot, Holders

\* What an executor executes is committed, since only k commits, and next.
LEMMA ExecuteIsExecute ==
    ASSUME NEW k \in Nodes, Context(k), Context(k)', [Next]_vars,
           NEW n \in Nodes, NEW p \in Partitions, Execute(n, p)
    PROVE  \E c \in Command : RL!Execute(n, c)
  <1>1. IInv /\ HandedOutBy(k) /\ TypeOK /\ OneCommandPerBallot /\ CommitsAt(k)
    BY DEF Context, IInv
  <1> DEFINE i == log[n][p].lastExecuted + 1
  <1>2. PICK c \in Command :
           /\ i \in DOMAIN log[n][p].entries
           /\ log[n][p].entries[i].cmd = c /\ log[n][p].entries[i].state = "COMMITTED"
           /\ Proposed(c) /\ op[c].index = i /\ PartitionOf[c] = p
           /\ applied' = [applied EXCEPT ![n][p] = Append(@, c)] /\ UNCHANGED op
    BY <1>1, Executed
  <1>3. i = Len(applied[n][p]) + 1 /\ i \in Nat /\ i # 0
    BY <1>1 DEF IInv, AppliedAtItsIndex, TypeOK, IsLog
  <1> HIDE DEF i
  <1>4. op[c].pc = "ok"
    <2>1. n = k
      BY <1>1, <1>2 DEF CommitsAt
    <2>2. Home[c] = n
      BY <1>1, <1>2, <1>3, <2>1 DEF HandedOutBy
    <2> QED
      BY <1>1, <1>2, <2>2 DEF IInv, CommitsInOrder
  <1>5. n \in Holders[c]
    BY <1>2 DEF Holders, Stored, LogOf
  <1>6. Slot[c] = Len(applied[n][PartitionOf[c]]) + 1
    BY <1>2, <1>3 DEF Slot
  <1>7. Slot' = Slot
    BY <1>2 DEF Slot, Proposed
  <1>8. Holders' = Holders
    <2> DEFINE lg == Log!Execute(log[n][p])
    <2>1. log' = [log EXCEPT ![n][p] = lg] /\ Log!IsExecutable(log[n][p])
      BY DEF Execute
    <2>2. DOMAIN lg.entries = DOMAIN log[n][p].entries
      BY <1>1, <2>1, ExecuteAdvances DEF TypeOK
    <2> HIDE DEF lg
    <2>3. \A m \in Nodes, q \in Partitions :
             DOMAIN log'[m][q].entries = DOMAIN log[m][q].entries
      BY <1>1, <2>1, <2>2 DEF TypeOK
    <2> QED
      BY <2>3, HoldersStay
  <1>9. {d \in Command : op'[d].pc = "ok"} = {d \in Command : op[d].pc = "ok"}
    BY <1>2
  <1>10. applied' = [applied EXCEPT ![n][PartitionOf[c]] = Append(@, c)]
    BY <1>2
  <1> QED
    BY <1>4, <1>5, <1>6, <1>7, <1>8, <1>9, <1>10 DEF RL!Execute, Slot, Holders

\* Every other step is a stutter.
LEMMA StepIsReplicatedLog ==
    ASSUME NEW k \in Nodes, IsFiniteSet(Command), Context(k), Context(k)', [Next]_vars
    PROVE  [RL!Next]_RL!logVars
  <1>1. ASSUME UNCHANGED <<op, applied>>,
               \A n \in Nodes, p \in Partitions :
                   DOMAIN log'[n][p].entries = DOMAIN log[n][p].entries
        PROVE  UNCHANGED RL!logVars
    BY <1>1, Stutters DEF Proposed
  <1>2. CASE ElectionStep \/ UNCHANGED vars
    <2>1. UNCHANGED <<op, log, applied>>
      BY <1>2 DEF ElectionStep, vars, replicationVars
    <2> QED
      BY <1>1, <2>1
  <1>3. ASSUME NEW n \in Nodes, StartCampaign(n)
        PROVE  UNCHANGED RL!logVars
    BY <1>1, <1>3 DEF StartCampaign
  <1>4. ASSUME NEW n \in Nodes, BecomeLeader(n)
        PROVE  UNCHANGED RL!logVars
    <2> DEFINE lg == Log!SetLastIndex(log[n][0], prepLast[n])
    <2>1. /\ log' = [log EXCEPT ![n][0] = lg] /\ UNCHANGED <<op, applied>>
      BY <1>4 DEF BecomeLeader
    <2>2. lg.entries = log[n][0].entries /\ TypeOK /\ 0 \in Partitions
      BY Places, SetLastIndexKeeps DEF Context, IInv, TypeOK
    <2> HIDE DEF lg
    <2>3. \A m \in Nodes, q \in Partitions :
             DOMAIN log'[m][q].entries = DOMAIN log[m][q].entries
      BY <2>1, <2>2 DEF TypeOK
    <2> QED
      BY <1>1, <2>1, <2>3
  <1>5. ASSUME NEW c \in Command, OpStep(c)
        PROVE  [RL!Next]_RL!logVars
    <2>1. /\ op \in [Command -> Op] /\ op[c] \in Op /\ TypeOK /\ OpInOrder(c)
          /\ Home[c] \in Nodes /\ PartitionOf[c] \in Partitions
      BY Places DEF Context, IInv, TypeOK, OpsInOrder
    <2>2. ASSUME \A d \in Command \ {c} : op'[d] = op[d],
                 op'[c].done = op[c].done, op'[c].pc # "ok",
                 op[c].pc = "wait" \/ op[c].done = {},
                 \A n \in Nodes, p \in Partitions :
                     DOMAIN log'[n][p].entries = DOMAIN log[n][p].entries,
                 UNCHANGED applied
          PROVE  UNCHANGED RL!logVars
      <3>1. \A d \in Command : /\ Proposed(d)' => Proposed(d)
                               /\ op'[d].pc = "ok" => op[d].pc = "ok"
        BY <2>2 DEF Proposed
      <3> QED
        BY <2>2, <3>1, Stutters
    <2>3. CASE Replicate(c) \/ CheckBallot(c) \/ GiveUp(c)
      <3>1. UNCHANGED <<log, applied>>
        BY <2>3 DEF Replicate, CheckBallot, GiveUp
      <3>2. /\ \A d \in Command \ {c} : op'[d] = op[d]
            /\ op'[c].done = op[c].done /\ op'[c].pc # "ok"
            /\ op[c].pc = "wait" \/ op[c].done = {}
        <4>1. CASE Replicate(c)
          BY <2>1, <4>1 DEF Replicate, Op, OpInOrder
        <4>2. CASE CheckBallot(c)
          BY <2>1, <4>2 DEF CheckBallot, Op, OpInOrder
        <4>3. CASE GiveUp(c)
          BY <2>1, <4>3 DEF GiveUp, Op
        <4> QED
          BY <2>3, <4>1, <4>2, <4>3
      <3> QED
        BY <2>2, <3>1, <3>2
    <2>4. CASE AdvanceLastIndex(c)
      <3> DEFINE n == Home[c]  p == PartitionOf[c]
                 lg == Log!AdvanceLastIndex(log[n][p])
      <3>1. log' = [log EXCEPT ![n][p] = lg] /\ UNCHANGED applied
        BY <2>4 DEF AdvanceLastIndex
      <3>2. lg.entries = log[n][p].entries
        BY <2>1, AdvanceLastIndexKeeps DEF TypeOK
      <3> HIDE DEF lg, n, p
      <3>3. \A m \in Nodes, q \in Partitions :
               DOMAIN log'[m][q].entries = DOMAIN log[m][q].entries
        BY <2>1, <3>1, <3>2 DEF TypeOK
      <3>4. /\ \A d \in Command \ {c} : op'[d] = op[d]
            /\ op'[c].done = op[c].done /\ op'[c].pc # "ok" /\ op[c].done = {}
        BY <2>1, <2>4 DEF AdvanceLastIndex, Op, OpInOrder
      <3> QED
        BY <2>2, <3>1, <3>3, <3>4
    <2>5. CASE ProposeToAll(c)
      <3>1. RL!Propose(c, op[c].index, Home[c]) /\ op[c].index \in 1 .. Cardinality(Command)
        BY <2>5, ProposeIsPropose
      <3>2. op[c].index \in 1 .. RL!Cardinality(Command)
        BY <3>1 DEF RL!Cardinality, Cardinality
      <3> QED
        BY <2>1, <3>1, <3>2 DEF RL!Next
    <2>6. CASE CommitByMajority(c)
      BY <2>6, CommitIsCommit DEF RL!Next
    <2> QED
      BY <1>5, <2>3, <2>4, <2>5, <2>6 DEF OpStep
  <1>6. ASSUME NEW a \in accepts, AcceptStep(a) \/ AcceptFails(a)
        PROVE  [RL!Next]_RL!logVars
    <2>1. CASE AcceptAppend(a)
      <3>1. RL!Store(a.cmd, a.to)
        BY <2>1, AppendIsStore
      <3>2. a.cmd \in Command /\ a.to \in Nodes
        BY DEF Context, IInv, TypeOK, AcceptCall
      <3> QED
        BY <3>1, <3>2 DEF RL!Next
    <2>2. CASE ~ AcceptAppend(a)
      <3>1. UNCHANGED <<log, applied>>
        BY <1>6, <2>2 DEF AcceptStep, AcceptCompare, AcceptFollow, AcceptAnswer,
           AcceptCallback, AcceptFails
      <3>2. UNCHANGED op \/ \E oks \in SUBSET {a.to} : op' = Counted(a, oks)
        BY <1>6, <2>2 DEF AcceptStep, AcceptCompare, AcceptFollow, AcceptAnswer,
           AcceptCallback, AcceptFails
      <3>3. \A c \in Command : /\ Proposed(c)' => Proposed(c)
                               /\ op'[c].pc = "ok" => op[c].pc = "ok"
        <4>1. op \in [Command -> Op] /\ a.cmd \in Command /\ Proposed(a.cmd)
          BY DEF Context, IInv, TypeOK, AcceptCall, AcceptsInOrder
        <4>2. \A c \in Command : op'[c].pc = op[c].pc /\ (c # a.cmd => op'[c] = op[c])
          <5> DEFINE d == a.cmd
          <5>1. ASSUME NEW oks, op' = [op EXCEPT ![d].done = @ \cup {a.to}, ![d].oks = @ \cup oks]
                PROVE  \A c \in Command : op'[c].pc = op[c].pc /\ (c # d => op'[c] = op[c])
            <6> HIDE DEF d
            <6> QED
              BY <4>1, <5>1 DEF Op, d
          <5> QED
            BY <3>2, <5>1 DEF Counted
        <4> QED
          BY <4>1, <4>2 DEF Proposed
      <3> QED
        BY <3>1, <3>3, Stutters
    <2> QED
      BY <2>1, <2>2
  <1>7. ASSUME NEW n \in Nodes, NEW p \in Partitions, Execute(n, p)
        PROVE  RL!Next
    <2>1. PICK c \in Command : RL!Execute(n, c)
      BY <1>7, ExecuteIsExecute
    <2> QED
      BY <2>1 DEF RL!Next
  <1> QED
    BY <1>2, <1>3, <1>4, <1>5, <1>6, <1>7 DEF Next

\* While only replica k campaigns, replication is a replicated log: an index is
\* proposed once, a command committed only when a majority of the replicas
\* stores it, none of which ever loses it, and every store applies committed
\* commands in the order of their indexes, none left out.
THEOREM IsReplicatedLog ==
    ASSUME NEW k \in Nodes, E!Candidates \subseteq {k}, IsFiniteSet(Command)
    PROVE  Spec => ImplementsReplicatedLog
  <1> DEFINE Inv == SoleInv(k) /\ IndexesInRange
  <1>1. Init => Inv
    BY SoleInvInit, IndexesInit
  <1>2. Inv /\ [Next]_vars => Inv'
    <2> SUFFICES ASSUME Inv, [Next]_vars
                 PROVE  Inv'
      OBVIOUS
    <2>1. SoleInv(k)'
      BY SoleInvNext
    <2>2. IInv /\ IInv'
      BY <2>1 DEF SoleInv
    <2> QED
      BY <2>1, <2>2, IndexesNext
  <1>3. Inv => Context(k)
    BY IndexesAreOnes DEF SoleInv, Context
  <1>4. Init => RL!Init
    <2> SUFFICES ASSUME Init
                 PROVE  RL!Init
      OBVIOUS
    <2>1. \A c \in Command : ~ Proposed(c) /\ op[c].pc # "ok"
      BY DEF Init, Proposed
    <2>2. \A c \in Command, n \in Nodes : ~ Stored(n, c)
      BY Places DEF Init, Stored, LogOf, Log!NewLog
    <2>3. applied = [n \in Nodes |-> [p \in Partitions |-> <<>>]]
      BY DEF Init
    <2> QED
      BY <2>1, <2>2, <2>3 DEF RL!Init
  <1>5. Context(k) /\ Context(k)' /\ [Next]_vars => [RL!Next]_RL!logVars
    BY StepIsReplicatedLog
  <1> HIDE DEF Inv
  <1> QED
    BY <1>1, <1>2, <1>3, <1>4, <1>5, PTL DEF Spec, ImplementsReplicatedLog, RL!Spec

=============================================================================
