--------------------------- MODULE RestartProofs ---------------------------
(***************************************************************************)
(* Replication with restarts that lose the memory, as long as it is not a  *)
(* candidate that restarts: the invariant of replication survives, and     *)
(* with it what the other replicas have.                                   *)
(***************************************************************************)
EXTENDS ReplicatedLogProofs, MultiPaxosRestart

\* Replicas that never campaign restart, candidates do not.  (With a candidate
\* that restarts, TLC finds a ballot and an index that stand for two commands.)
OnlyFollowersRestart == \A n \in E!Candidates : MaxRestarts[n] = 0

-----------------------------------------------------------------------------
(* The invariant.                                                          *)

\* What holds of replication without restarts goes on to hold, and the ballot a
\* restart goes back to is one that some replica has had.
RestartInv ==
    /\ IInv
    /\ EP!OnlyCandidates
    /\ kMaxNumPeers \in held
    /\ restarts \in [Nodes -> Nat]

\* A replica that restarts has never led: it has issued no ballot, made no
\* Prepare call and given out no index.
Follower(n) ==
    /\ \A b \in held : ~ IsLeader(b, n)
    /\ \A c \in calls : c.rpc = "prepare" => c.from # n
    /\ prep[n].pc \notin {"wait", "won"}
    /\ \A c \in Command : Home[c] = n =>
          /\ op[c].pc \in {"idle", "failed"} /\ op[c].index = 0
          /\ op[c].oks = {} /\ op[c].done = {}

\* Only such replicas restart.
LEMMA RestartsAtFollowers ==
    ASSUME OnlyFollowersRestart, RestartInv, NEW n \in Nodes, Restart(n)
    PROVE  Follower(n)
  <1>1. n \notin E!Candidates
    <2>1. restarts[n] < MaxRestarts[n] /\ restarts[n] \in Nat
      BY DEF Restart, RestartInv
    <2> QED
      BY <2>1 DEF OnlyFollowersRestart
  <1>2. \A b \in held : ~ IsLeader(b, n)
    BY <1>1, CandidatesLead DEF RestartInv
  <1>3. /\ \A c \in calls : c.rpc = "prepare" => c.from # n
        /\ prep[n].pc \notin {"wait", "won"}
    BY <1>1 DEF RestartInv, EP!OnlyCandidates, EP!Candidates, E!Candidates, EP!Nodes, E!Nodes, Nodes
  <1>4. ASSUME NEW c \in Command, Home[c] = n
        PROVE  /\ op[c].pc \in {"idle", "failed"} /\ op[c].index = 0
               /\ op[c].oks = {} /\ op[c].done = {}
    <2>1. OpInOrder(c) /\ op[c] \in Op
      BY DEF RestartInv, IInv, OpsInOrder, TypeOK
    <2>2. ~ Led(c)
      BY <1>2, <1>4 DEF Led
    <2> QED
      BY <2>1, <2>2 DEF OpInOrder, Op
  <1> QED
    BY <1>2, <1>3, <1>4 DEF Follower

-----------------------------------------------------------------------------
(* What a restart leaves of the calls and of the Replicates.               *)

\* A call is forgotten by its caller, or dies, and is otherwise what it was.
LEMMA RestartedCalls ==
    ASSUME NEW n \in Nodes, Restart(n), calls \subseteq E!Call
    PROVE  /\ calls' \subseteq E!Call
           /\ \A d \in calls' : \E c \in calls :
                 /\ d.rpc = c.rpc /\ d.from = c.from /\ d.to = c.to /\ d.phase = c.phase
                 /\ d.ballot = c.ballot /\ d.stage = c.stage /\ d.reply = c.reply
  <1>1. ASSUME NEW c \in E!Call
        PROVE  LET d == [c EXCEPT !.awaited = FALSE] IN
               /\ d \in E!Call
               /\ d.rpc = c.rpc /\ d.from = c.from /\ d.to = c.to /\ d.phase = c.phase
               /\ d.ballot = c.ballot /\ d.stage = c.stage /\ d.reply = c.reply
    BY DEF E!Call
  <1>2. \A d \in calls' : d \in calls \/ \E c \in calls : d = [c EXCEPT !.awaited = FALSE]
    BY DEF Restart, Forgotten
  <1>3. ASSUME NEW d \in calls'
        PROVE  /\ d \in E!Call
               /\ \E c \in calls :
                     /\ d.rpc = c.rpc /\ d.from = c.from /\ d.to = c.to /\ d.phase = c.phase
                     /\ d.ballot = c.ballot /\ d.stage = c.stage /\ d.reply = c.reply
    <2>1. CASE d \in calls
      BY <2>1
    <2>2. CASE \E c \in calls : d = [c EXCEPT !.awaited = FALSE]
      BY <1>1, <2>2
    <2> QED
      BY <1>2, <2>1, <2>2
  <1> QED
    BY <1>3

\* The same of an Accept call; what dies at n had not been answered.
LEMMA RestartedAccepts ==
    ASSUME NEW n \in Nodes, Restart(n), accepts \subseteq AcceptCall
    PROVE  /\ accepts' \subseteq AcceptCall
           /\ \A b \in accepts' : \E a \in accepts :
                 /\ b.cmd = a.cmd /\ b.to = a.to /\ b.stage = a.stage /\ b.reply = a.reply
                 /\ a.to = n => a.stage \in {"sent", "ok", "reject"}
  <1>1. ASSUME NEW a \in AcceptCall
        PROVE  LET b == [a EXCEPT !.awaited = FALSE] IN
               /\ b \in AcceptCall
               /\ b.cmd = a.cmd /\ b.to = a.to /\ b.stage = a.stage /\ b.reply = a.reply
    BY DEF AcceptCall
  <1> DEFINE S == accepts \ (DyingAccepts(n) \cup DroppedAccepts(n))
  <1>2. \A b \in accepts' : b \in S \/ \E a \in S : b = [a EXCEPT !.awaited = FALSE]
    BY DEF Restart, ForgottenAccepts
  <1>3. \A a \in S : a \in accepts /\ (a.to = n => a.stage \in {"sent", "ok", "reject"})
    BY DEF DyingAccepts, AcceptCall
  <1> HIDE DEF S
  <1>4. ASSUME NEW b \in accepts'
        PROVE  /\ b \in AcceptCall
               /\ \E a \in accepts :
                     /\ b.cmd = a.cmd /\ b.to = a.to /\ b.stage = a.stage /\ b.reply = a.reply
                     /\ a.to = n => a.stage \in {"sent", "ok", "reject"}
    <2>1. CASE b \in S
      BY <1>3, <2>1
    <2>2. CASE \E a \in S : b = [a EXCEPT !.awaited = FALSE]
      BY <1>1, <1>3, <2>2
    <2> QED
      BY <1>2, <2>1, <2>2
  <1> QED
    BY <1>4

\* A Replicate elsewhere counts the calls that died, and no more.
LEMMA RestartedOps ==
    ASSUME TypeOK, NEW n \in Nodes, Restart(n), Follower(n)
    PROVE  /\ op' \in [Command -> Op]
           /\ \A c \in Command :
                 /\ SameOp(c) /\ op'[c].oks = op[c].oks /\ op[c].done \subseteq op'[c].done
                 /\ op'[c].pc = op[c].pc
                 /\ op[c].pc # "wait" => op'[c] = op[c]
  <1>1. op \in [Command -> Op] /\ op' = [c \in Command |-> OpAfter(c, n)]
    BY DEF TypeOK, Restart
  <1>2. ASSUME NEW c \in Command
        PROVE  /\ OpAfter(c, n) \in Op
               /\ OpAfter(c, n).ballot = op[c].ballot /\ OpAfter(c, n).index = op[c].index
               /\ OpAfter(c, n).oks = op[c].oks /\ op[c].done \subseteq OpAfter(c, n).done
               /\ OpAfter(c, n).pc = op[c].pc
               /\ op[c].pc # "wait" => OpAfter(c, n) = op[c]
    <2> DEFINE died == {a.to : a \in {b \in DyingAccepts(n) : b.cmd = c /\ b.awaited}}
    <2>1. died \subseteq Nodes
      BY DEF DyingAccepts, TypeOK, AcceptCall
    <2>2. op[c] \in Op
      BY <1>1
    <2>3. CASE Home[c] = n /\ op[c].pc \notin {"idle", "ok"}
      <3>1. OpAfter(c, n) = [op[c] EXCEPT !.pc = "failed"] /\ op[c].pc = "failed"
        BY <2>3 DEF OpAfter, Follower
      <3> QED
        BY <2>2, <3>1 DEF Op
    <2>4. CASE Home[c] # n /\ op[c].pc = "wait"
      <3>1. OpAfter(c, n) = [op[c] EXCEPT !.done = @ \cup died]
        BY <2>4 DEF OpAfter
      <3> HIDE DEF died
      <3> QED
        BY <2>1, <2>2, <2>4, <3>1 DEF Op
    <2>5. CASE /\ ~ (Home[c] = n /\ op[c].pc \notin {"idle", "ok"})
               /\ ~ (Home[c] # n /\ op[c].pc = "wait")
      BY <2>2, <2>5 DEF OpAfter
    <2> QED
      BY <2>3, <2>4, <2>5
  <1> QED
    BY <1>1, <1>2 DEF SameOp

-----------------------------------------------------------------------------
(* The restart of a follower keeps the invariant.                          *)

\* Of the election it disturbs nothing that ties ballots to their owners: what
\* it forgets is a ballot and a campaign that are not its own.
LEMMA RestartElection ==
    ASSUME RestartInv, NEW n \in Nodes, Restart(n), Follower(n)
    PROVE  EP!IInv' /\ EP!OnlyCandidates'
  <1> USE DEF EP!kMaxNumPeers, kMaxNumPeers, EP!kIdBits, kIdBits, EP!kRoundIncrement,
              kRoundIncrement, EP!ExtractLeaderId, ExtractLeaderId, EP!IsLeader, IsLeader
  <1>1. EP!Nodes = Nodes /\ E!Nodes = Nodes /\ Nodes \subseteq Nat
    BY DEF EP!Nodes, E!Nodes, Nodes
  <1>2. /\ E!TypeOK /\ EP!BallotsAreIssued /\ EP!CallsMatchCampaign /\ EP!CampaignsAdvance
        /\ EP!OnlyCandidates /\ kMaxNumPeers \in held
    BY DEF RestartInv, IInv, TypeOK, EP!IInv
  <1>3. /\ ballot' = [ballot EXCEPT ![n] = kMaxNumPeers]
        /\ regressed' = regressed \cup {n} /\ UNCHANGED <<failures, held>>
        /\ commitReceived' = [commitReceived EXCEPT ![n] = FALSE]
        /\ beat' = [beat EXCEPT ![n] = [@ EXCEPT !.pc = "asleep", !.done = {}]]
    BY DEF Restart
  <1>4. /\ calls' \subseteq E!Call
        /\ \A d \in calls' : \E c \in calls :
              /\ d.rpc = c.rpc /\ d.from = c.from /\ d.to = c.to /\ d.phase = c.phase
              /\ d.ballot = c.ballot /\ d.stage = c.stage /\ d.reply = c.reply
    BY <1>2, RestartedCalls DEF E!TypeOK
  <1>5. /\ prep' \in [Nodes -> E!PrepareThread]
        /\ prep'[n].pc = "poll" /\ prep'[n].next = 0
        /\ \A m \in Nodes \ {n} : /\ prep'[m].pc = prep[m].pc /\ prep'[m].phase = prep[m].phase
                                  /\ prep'[m].next = prep[m].next
    <2>1. \A c \in Dying(n) : c.to \in Nodes
      BY <1>1, <1>2 DEF Dying, E!TypeOK, E!Call
    <2>2. prep \in [Nodes -> E!PrepareThread]
      BY <1>1, <1>2 DEF E!TypeOK
    <2> DEFINE died(m) == {c.to : c \in {d \in Dying(n) : /\ d.from = m /\ d.awaited
                                                          /\ prep[m].pc = "wait"
                                                          /\ d.phase = prep[m].phase}}
               thread(m) == IF m = n
                            THEN [prep[n] EXCEPT !.pc = "poll", !.next = 0, !.oks = {}, !.done = {}]
                            ELSE [prep[m] EXCEPT !.done = @ \cup died(m)]
    <2>3. prep' = [m \in Nodes |-> thread(m)]
      BY DEF Restart
    <2>4. \A m \in Nodes : died(m) \subseteq Nodes
      BY <2>1
    <2> HIDE DEF died
    <2>5. prep[n] \in E!PrepareThread /\ \A m \in Nodes : prep[m] \in E!PrepareThread
      BY <2>2
    <2>6. ASSUME NEW m \in Nodes
          PROVE  thread(m) \in E!PrepareThread
      <3>1. CASE m = n
        BY <2>5, <3>1 DEF E!PrepareThread
      <3>2. CASE m # n
        BY <1>1, <2>4, <2>5, <3>2 DEF E!PrepareThread
      <3> QED
        BY <3>1, <3>2
    <2>7. thread(n).pc = "poll" /\ thread(n).next = 0
      BY <2>5 DEF E!PrepareThread
    <2>8. ASSUME NEW m \in Nodes \ {n}
          PROVE  /\ thread(m).pc = prep[m].pc /\ thread(m).phase = prep[m].phase
                 /\ thread(m).next = prep[m].next
      BY <2>5 DEF E!PrepareThread
    <2> HIDE DEF thread
    <2> QED
      BY <2>3, <2>6, <2>7, <2>8
  <1>6. \A m \in Nodes : ballot'[m] = IF m = n THEN kMaxNumPeers ELSE ballot[m]
    BY <1>1, <1>2, <1>3 DEF E!TypeOK
  <1>7. \A d \in calls' : d.rpc = "prepare" => d.from \in Nodes \ {n}
    BY <1>1, <1>4 DEF Follower, E!Call
  <1>8. EP!TypeOK'
    <2>1. /\ ballot' \in [Nodes -> Nat] /\ failures' \in Nat /\ held' \subseteq Nat
          /\ regressed' \subseteq Nodes
      BY <1>1, <1>2, <1>3 DEF E!TypeOK
    <2>2. commitReceived' \in [Nodes -> BOOLEAN]
      BY <1>1, <1>2, <1>3, Zenon DEF E!TypeOK
    <2>3. beat' \in [Nodes -> E!CommitThread]
      <3>1. beat \in [Nodes -> E!CommitThread]
        BY <1>1, <1>2 DEF E!TypeOK
      <3>2. [beat[n] EXCEPT !.pc = "asleep", !.done = {}] \in E!CommitThread
        BY <3>1 DEF E!CommitThread
      <3> QED
        BY <1>3, <3>1, <3>2
    <2>4. E!TypeOK'
      BY <1>1, <1>4, <1>5, <2>1, <2>2, <2>3 DEF E!TypeOK
    <2> QED
      BY <2>4, SameElection
  <1>9. EP!BallotsAreIssued'
    <2>1. \A m \in EP!Nodes : ballot'[m] \in held'
      BY <1>1, <1>2, <1>3, <1>6 DEF EP!BallotsAreIssued
    <2>2. ASSUME NEW b \in held', NEW m \in Nodes, EP!IsLeader(b, m)
          PROVE  b <= prep'[m].next
      <3>1. b \in held /\ m # n
        BY <1>3, <2>2 DEF Follower
      <3> QED
        BY <1>1, <1>2, <1>5, <2>2, <3>1 DEF EP!BallotsAreIssued, EP!Issued
    <2>3. ASSUME NEW d \in calls'
          PROVE  /\ d.rpc = "prepare" => EP!IsLeader(d.ballot, d.from) /\ d.ballot <= prep'[d.from].next
                 /\ d.rpc = "commit" => d.ballot \in held'
                 /\ d.stage = "reject" => d.reply \in held'
      BY <1>2, <1>3, <1>4, <1>5, <1>7 DEF EP!BallotsAreIssued
    <2> QED
      BY <1>1, <2>1, <2>2, <2>3 DEF EP!BallotsAreIssued, EP!Issued
  <1>10. EP!CallsMatchCampaign'
    BY <1>2, <1>4, <1>5, <1>7 DEF EP!CallsMatchCampaign
  <1>11. EP!CampaignsAdvance'
    <2>1. EP!NextBallot(kMaxNumPeers, n) \in Nat
      BY <1>1 DEF EP!NextBallot
    <2> QED
      BY <1>1, <1>2, <1>5, <1>6, <2>1 DEF EP!CampaignsAdvance
  <1>12. EP!OnlyCandidates'
    BY <1>1, <1>2, <1>3, <1>4, <1>5, <1>7 DEF EP!OnlyCandidates, EP!Candidates
  <1> QED
    BY <1>8, <1>9, <1>10, <1>11, <1>12 DEF EP!IInv

\* A log and a store are as they were, or empty at the replica that restarts.
LEMMA RestartedLogs ==
    ASSUME TypeOK, NEW n \in Nodes, Restart(n)
    PROVE  /\ log' = [m \in Nodes |-> [p \in Partitions |-> log'[m][p]]]
           /\ applied' \in [Nodes -> [Partitions -> Seq(Command)]]
           /\ \A p \in Partitions : log'[n][p] = Log!NewLog /\ applied'[n][p] = <<>>
           /\ \A m \in Nodes \ {n} : log'[m] = log[m] /\ applied'[m] = applied[m]
           /\ \A m \in Nodes, p \in Partitions : IsLog(log'[m][p])
  <1>1. /\ log' = [log EXCEPT ![n] = [p \in Partitions |-> Log!NewLog]]
        /\ applied' = [applied EXCEPT ![n] = [p \in Partitions |-> <<>>]]
    BY DEF Restart
  <1>2. /\ log = [m \in Nodes |-> [p \in Partitions |-> log[m][p]]]
        /\ applied \in [Nodes -> [Partitions -> Seq(Command)]]
        /\ \A m \in Nodes, p \in Partitions : IsLog(log[m][p])
    BY DEF TypeOK
  <1>3. IsLog(Log!NewLog)
    BY DEF IsLog, Log!NewLog
  <1>4. /\ \A p \in Partitions : log'[n][p] = Log!NewLog /\ applied'[n][p] = <<>>
        /\ \A m \in Nodes \ {n} : log'[m] = log[m] /\ applied'[m] = applied[m]
    BY <1>1, <1>2
  <1>5. log' = [m \in Nodes |-> [p \in Partitions |-> log'[m][p]]]
    BY <1>1, <1>2
  <1>6. applied' \in [Nodes -> [Partitions -> Seq(Command)]]
    <2>1. [p \in Partitions |-> <<>>] \in [Partitions -> Seq(Command)]
      OBVIOUS
    <2> QED
      BY <1>1, <1>2, <2>1
  <1>7. \A m \in Nodes, p \in Partitions : IsLog(log'[m][p])
    BY <1>2, <1>3, <1>4
  <1> QED
    BY <1>4, <1>5, <1>6, <1>7

\* Nor does it disturb what replication knows: the indexes, the ballots and the
\* quorums of the Replicates elsewhere stay, and of the logs only its own goes.
LEMMA RestartKeeps ==
    ASSUME RestartInv, NEW n \in Nodes, Restart(n), Follower(n)
    PROVE  RestartInv'
  <1>1. /\ TypeOK /\ OpsInOrder /\ IndexOnce /\ AcceptsInOrder /\ OneCommandPerBallot
        /\ AppliedAtItsIndex /\ AcksInOrder /\ CommitsInOrder
    BY DEF RestartInv, IInv
  <1>2. EP!IInv' /\ EP!OnlyCandidates'
    BY RestartElection
  <1>3. /\ op' \in [Command -> Op]
        /\ \A c \in Command :
              /\ op'[c].ballot = op[c].ballot /\ op'[c].index = op[c].index
              /\ op'[c].oks = op[c].oks /\ op[c].done \subseteq op'[c].done
              /\ op'[c].pc = op[c].pc
              /\ op[c].pc # "wait" => op'[c] = op[c]
    BY <1>1, RestartedOps DEF SameOp
  <1>4. /\ accepts' \subseteq AcceptCall
        /\ \A b \in accepts' : \E a \in accepts :
              /\ b.cmd = a.cmd /\ b.to = a.to /\ b.stage = a.stage /\ b.reply = a.reply
              /\ a.to = n => a.stage \in {"sent", "ok", "reject"}
    BY <1>1, RestartedAccepts DEF TypeOK
  <1>5. /\ log' = [m \in Nodes |-> [p \in Partitions |-> log'[m][p]]]
        /\ applied' \in [Nodes -> [Partitions -> Seq(Command)]]
        /\ \A m \in Nodes, p \in Partitions : IsLog(log'[m][p])
    BY <1>1, RestartedLogs
  <1>6. /\ \A p \in Partitions : log'[n][p] = Log!NewLog /\ applied'[n][p] = <<>>
        /\ \A m \in Nodes \ {n} : log'[m] = log[m] /\ applied'[m] = applied[m]
    BY <1>1, RestartedLogs
  <1>7. /\ UNCHANGED <<held, acceptFailures, answered>> /\ regressed' = regressed \cup {n}
        /\ prepLast' = [prepLast EXCEPT ![n] = 0]
        /\ ballot' = [ballot EXCEPT ![n] = kMaxNumPeers]
        /\ restarts' = [restarts EXCEPT ![n] = @ + 1]
    BY DEF Restart
  <1>8. /\ \A c \in Command : /\ op[c] \in Op /\ OpInOrder(c)
                              /\ Home[c] \in Nodes /\ PartitionOf[c] \in Partitions
                              /\ op[c].index # 0 => Home[c] # n
        /\ \A a \in accepts : a.cmd \in Command /\ a.to \in Nodes
    BY <1>1, Places DEF TypeOK, OpsInOrder, AcceptCall, Follower
  <1>9. \A c \in Command : Proposed(c)' <=> Proposed(c)
    BY <1>3, <1>8 DEF Proposed, OpInOrder
  <1>10. TypeOK'
    <2>1. E!TypeOK'
      BY <1>2, SameElection DEF EP!IInv
    <2>2. prepLast' \in [Nodes -> Nat]
      BY <1>1, <1>7 DEF TypeOK
    <2> QED
      BY <1>1, <1>3, <1>4, <1>5, <1>7, <2>1, <2>2 DEF TypeOK
  <1>11. OpsInOrder'
    <2> SUFFICES ASSUME NEW c \in Command
                 PROVE  OpInOrder(c)'
      BY DEF OpsInOrder
    <2>1. op[c].index # 0 => LogOf(Home[c], c)' = LogOf(Home[c], c)
      BY <1>6, <1>8 DEF LogOf
    <2>2. Led(c)' <=> Led(c)
      BY <1>3, <1>7 DEF Led
    <2>3. op'[c].done # {} => op[c].index # 0 /\ op[c].pc \in {"wait", "ok", "failed"}
      BY <1>3, <1>8 DEF OpInOrder
    <2> QED
      BY <1>3, <1>8, <2>1, <2>2, <2>3 DEF OpInOrder
  <1>12. IndexOnce'
    BY <1>1, <1>3 DEF IndexOnce
  <1>13. AcceptsInOrder'
    BY <1>1, <1>4, <1>7, <1>8, <1>9 DEF AcceptsInOrder
  <1>14. ASSUME NEW m \in Nodes, NEW p \in Partitions, NEW i \in DOMAIN log'[m][p].entries
         PROVE  /\ m # n /\ i \in DOMAIN log[m][p].entries
                /\ log'[m][p].entries[i] = log[m][p].entries[i]
                /\ log[m][p].entries[i].cmd \in Command
    <2>1. m # n
      BY <1>6 DEF Log!NewLog
    <2>2. i \in DOMAIN log[m][p].entries /\ log'[m][p].entries[i] = log[m][p].entries[i]
      BY <1>6, <2>1
    <2> QED
      BY <1>1, <2>1, <2>2, StoredTypes
  <1>15. OneCommandPerBallot'
    <2>1. ASSUME NEW m \in Nodes, NEW p \in Partitions, NEW i \in DOMAIN log'[m][p].entries,
                 NEW c, c = log'[m][p].entries[i].cmd
          PROVE  /\ Proposed(c)' /\ PartitionOf[c] = p
                 /\ log'[m][p].entries[i].index = i /\ i = op'[c].index
                 /\ log'[m][p].entries[i].ballot = op'[c].ballot
      <3>1. /\ c \in Command /\ c = log[m][p].entries[i].cmd
            /\ log'[m][p].entries[i] = log[m][p].entries[i]
        BY <1>14, <2>1
      <3>2. /\ Proposed(c) /\ PartitionOf[c] = p
            /\ log[m][p].entries[i].index = i /\ i = op[c].index
            /\ log[m][p].entries[i].ballot = op[c].ballot
        BY <1>1, <1>14, <3>1 DEF OneCommandPerBallot
      <3>3. Proposed(c)' /\ op'[c].index = op[c].index /\ op'[c].ballot = op[c].ballot
        BY <1>3, <1>9, <3>1, <3>2
      <3> QED
        BY <3>1, <3>2, <3>3
    <2>2. ASSUME NEW c \in Command, NEW d \in Command, Proposed(c)', Proposed(d)',
                 PartitionOf[c] = PartitionOf[d],
                 op'[c].ballot = op'[d].ballot, op'[c].index = op'[d].index
          PROVE  c = d
      BY <1>1, <1>3, <1>9, <2>2 DEF OneCommandPerBallot
    <2> QED
      BY <2>1, <2>2 DEF OneCommandPerBallot, Proposed
  <1>16. AppliedAtItsIndex'
    <2> SUFFICES ASSUME NEW m \in Nodes, NEW p \in Partitions
                 PROVE  /\ Len(applied'[m][p]) = log'[m][p].lastExecuted
                        /\ \A k \in DOMAIN applied'[m][p] :
                              /\ op'[applied'[m][p][k]].index = k
                              /\ PartitionOf[applied'[m][p][k]] = p
      BY DEF AppliedAtItsIndex
    <2>1. CASE m = n
      BY <1>6, <2>1 DEF Log!NewLog
    <2>2. CASE m # n
      <3>1. applied'[m][p] = applied[m][p] /\ log'[m][p] = log[m][p]
        BY <1>6, <2>2
      <3>2. applied[m][p] \in Seq(Command)
        BY <1>1 DEF TypeOK
      <3>3. \A k \in DOMAIN applied[m][p] : applied[m][p][k] \in Command
        BY <3>2
      <3> QED
        BY <1>1, <1>3, <3>1, <3>3 DEF AppliedAtItsIndex
    <2> QED
      BY <2>1, <2>2
  <1>17. ASSUME NEW m \in Nodes, NEW c \in Command, Backed(m, c)
         PROVE  Backed(m, c)'
    <2>1. CASE m = n
      BY <1>7, <2>1 DEF Backed
    <2>2. CASE m # n
      <3>1. LogOf(m, c)' = LogOf(m, c)
        BY <1>6, <1>8, <2>2 DEF LogOf
      <3> QED
        BY <1>3, <1>7, <1>17, <3>1 DEF Backed
    <2> QED
      BY <2>1, <2>2
  <1>18. AcksInOrder'
    <2>1. \A c \in Command : \A m \in op'[c].oks : Backed(m, c)'
      BY <1>1, <1>3, <1>8, <1>17 DEF AcksInOrder, Op
    <2>2. ASSUME NEW b \in accepts'
          PROVE  /\ b.stage \in {"appended", "followed", "ok"} => Backed(b.to, b.cmd)'
                 /\ b.stage = "refused" => ballot'[b.to] > op'[b.cmd].ballot \/ b.to \in regressed'
      <3>1. PICK a \in accepts : b.cmd = a.cmd /\ b.to = a.to /\ b.stage = a.stage
        BY <1>4
      <3>2. PICK m \in Nodes, c \in Command : m = a.to /\ c = a.cmd
        BY <1>8
      <3>3. b.stage \in {"appended", "followed", "ok"} => Backed(m, c)
        BY <1>1, <3>1, <3>2 DEF AcksInOrder
      <3>4. b.stage \in {"appended", "followed", "ok"} => Backed(m, c)'
        BY <1>17, <3>3
      <3>5. b.stage \in {"appended", "followed", "ok"} => Backed(b.to, b.cmd)'
        BY <3>1, <3>2, <3>4 DEF Backed, LogOf
      <3>6. b.stage = "refused" => ballot[m] > op[c].ballot \/ m \in regressed
        BY <1>1, <3>1, <3>2 DEF AcksInOrder
      <3>7. m # n => ballot'[m] = ballot[m]
        BY <1>7
      <3> QED
        BY <1>3, <1>7, <3>1, <3>2, <3>5, <3>6, <3>7
    <2> QED
      BY <2>1, <2>2 DEF AcksInOrder
  <1>19. CommitsInOrder'
    <2>1. \A c \in Command : op'[c].pc = "ok" => E!Majority(op'[c].oks)
      BY <1>1, <1>3 DEF CommitsInOrder
    <2>2. ASSUME NEW m \in Nodes, NEW p \in Partitions, NEW i \in DOMAIN log'[m][p].entries
          PROVE  LET e == log'[m][p].entries[i]
                 IN  e.state # "INPROGRESS" /\ Home[e.cmd] = m => op'[e.cmd].pc = "ok"
      BY <1>1, <1>3, <1>14 DEF CommitsInOrder
    <2>3. \A c \in answered' : op'[c].pc = "ok"
      BY <1>1, <1>3, <1>7 DEF CommitsInOrder, TypeOK
    <2> QED
      BY <2>1, <2>2, <2>3 DEF CommitsInOrder, E!Majority
  <1>20. kMaxNumPeers \in held' /\ restarts' \in [Nodes -> Nat]
    BY <1>7 DEF RestartInv
  <1> QED
    BY <1>2, <1>10, <1>11, <1>12, <1>13, <1>15, <1>16, <1>18, <1>19, <1>20 DEF RestartInv, IInv

-----------------------------------------------------------------------------
(* The invariant, and what it gives.                                       *)

\* The invariant holds at first ...
LEMMA RestartInvInit == RestartInit => RestartInv
  <1> SUFFICES ASSUME RestartInit
               PROVE  RestartInv
    OBVIOUS
  <1>1. IInv /\ EP!OnlyCandidates
    BY InvInit, ElectionCandidates DEF RestartInit, Init
  <1>2. kMaxNumPeers \in held
    BY DEF RestartInit, Init, E!Init, E!kMaxNumPeers, kMaxNumPeers, E!kIdBits, kIdBits
  <1> QED
    BY <1>1, <1>2 DEF RestartInit, RestartInv

\* ... and every step keeps it.
LEMMA RestartInvNext ==
    ASSUME OnlyFollowersRestart
    PROVE  RestartInv /\ [RestartNext]_restartVars => RestartInv'
  <1> SUFFICES ASSUME RestartInv, [RestartNext]_restartVars
               PROVE  RestartInv'
    OBVIOUS
  <1>1. CASE [Next]_vars /\ UNCHANGED restarts
    <2>1. IInv /\ IInv' /\ EP!IInv
      BY <1>1, InvNext DEF RestartInv, IInv
    <2>2. [E!Next]_E!electionVars
      BY <1>1, <2>1, StepIsElection DEF IInv
    <2>3. EP!OnlyCandidates' /\ held \subseteq held'
      BY <2>1, <2>2, ElectionCandidates, ElectionMoves DEF RestartInv
    <2> QED
      BY <1>1, <2>1, <2>3 DEF RestartInv
  <1>2. ASSUME NEW n \in Nodes, Restart(n)
        PROVE  RestartInv'
    BY <1>2, RestartsAtFollowers, RestartKeeps
  <1> QED
    BY <1>1, <1>2 DEF RestartNext, restartVars

\* As long as only replicas that never campaign restart, an index and a ballot
\* stand for one command in every log: a follower that comes back has forgotten
\* its promises, yet no ballot is issued again.  When a candidate restarts one
\* is, and the property fails.
THEOREM FollowersMayRestart ==
    ASSUME OnlyFollowersRestart
    PROVE  RestartSpec => []SameBallotSameCommand
  <1>1. RestartInv => SameBallotSameCommand
    <2> SUFFICES ASSUME RestartInv, NEW n \in Nodes, NEW m \in Nodes, NEW p \in Partitions,
                        NEW i \in DOMAIN log[n][p].entries \cap DOMAIN log[m][p].entries,
                        log[n][p].entries[i].ballot = log[m][p].entries[i].ballot
                 PROVE  log[n][p].entries[i].cmd = log[m][p].entries[i].cmd
      BY DEF SameBallotSameCommand
    <2>1. TypeOK /\ OneCommandPerBallot
      BY DEF RestartInv, IInv
    <2>2. PICK c \in Command, d \in Command :
             c = log[n][p].entries[i].cmd /\ d = log[m][p].entries[i].cmd
      BY <2>1, StoredTypes
    <2>3. /\ Proposed(c) /\ PartitionOf[c] = p /\ op[c].index = i
          /\ op[c].ballot = log[n][p].entries[i].ballot
          /\ Proposed(d) /\ PartitionOf[d] = p /\ op[d].index = i
          /\ op[d].ballot = log[m][p].entries[i].ballot
      BY <2>1, <2>2 DEF OneCommandPerBallot
    <2>4. c = d
      BY <2>1, <2>3 DEF OneCommandPerBallot
    <2> QED
      BY <2>2, <2>4
  <1> QED
    BY <1>1, RestartInvInit, RestartInvNext, PTL DEF RestartSpec

\* With a single candidate, which does not restart, a follower's restart costs
\* the others nothing they have committed: only the candidate gives indexes out
\* and it has not forgotten which, so what is stored at an index, of whatever
\* ballot, is one command wherever it is stored ("Insert case2").
THEOREM OthersKeep ==
    ASSUME NEW k \in Nodes, E!Candidates \subseteq {k}, OnlyFollowersRestart
    PROVE  RestartSpec => OthersKeepCommitted
  <1>1. RestartInv => HandedOutBy(k)
    BY IndexesAreOnes DEF RestartInv
  <1>2. /\ RestartInv /\ RestartInv' /\ HandedOutBy(k)' /\ [RestartNext]_restartVars
        => [\A n \in Nodes : restarts'[n] = restarts[n] => KeepsCommitted(n)]_restartVars
    <2> SUFFICES ASSUME RestartInv, RestartInv', HandedOutBy(k)', [RestartNext]_restartVars,
                        NEW n \in Nodes, restarts'[n] = restarts[n]
                 PROVE  KeepsCommitted(n) \/ UNCHANGED restartVars
      OBVIOUS
    <2>1. CASE Next
      <3>1. IInv /\ IInv'
        BY DEF RestartInv
      <3> QED
        BY <2>1, <3>1, StoredStays DEF KeepsCommitted
    <2>2. ASSUME NEW m \in Nodes, Restart(m)
          PROVE  KeepsCommitted(n)
      <3>1. n # m
        BY <2>2 DEF Restart, RestartInv
      <3>2. log'[n] = log[n]
        BY <2>2, <3>1, RestartedLogs DEF RestartInv, IInv
      <3> QED
        BY <3>2 DEF KeepsCommitted
    <2> QED
      BY <2>1, <2>2 DEF RestartNext
  <1> QED
    BY <1>1, <1>2, RestartInvInit, RestartInvNext, PTL DEF RestartSpec, OthersKeepCommitted

=============================================================================
