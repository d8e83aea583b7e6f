--------------------------- MODULE ElectionProofs ---------------------------
(***************************************************************************)
(* Theorems about Election, for any number of replicas, campaigns,         *)
(* heartbeats and lost calls.                                              *)
(***************************************************************************)
EXTENDS Election, TLAPS

-----------------------------------------------------------------------------
(* Facts about ballots.                                                    *)

\* The ballot of a campaign is above the one it starts from, and names its
\* candidate.
LEMMA NextBallotGrows ==
    ASSUME NEW b \in Nat, NEW id \in 0 .. kIdBits
    PROVE  /\ NextBallot(b, id) \in Nat
           /\ NextBallot(b, id) > b
           /\ NextBallot(b, id) >= kRoundIncrement
           /\ ExtractLeaderId(NextBallot(b, id)) = id
  BY DEF NextBallot, ExtractLeaderId, kIdBits, kRoundIncrement

\* From a higher ballot a replica campaigns with a ballot at least as high.
LEMMA NextBallotMonotone ==
    ASSUME NEW b \in Nat, NEW c \in Nat, b <= c, NEW id \in 0 .. kIdBits
    PROVE  NextBallot(b, id) <= NextBallot(c, id)
  BY DEF NextBallot, kIdBits, kRoundIncrement

\* A ballot that a replica campaigns with names that replica and no other, from
\* whatever ballot it was computed, so that no two replicas ever campaign with the
\* same one; and the ballot they all start with names nobody.
THEOREM LeaderIsNamed ==
    ASSUME NEW b \in Nat, NEW c \in Nat,
           NEW id \in 0 .. kMaxNumPeers - 1, NEW other \in 0 .. kMaxNumPeers - 1
    PROVE  /\ ExtractLeaderId(NextBallot(b, id)) = id
           /\ IsLeader(NextBallot(b, id), other) <=> id = other
           /\ IsSomeoneElseLeader(NextBallot(b, id), other) <=> id # other
           /\ NextBallot(b, id) = NextBallot(c, other) => id = other
           /\ ~ IsLeader(kMaxNumPeers, id) /\ ~ IsSomeoneElseLeader(kMaxNumPeers, id)
  <1>0. id \in 0 .. kIdBits /\ other \in 0 .. kIdBits
    BY DEF kMaxNumPeers, kIdBits
  <1>1. /\ ExtractLeaderId(NextBallot(b, id)) = id
        /\ ExtractLeaderId(NextBallot(c, other)) = other
    BY <1>0, NextBallotGrows
  <1>2. IsLeader(NextBallot(b, id), other) <=> id = other
    BY <1>1 DEF IsLeader
  <1>3. IsSomeoneElseLeader(NextBallot(b, id), other) <=> id # other
    BY <1>1, <1>2 DEF IsSomeoneElseLeader, kMaxNumPeers
  <1>4. ExtractLeaderId(kMaxNumPeers) = kMaxNumPeers
    BY DEF ExtractLeaderId, kMaxNumPeers, kRoundIncrement, kIdBits
  <1>5. ~ IsLeader(kMaxNumPeers, id) /\ ~ IsSomeoneElseLeader(kMaxNumPeers, id)
    BY <1>4 DEF IsLeader, IsSomeoneElseLeader, kMaxNumPeers
  <1> QED
    BY <1>1, <1>2, <1>3, <1>5

-----------------------------------------------------------------------------
(* Facts about the constants and the helpers.                              *)

\* Ids fit in the low bits of a ballot, and none is the id of nobody.
LEMMA NodesAreIds ==
    ASSUME NEW n \in Nodes
    PROVE  n \in Nat /\ n \in 0 .. kIdBits /\ n < kMaxNumPeers
  BY ElectionAssumption DEF Nodes, kIdBits, kMaxNumPeers

\* A campaign's ballot is a number above the replica's own, and the replica's.
LEMMA CampaignBallot ==
    ASSUME TypeOK, NEW n \in Nodes
    PROVE  /\ NextBallot(ballot[n], n) \in Nat
           /\ NextBallot(ballot[n], n) > ballot[n]
           /\ IsLeader(NextBallot(ballot[n], n), n)
  BY NodesAreIds, NextBallotGrows DEF TypeOK, IsLeader

\* What callbacks do to a prepare thread leaves it a prepare thread.
LEMMA PrepareThreadTypes ==
    ASSUME TypeOK, NEW n \in Nodes, NEW b \in Nat, NEW c \in Call,
           NEW thread \in PrepareThread
    PROVE  /\ Notified(n, b, thread) \in PrepareThread
           /\ Counted(c, thread) \in PrepareThread
           /\ CountedOk(c, thread) \in PrepareThread
  <1>1. c.to \in Nodes
    BY DEF Call
  <1> QED
    BY <1>1 DEF Notified, Counted, CountedOk, PrepareThread

\* The same for a commit thread.
LEMMA CommitThreadTypes ==
    ASSUME NEW c \in Call, NEW thread \in CommitThread
    PROVE  Counted(c, thread) \in CommitThread
  BY DEF Call, Counted, CommitThread

\* BecomeFollower never takes the ballot down.
LEMMA FollowerTypes ==
    ASSUME TypeOK, NEW n \in Nodes, NEW b \in Nat, NEW thread \in PrepareThread,
           BecomeFollowerOf(n, b, thread)
    PROVE  /\ ballot' \in [Nodes -> Nat]
           /\ prep' \in [Nodes -> PrepareThread]
           /\ held' \subseteq Nat
           /\ \A m \in Nodes : ballot'[m] >= ballot[m]
           /\ ballot'[n] >= b
  <1>1. Notified(n, b, thread) \in PrepareThread
    BY DEF Notified, PrepareThread
  <1>2. /\ ballot' \in [Nodes -> Nat]
        /\ \A m \in Nodes : ballot'[m] >= ballot[m]
        /\ ballot'[n] >= b
    BY DEF TypeOK, BecomeFollowerOf, Raised
  <1>3. prep' \in [Nodes -> PrepareThread]
    BY <1>1 DEF TypeOK, BecomeFollowerOf
  <1>4. held' \subseteq Nat
    BY <1>2 DEF TypeOK, BecomeFollowerOf
  <1> QED
    BY <1>2, <1>3, <1>4

\* A call that is answered is a call.
LEMMA AnswerTypes ==
    ASSUME TypeOK, NEW c \in calls, NEW r \in Nat, NEW stage \in {"ok", "reject"},
           Answer(c, stage, r)
    PROVE  calls' \subseteq Call
  BY DEF TypeOK, Answer, Call

\* A call whose handler has compared the ballots is a call.
LEMMA StepTypes ==
    ASSUME TypeOK, NEW c \in calls, NEW stage \in {"passed", "refused"}, Step(c, stage)
    PROVE  calls' \subseteq Call
  <1>1. [c EXCEPT !.stage = stage] \in Call
    BY DEF TypeOK, Call
  <1> QED
    BY <1>1 DEF TypeOK, Step

\* What a phase posts are calls.
LEMMA SendTypes ==
    ASSUME TypeOK, NEW n \in Nodes, NEW rpc \in {"prepare", "commit"},
           NEW phase \in Nat, NEW b \in Nat, Send(rpc, n, phase, b)
    PROVE  calls' \subseteq Call
  <1>1. ASSUME NEW c \in [rpc : {rpc}, from : {n}, to : Nodes \ {n}, phase : {phase},
                          ballot : {b}, stage : {"sent"}, reply : {0}, awaited : {TRUE}]
        PROVE  c \in Call
    <2>1. /\ c.rpc = rpc /\ c.from = n /\ c.to \in Nodes /\ c.phase = phase
          /\ c.ballot = b /\ c.stage = "sent" /\ c.reply = 0
      BY <1>1
    <2>2. c.awaited \in BOOLEAN
      BY <1>1, Zenon
    <2>3. c = [rpc |-> c.rpc, from |-> c.from, to |-> c.to, phase |-> c.phase,
               ballot |-> c.ballot, stage |-> c.stage, reply |-> c.reply,
               awaited |-> c.awaited]
      BY <1>1
    <2> QED
      BY <2>1, <2>2, <2>3 DEF Call
  <1> QED
    BY <1>1 DEF TypeOK, Send

-----------------------------------------------------------------------------
(* Type correctness.                                                       *)

\* The constructor gives every variable a value of its type.
LEMMA TypeInit == Init => TypeOK
  BY ElectionAssumption DEF Init, TypeOK, PrepareThread, CommitThread, Nodes, kMaxNumPeers

\* The steps of the two threads keep the types.
LEMMA ThreadTypes ==
    ASSUME TypeOK, NEW n \in Nodes,
           PrepareThreadStep(n) \/ BecomeLeader(n) \/ CommitThreadStep(n)
    PROVE  TypeOK'
  <1>t. /\ prep[n] \in PrepareThread /\ beat[n] \in CommitThread
        /\ ballot[n] \in Nat /\ prep[n].phase + 1 \in Nat /\ beat[n].phase + 1 \in Nat
    BY DEF TypeOK, PrepareThread, CommitThread
  <1>1. CASE PrepareThreadLoop(n)
    BY <1>1, <1>t DEF PrepareThreadLoop, TypeOK, PrepareThread, history
  <1>2. CASE SkipCampaign(n)
    BY <1>2 DEF SkipCampaign, TypeOK, history
  <1>3. CASE StartCampaign(n)
    <2>1. calls' \subseteq Call
      BY <1>3, <1>t, CampaignBallot, SendTypes DEF StartCampaign
    <2>2. prep' \in [Nodes -> PrepareThread]
      BY <1>3, <1>t, CampaignBallot DEF StartCampaign, TypeOK, PrepareThread
    <2> QED
      BY <1>3, <2>1, <2>2 DEF StartCampaign, TypeOK, history
  <1>4. CASE CampaignWon(n)
    BY <1>4, <1>t DEF CampaignWon, TypeOK, PrepareThread, history
  <1>5. CASE CampaignLost(n)
    BY <1>5, <1>t DEF CampaignLost, TypeOK, PrepareThread, history
  <1>6. CASE BecomeLeader(n)
    <2>1. WonBallot(n) \in Nat
      BY <1>t DEF WonBallot, PrepareThread
    <2>2. ballot' \in [Nodes -> Nat] /\ held' \subseteq Nat /\ regressed' \subseteq Nodes
      BY <1>6, <2>1 DEF BecomeLeader, TypeOK
    <2>3. prep' \in [Nodes -> PrepareThread]
      BY <1>6, <1>t DEF BecomeLeader, TypeOK, PrepareThread
    <2>4. beat' \in [Nodes -> CommitThread]
      BY <1>6, <1>t DEF BecomeLeader, TypeOK, CommitThread, Woken
    <2> QED
      BY <1>6, <2>2, <2>3, <2>4 DEF BecomeLeader, TypeOK
  <1>7. CASE CommitThreadLoop(n)
    BY <1>7, <1>t DEF CommitThreadLoop, TypeOK, CommitThread, history
  <1>8. CASE StartBeat(n)
    <2>1. calls' \subseteq Call
      BY <1>8, <1>t, SendTypes DEF StartBeat
    <2>2. beat' \in [Nodes -> CommitThread]
      BY <1>8, <1>t DEF StartBeat, TypeOK, CommitThread
    <2> QED
      BY <1>8, <2>1, <2>2 DEF StartBeat, TypeOK, history
  <1>9. CASE EndBeat(n)
    BY <1>9, <1>t DEF EndBeat, TypeOK, CommitThread, history
  <1>10. CASE StopBeating(n)
    BY <1>10, <1>t DEF StopBeating, TypeOK, CommitThread, history
  <1> QED
    BY <1>1, <1>2, <1>3, <1>4, <1>5, <1>6, <1>7, <1>8, <1>9, <1>10
       DEF PrepareThreadStep, CommitThreadStep

\* The handlers, the callbacks and the loss of a call keep the types.
LEMMA CallTypes ==
    ASSUME TypeOK, NEW c \in calls, Handler(c) \/ Callback(c) \/ CallFails(c)
    PROVE  TypeOK'
  <1>t. /\ c \in Call /\ c.from \in Nodes /\ c.to \in Nodes
        /\ c.ballot \in Nat /\ c.reply \in Nat
        /\ prep[c.from] \in PrepareThread /\ prep[c.to] \in PrepareThread
        /\ beat[c.from] \in CommitThread /\ ballot[c.to] \in Nat
        /\ calls \ {c} \subseteq Call
    BY DEF TypeOK, Call
  <1>1. CASE PrepareCompare(c)
    BY <1>1, StepTypes DEF PrepareCompare, TypeOK, history
  <1>2. CASE PreparePromise(c)
    BY <1>2, <1>t, AnswerTypes, FollowerTypes DEF PreparePromise, BecomeFollower, TypeOK
  <1>3. CASE PrepareReject(c)
    BY <1>3, <1>t, AnswerTypes DEF PrepareReject, TypeOK, history
  <1>4. CASE CommitHandler(c)
    <2>1. CASE c.ballot >= ballot[c.to]
      BY <1>4, <2>1, <1>t, AnswerTypes, FollowerTypes DEF CommitHandler, BecomeFollower, TypeOK
    <2>2. CASE ~ (c.ballot >= ballot[c.to])
      <3>1. Answer(c, "reject", ballot[c.to])
        BY <1>4, <2>2 DEF CommitHandler
      <3>2. calls' \subseteq Call
        BY <3>1, <1>t, AnswerTypes
      <3>3. UNCHANGED <<ballot, commitReceived, prep, held, beat, failures, regressed>>
        BY <1>4, <2>2 DEF CommitHandler
      <3> QED
        BY <3>2, <3>3 DEF TypeOK
    <2> QED
      BY <2>1, <2>2
  <1>5. CASE PrepareCallback(c)
    <2>1. CASE c.stage = "ok"
      <3>1. CountedOk(c, prep[c.from]) \in PrepareThread
        BY <1>t, PrepareThreadTypes
      <3>2. prep' \in [Nodes -> PrepareThread]
        BY <1>5, <2>1, <1>t, <3>1 DEF PrepareCallback, TypeOK
      <3> QED
        BY <1>5, <2>1, <1>t, <3>2 DEF PrepareCallback, TypeOK
    <2>2. CASE c.stage = "reject"
      BY <1>5, <2>2, <1>t, PrepareThreadTypes, FollowerTypes DEF PrepareCallback, TypeOK
    <2> QED
      BY <1>5, <2>1, <2>2 DEF PrepareCallback
  <1>6. CASE CommitCallback(c)
    <2>0. beat' \in [Nodes -> CommitThread]
      BY <1>6, <1>t, CommitThreadTypes DEF CommitCallback, TypeOK
    <2>1. CASE c.stage = "ok"
      BY <1>6, <2>0, <2>1, <1>t DEF CommitCallback, TypeOK
    <2>2. CASE c.stage = "reject"
      BY <1>6, <2>0, <2>2, <1>t, FollowerTypes DEF CommitCallback, BecomeFollower, TypeOK
    <2> QED
      BY <1>6, <2>1, <2>2 DEF CommitCallback
  <1>7. CASE CallFails(c)
    <2>1. Abandoned(c) \in Call
      BY <1>t DEF Call, Abandoned
    <2>2. calls' \subseteq Call /\ failures' \in Nat
      <3>1. calls' \subseteq calls \cup {Abandoned(c)}
        BY <1>7 DEF CallFails
      <3> QED
        BY <1>7, <2>1, <3>1 DEF CallFails, TypeOK
    <2>3. prep' \in [Nodes -> PrepareThread]
      BY <1>7, <1>t, PrepareThreadTypes DEF CallFails, TypeOK
    <2>4. beat' \in [Nodes -> CommitThread]
      BY <1>7, <1>t, CommitThreadTypes DEF CallFails, TypeOK
    <2> QED
      BY <1>7, <2>2, <2>3, <2>4 DEF CallFails, TypeOK, history
  <1> QED
    BY <1>1, <1>2, <1>3, <1>4, <1>5, <1>6, <1>7 DEF Handler, Callback

\* Every step keeps the types.
LEMMA TypeNext == TypeOK /\ [Next]_electionVars => TypeOK'
  <1> SUFFICES ASSUME TypeOK, [Next]_electionVars
               PROVE  TypeOK'
    OBVIOUS
  <1>1. ASSUME NEW n \in Nodes, NEW b \in held, HearBallot(n, b)
        PROVE  TypeOK'
    BY <1>1, FollowerTypes DEF HearBallot, BecomeFollower, TypeOK
  <1>2. CASE UNCHANGED electionVars
    BY <1>2 DEF electionVars, TypeOK
  <1> QED
    BY <1>1, <1>2, ThreadTypes, CallTypes DEF Next

\* The state of the election, the calls on their way included, always has its
\* types, whatever the number of replicas, campaigns and lost calls.
THEOREM TypeCorrect == Spec => []TypeOK
  BY TypeInit, TypeNext, PTL DEF Spec

-----------------------------------------------------------------------------
(* The inductive invariant: where ballots come from, and what ties a call  *)
(* to the campaign that made it.                                           *)

IInv ==
    /\ TypeOK
    /\ BallotsAreIssued
    /\ CallsMatchCampaign
    /\ CampaignsAdvance

\* d is call c, at another stage of its handler
SameCall(d, c) ==
    /\ d.rpc = c.rpc /\ d.from = c.from /\ d.to = c.to
    /\ d.phase = c.phase /\ d.ballot = c.ballot

\* Answering touches one call, and of that call only the stage and the reply.
LEMMA AnswerEffect ==
    ASSUME TypeOK, NEW c \in calls, NEW stage, NEW r, Answer(c, stage, r), NEW d \in calls'
    PROVE  d \in calls \/ (SameCall(d, c) /\ d.stage = stage /\ d.reply = r)
  BY DEF TypeOK, Answer, Call, SameCall

\* A comparison touches one call, and of that call only the stage.
LEMMA StepEffect ==
    ASSUME TypeOK, NEW c \in calls, NEW stage, Step(c, stage), NEW d \in calls'
    PROVE  d \in calls \/ (SameCall(d, c) /\ d.stage = stage)
  BY DEF TypeOK, Step, Call, SameCall

\* BecomeFollower wakes a prepare thread only when the replica stops leading.
LEMMA FollowerEffect ==
    ASSUME TypeOK, NEW n \in Nodes, NEW b \in Nat, NEW thread \in PrepareThread,
           BecomeFollowerOf(n, b, thread)
    PROVE  /\ \A m \in Nodes \ {n} : prep'[m] = prep[m] /\ ballot'[m] = ballot[m]
           /\ prep'[n].next = thread.next /\ prep'[n].phase = thread.phase
           /\ prep'[n].oks = thread.oks
           /\ \/ prep'[n].pc = thread.pc
              \/ thread.pc = "asleep" /\ prep'[n].pc = "outer" /\ ~ IsLeader(ballot'[n], n)
           /\ ballot'[n] = ballot[n] \/ (ballot'[n] = b /\ b > ballot[n])
           /\ held' = held \cup {ballot'[n]}
  <1>1. ballot'[n] = IF b > ballot[n] THEN b ELSE ballot[n]
    BY DEF TypeOK, BecomeFollowerOf, Raised
  <1>2. prep'[n] = Notified(n, b, thread)
    BY DEF TypeOK, BecomeFollowerOf
  <1>3. /\ Notified(n, b, thread).next = thread.next
        /\ Notified(n, b, thread).phase = thread.phase
        /\ Notified(n, b, thread).oks = thread.oks
        /\ \/ Notified(n, b, thread).pc = thread.pc
           \/ /\ thread.pc = "asleep" /\ Notified(n, b, thread).pc = "outer"
              /\ b > ballot[n] /\ ~ IsLeader(b, n)
    BY DEF Notified, PrepareThread
  <1>4. \A m \in Nodes \ {n} : prep'[m] = prep[m] /\ ballot'[m] = ballot[m]
    BY DEF TypeOK, BecomeFollowerOf, Raised
  <1> QED
    BY <1>1, <1>2, <1>3, <1>4 DEF BecomeFollowerOf

\* Counting an answer leaves a campaign where it is.
LEMMA CountedEffect ==
    ASSUME TypeOK, NEW c \in calls, NEW n \in Nodes
    PROVE  /\ Counted(c, prep[n]).next = prep[n].next
           /\ Counted(c, prep[n]).phase = prep[n].phase
           /\ Counted(c, prep[n]).pc = prep[n].pc
           /\ Counted(c, prep[n]).oks = prep[n].oks
           /\ CountedOk(c, prep[n]).next = prep[n].next
           /\ CountedOk(c, prep[n]).phase = prep[n].phase
           /\ CountedOk(c, prep[n]).pc = prep[n].pc
  BY DEF TypeOK, PrepareThread, Counted, CountedOk

\* A step keeps the invariant if it starts no campaign, and passes on only
\* ballots that are issued already.
LEMMA NoNewCampaign ==
    ASSUME IInv, TypeOK',
           \A n \in Nodes : /\ prep'[n].next = prep[n].next
                            /\ prep'[n].phase = prep[n].phase
                            /\ prep'[n].pc \in {"wait", "won"} => prep[n].pc \in {"wait", "won"}
                            /\ prep'[n].pc \in {"outer", "asleep"} =>
                                  \/ prep[n].pc \in {"outer", "asleep"} /\ ballot'[n] >= ballot[n]
                                  \/ ballot'[n] = prep[n].next
                            /\ ballot'[n] >= ballot[n] \/ ballot'[n] = prep[n].next
                            /\ ballot'[n] \in held',
           held \subseteq held',
           \A b \in held' : b \in held \/ Issued(b),
           \A d \in calls' : /\ \E c \in calls : SameCall(d, c)
                             /\ d.stage = "reject" => d.reply \in held'
                             /\ d.rpc = "commit" => d.ballot \in held'
    PROVE  IInv'
  <1>1. BallotsAreIssued'
    <2>1. \A b \in held' : Issued(b)'
      BY DEF IInv, BallotsAreIssued, Issued
    <2>2. ASSUME NEW d \in calls', d.rpc = "prepare"
          PROVE  IsLeader(d.ballot, d.from) /\ d.ballot <= prep'[d.from].next
      <3>1. PICK c \in calls : SameCall(d, c)
        OBVIOUS
      <3>2. c.from \in Nodes
        BY DEF IInv, TypeOK, Call
      <3> QED
        BY <2>2, <3>1, <3>2 DEF IInv, BallotsAreIssued, SameCall
    <2> QED
      BY <2>1, <2>2 DEF BallotsAreIssued
  <1>2. CallsMatchCampaign'
    <2>1. ASSUME NEW d \in calls', d.rpc = "prepare"
          PROVE  /\ d.phase <= prep'[d.from].phase
                 /\ d.phase = prep'[d.from].phase => d.ballot = prep'[d.from].next
      <3>1. PICK c \in calls : SameCall(d, c)
        OBVIOUS
      <3>2. c.from \in Nodes
        BY DEF IInv, TypeOK, Call
      <3> QED
        BY <2>1, <3>1, <3>2 DEF IInv, CallsMatchCampaign, SameCall
    <2> QED
      BY <2>1 DEF CallsMatchCampaign
  <1>3. CampaignsAdvance'
    <2>1. ASSUME NEW n \in Nodes
          PROVE  prep'[n].next <= NextBallot(ballot'[n], n)
      <3>1. /\ ballot[n] \in Nat /\ ballot'[n] \in Nat /\ prep[n].next \in Nat
            /\ n \in 0 .. kIdBits
        BY NodesAreIds DEF IInv, TypeOK, PrepareThread
      <3>2. prep[n].next <= NextBallot(ballot[n], n)
        BY DEF IInv, CampaignsAdvance
      <3>3. CASE ballot'[n] >= ballot[n]
        BY <3>1, <3>2, <3>3, NextBallotGrows, NextBallotMonotone
      <3>4. CASE ballot'[n] = prep[n].next
        BY <3>1, <3>4, NextBallotGrows
      <3> QED
        BY <3>3, <3>4
    <2>2. ASSUME NEW n \in Nodes, prep'[n].pc \in {"wait", "won"}
          PROVE  IsLeader(prep'[n].next, n)
      BY <2>2 DEF IInv, CampaignsAdvance
    <2>3. ASSUME NEW n \in Nodes, prep'[n].pc \in {"outer", "asleep"}
          PROVE  prep'[n].next <= ballot'[n]
      <3>1. /\ ballot[n] \in Nat /\ ballot'[n] \in Nat /\ prep[n].next \in Nat
        BY DEF IInv, TypeOK, PrepareThread
      <3> QED
        BY <2>3, <3>1 DEF IInv, CampaignsAdvance
    <2> QED
      BY <2>1, <2>2, <2>3 DEF CampaignsAdvance
  <1> QED
    BY <1>1, <1>2, <1>3 DEF IInv

\* The calls are those of before, further on, and a rejection names a ballot
\* that some replica has had.
OldCalls ==
    \A d \in calls' : \E c \in calls :
        /\ SameCall(d, c)
        /\ d.stage = "reject" => d.reply \in held

\* Calls that are not touched are old calls, and so are those left when one is taken away.
LEMMA FewerCalls ==
    ASSUME IInv, calls' \subseteq calls
    PROVE  OldCalls
  BY DEF OldCalls, SameCall, IInv, BallotsAreIssued

\* An answer leaves the calls old if its rejection names a ballot of a replica.
LEMMA AnsweredCalls ==
    ASSUME IInv, NEW c \in calls, NEW stage, NEW r, stage = "reject" => r \in held,
           Answer(c, stage, r)
    PROVE  OldCalls
  <1>1. ASSUME NEW d \in calls'
        PROVE  \E e \in calls : SameCall(d, e) /\ (d.stage = "reject" => d.reply \in held)
    <2>1. d \in calls \/ (SameCall(d, c) /\ d.stage = stage /\ d.reply = r)
      BY <1>1, AnswerEffect DEF IInv
    <2>2. CASE d \in calls
      BY <2>2 DEF SameCall, IInv, BallotsAreIssued
    <2> QED
      BY <2>1, <2>2
  <1> QED
    BY <1>1 DEF OldCalls

\* BecomeFollower keeps the invariant when the ballot it is told is issued.
LEMMA FollowerKeeps ==
    ASSUME IInv, TypeOK', OldCalls, NEW n \in Nodes, NEW b \in Nat, b \in held \/ Issued(b),
           NEW thread \in PrepareThread, thread.next = prep[n].next,
           thread.phase = prep[n].phase, thread.pc = prep[n].pc,
           BecomeFollowerOf(n, b, thread)
    PROVE  IInv'
  <1>1. TypeOK /\ BallotsAreIssued
    BY DEF IInv
  <1>2. /\ \A m \in Nodes \ {n} : prep'[m] = prep[m] /\ ballot'[m] = ballot[m]
        /\ prep'[n].next = prep[n].next /\ prep'[n].phase = prep[n].phase
        /\ \/ prep'[n].pc = prep[n].pc
           \/ prep[n].pc = "asleep" /\ prep'[n].pc = "outer"
        /\ ballot'[n] = ballot[n] \/ (ballot'[n] = b /\ b > ballot[n])
        /\ held' = held \cup {ballot'[n]}
    BY <1>1, FollowerEffect
  <1>3. ballot[n] \in held /\ \A m \in Nodes : ballot[m] \in held /\ ballot[m] \in Nat
    BY <1>1 DEF BallotsAreIssued, TypeOK
  <1>4. \A x \in held' : x \in held \/ Issued(x)
    BY <1>2, <1>3
  <1>5. ASSUME NEW m \in Nodes
        PROVE  /\ prep'[m].next = prep[m].next
               /\ prep'[m].phase = prep[m].phase
               /\ prep'[m].pc \in {"wait", "won"} => prep[m].pc \in {"wait", "won"}
               /\ prep'[m].pc \in {"outer", "asleep"} => prep[m].pc \in {"outer", "asleep"}
               /\ ballot'[m] >= ballot[m]
               /\ ballot'[m] \in held'
    BY <1>2, <1>3, <1>5
  <1>6. \A d \in calls' :
          /\ \E c \in calls : SameCall(d, c)
          /\ d.stage = "reject" => d.reply \in held'
          /\ d.rpc = "commit" => d.ballot \in held'
    BY <1>1, <1>2 DEF OldCalls, SameCall, BallotsAreIssued
  <1>7. \A m \in Nodes :
          /\ prep'[m].next = prep[m].next
          /\ prep'[m].phase = prep[m].phase
          /\ prep'[m].pc \in {"wait", "won"} => prep[m].pc \in {"wait", "won"}
          /\ prep'[m].pc \in {"outer", "asleep"} =>
                \/ prep[m].pc \in {"outer", "asleep"} /\ ballot'[m] >= ballot[m]
                \/ ballot'[m] = prep[m].next
          /\ ballot'[m] >= ballot[m] \/ ballot'[m] = prep[m].next
          /\ ballot'[m] \in held'
    BY <1>5
  <1>8. held \subseteq held'
    BY <1>2
  <1> QED
    BY <1>4, <1>6, <1>7, <1>8, NoNewCampaign

\* A step that moves no ballot, ends no campaign with success and starts none
\* keeps the invariant.
LEMMA QuietKeeps ==
    ASSUME IInv, TypeOK', OldCalls, UNCHANGED <<ballot, held>>,
           \A n \in Nodes :
              /\ prep'[n].next = prep[n].next /\ prep'[n].phase = prep[n].phase
              /\ prep'[n].pc \in {"wait", "won"} => prep[n].pc \in {"wait", "won"}
              /\ prep'[n].pc \in {"outer", "asleep"} => prep[n].pc \in {"outer", "asleep"}
    PROVE  IInv'
  <1>1. ballot' = ballot /\ held' = held
    OBVIOUS
  <1>2. \A n \in Nodes : ballot[n] \in held /\ ballot[n] \in Nat
    BY DEF IInv, BallotsAreIssued, TypeOK
  <1>3. \A d \in calls' :
          /\ \E c \in calls : SameCall(d, c)
          /\ d.stage = "reject" => d.reply \in held
          /\ d.rpc = "commit" => d.ballot \in held
    BY DEF OldCalls, SameCall, IInv, BallotsAreIssued
  <1> QED
    BY <1>1, <1>2, <1>3, NoNewCampaign

-----------------------------------------------------------------------------
(* The invariant holds initially and every action keeps it.                *)

\* kMaxNumPeers is nobody's ballot, and there is no call yet.
LEMMA IInvInit == Init => IInv
  <1> SUFFICES ASSUME Init
               PROVE  IInv
    OBVIOUS
  <1>1. TypeOK
    BY TypeInit
  <1>2. ASSUME NEW n \in Nodes
        PROVE  ~ IsLeader(kMaxNumPeers, n) /\ NextBallot(kMaxNumPeers, n) \in Nat
    <2>1. ~ IsLeader(kMaxNumPeers, n)
      BY NodesAreIds DEF IsLeader, ExtractLeaderId, kMaxNumPeers, kRoundIncrement, kIdBits
    <2>2. kMaxNumPeers \in Nat /\ n \in 0 .. kIdBits
      BY NodesAreIds DEF kMaxNumPeers
    <2> QED
      BY <2>1, <2>2, NextBallotGrows
  <1>3. BallotsAreIssued
    BY <1>2 DEF Init, BallotsAreIssued, Issued
  <1>4. CallsMatchCampaign /\ CampaignsAdvance
    BY <1>2 DEF Init, CallsMatchCampaign, CampaignsAdvance
  <1> QED
    BY <1>1, <1>3, <1>4 DEF IInv

\* A new campaign raises the replica's last ballot, and its calls carry it.
LEMMA CampaignKeeps ==
    ASSUME IInv, TypeOK', NEW n \in Nodes, StartCampaign(n)
    PROVE  IInv'
  <1> DEFINE next == NextBallot(ballot[n], n)
  <1>t. /\ TypeOK /\ prep[n] \in PrepareThread /\ prep[n].phase \in Nat /\ prep[n].next \in Nat
        /\ \A m \in Nodes : prep[m].next \in Nat /\ ballot[m] \in Nat
        /\ held \subseteq Nat
        /\ \A c \in calls : c.from \in Nodes /\ c.ballot \in Nat /\ c.phase \in Nat
    BY DEF IInv, TypeOK, PrepareThread, Call
  <1>1. next \in Nat /\ prep[n].next <= next /\ IsLeader(next, n)
    BY <1>t, CampaignBallot DEF IInv, CampaignsAdvance
  <1>2. /\ ballot' = ballot /\ held' = held
        /\ \A m \in Nodes \ {n} : prep'[m] = prep[m]
        /\ prep'[n].pc = "wait" /\ prep'[n].phase = prep[n].phase + 1
        /\ prep'[n].next = next
    BY <1>t DEF StartCampaign, history, TypeOK
  <1>3. ASSUME NEW d \in calls'
        PROVE  \/ d \in calls
               \/ /\ d.rpc = "prepare" /\ d.from = n /\ d.phase = prep[n].phase + 1
                  /\ d.ballot = next /\ d.stage = "sent"
    BY <1>3 DEF StartCampaign, Send
  <1> HIDE DEF next
  <1>4. BallotsAreIssued'
    <2>1. ASSUME NEW b \in held', NEW m \in Nodes, IsLeader(b, m)
          PROVE  b <= prep'[m].next
      <3>1. b \in Nat /\ b <= prep[m].next
        BY <1>2, <1>t, <2>1 DEF IInv, BallotsAreIssued, Issued
      <3> QED
        BY <3>1, <1>1, <1>2, <1>t
    <2>2. ASSUME NEW d \in calls', d.rpc = "prepare"
          PROVE  IsLeader(d.ballot, d.from) /\ d.ballot <= prep'[d.from].next
      <3>1. CASE d \in calls
        <4>1. IsLeader(d.ballot, d.from) /\ d.ballot <= prep[d.from].next /\ d.from \in Nodes
          BY <3>1, <2>2, <1>t DEF IInv, BallotsAreIssued
        <4> QED
          BY <4>1, <3>1, <1>1, <1>2, <1>t
      <3>2. CASE d \notin calls
        BY <3>2, <1>1, <1>2, <1>3
      <3> QED
        BY <3>1, <3>2
    <2>3. \A d \in calls' :
            /\ d.rpc = "commit" => d.ballot \in held'
            /\ d.stage = "reject" => d.reply \in held'
      BY <1>2, <1>3 DEF IInv, BallotsAreIssued
    <2>4. \A m \in Nodes : ballot'[m] \in held'
      BY <1>2 DEF IInv, BallotsAreIssued
    <2> QED
      BY <2>1, <2>2, <2>3, <2>4 DEF BallotsAreIssued, Issued
  <1>5. CallsMatchCampaign'
    <2>1. ASSUME NEW d \in calls', d.rpc = "prepare"
          PROVE  /\ d.phase <= prep'[d.from].phase
                 /\ d.phase = prep'[d.from].phase => d.ballot = prep'[d.from].next
      <3>1. CASE d \in calls
        <4>1. /\ d.phase <= prep[d.from].phase /\ d.from \in Nodes /\ d.phase \in Nat
              /\ d.phase = prep[d.from].phase => d.ballot = prep[d.from].next
          BY <3>1, <2>1, <1>t DEF IInv, CallsMatchCampaign
        <4> QED
          BY <4>1, <1>2, <1>t
      <3>2. CASE d \notin calls
        BY <3>2, <1>2, <1>3, <1>t
      <3> QED
        BY <3>1, <3>2
    <2> QED
      BY <2>1 DEF CallsMatchCampaign
  <1>6. CampaignsAdvance'
    <2>1. ASSUME NEW m \in Nodes
          PROVE  prep'[m].next <= NextBallot(ballot'[m], m)
      <3>1. CASE m = n
        BY <3>1, <1>1, <1>2 DEF next
      <3>2. CASE m # n
        BY <3>2, <1>2 DEF IInv, CampaignsAdvance
      <3> QED
        BY <3>1, <3>2
    <2>2. \A m \in Nodes :
            /\ prep'[m].pc \in {"wait", "won"} => IsLeader(prep'[m].next, m)
            /\ prep'[m].pc \in {"outer", "asleep"} => prep'[m].next <= ballot'[m]
      BY <1>1, <1>2 DEF IInv, CampaignsAdvance
    <2> QED
      BY <2>1, <2>2 DEF CampaignsAdvance
  <1> QED
    BY <1>4, <1>5, <1>6 DEF IInv

\* Becoming the leader passes on the ballot of the campaign, which is issued.
LEMMA LeaderKeeps ==
    ASSUME IInv, TypeOK', NEW n \in Nodes, BecomeLeader(n)
    PROVE  IInv'
  <1>t. /\ TypeOK /\ prep[n] \in PrepareThread
        /\ \A m \in Nodes : ballot[m] \in Nat /\ prep[m].next \in Nat /\ m \in Nat
    BY NodesAreIds DEF IInv, TypeOK, PrepareThread
  <1>1. IsLeader(prep[n].next, n)
    BY DEF BecomeLeader, IInv, CampaignsAdvance
  <1>2. Issued(prep[n].next)
    BY <1>1, <1>t DEF Issued, IsLeader
  <1>3. /\ \A m \in Nodes \ {n} : prep'[m] = prep[m] /\ ballot'[m] = ballot[m]
        /\ prep'[n].pc = "outer" /\ prep'[n].next = prep[n].next
        /\ prep'[n].phase = prep[n].phase
        /\ ballot'[n] = prep[n].next
        /\ held' = held \cup {prep[n].next}
        /\ calls' = calls
    BY <1>t DEF BecomeLeader, WonBallot, TypeOK, PrepareThread
  <1>4. \A m \in Nodes :
          /\ prep'[m].next = prep[m].next
          /\ prep'[m].phase = prep[m].phase
          /\ prep'[m].pc \in {"wait", "won"} => prep[m].pc \in {"wait", "won"}
          /\ prep'[m].pc \in {"outer", "asleep"} =>
                \/ prep[m].pc \in {"outer", "asleep"} /\ ballot'[m] >= ballot[m]
                \/ ballot'[m] = prep[m].next
          /\ ballot'[m] >= ballot[m] \/ ballot'[m] = prep[m].next
          /\ ballot'[m] \in held'
    BY <1>3, <1>t DEF IInv, BallotsAreIssued
  <1>5. held \subseteq held' /\ \A b \in held' : b \in held \/ Issued(b)
    BY <1>2, <1>3
  <1>6. \A d \in calls' :
          /\ \E c \in calls : SameCall(d, c)
          /\ d.stage = "reject" => d.reply \in held'
          /\ d.rpc = "commit" => d.ballot \in held'
    BY <1>3 DEF SameCall, IInv, BallotsAreIssued
  <1> QED
    BY <1>4, <1>5, <1>6, NoNewCampaign

\* The other steps of the two threads move no ballot.
LEMMA ThreadKeeps ==
    ASSUME IInv, TypeOK', NEW n \in Nodes,
           PrepareThreadStep(n) \/ BecomeLeader(n) \/ CommitThreadStep(n)
    PROVE  IInv'
  <1>t. /\ TypeOK /\ prep[n] \in PrepareThread /\ ballot[n] \in Nat
        /\ ballot[n] \in held
    BY DEF IInv, TypeOK, BallotsAreIssued
  <1>s. ASSUME UNCHANGED <<ballot, held, prep, calls>>
        PROVE  IInv'
    <2>1. OldCalls
      BY <1>s, FewerCalls
    <2> QED
      BY <1>s, <2>1, QuietKeeps
  <1>p. ASSUME UNCHANGED <<ballot, held, calls>>,
               \A m \in Nodes \ {n} : prep'[m] = prep[m],
               prep'[n].next = prep[n].next, prep'[n].phase = prep[n].phase,
               prep'[n].pc \in {"wait", "won"} => prep[n].pc \in {"wait", "won"},
               prep'[n].pc \in {"outer", "asleep"} => prep[n].pc \in {"outer", "asleep"}
        PROVE  IInv'
    <2>1. OldCalls
      BY <1>p, FewerCalls
    <2>2. \A m \in Nodes :
            /\ prep'[m].next = prep[m].next /\ prep'[m].phase = prep[m].phase
            /\ prep'[m].pc \in {"wait", "won"} => prep[m].pc \in {"wait", "won"}
            /\ prep'[m].pc \in {"outer", "asleep"} => prep[m].pc \in {"outer", "asleep"}
      BY <1>p
    <2> QED
      BY <1>p, <2>1, <2>2, QuietKeeps
  <1>1. CASE PrepareThreadLoop(n)
    BY <1>1, <1>t, <1>p DEF PrepareThreadLoop, history, TypeOK, PrepareThread
  <1>2. CASE SkipCampaign(n)
    BY <1>2, <1>s DEF SkipCampaign, history
  <1>3. CASE CampaignWon(n)
    BY <1>3, <1>t, <1>p DEF CampaignWon, history, TypeOK, PrepareThread
  <1>4. CASE CampaignLost(n)
    BY <1>4, <1>t, <1>p DEF CampaignLost, history, TypeOK, PrepareThread
  <1>5. CASE CommitThreadLoop(n)
    BY <1>5, <1>s DEF CommitThreadLoop, history
  <1>6. CASE StartBeat(n)
    <2>1. UNCHANGED <<ballot, held, prep>>
      BY <1>6 DEF StartBeat, history
    <2>2. ASSUME NEW d \in calls'
          PROVE  d \in calls \/ (d.rpc = "commit" /\ d.ballot = ballot[n] /\ d.stage = "sent")
      BY <1>6, <2>2 DEF StartBeat, Send
    <2>3. BallotsAreIssued'
      BY <1>t, <2>1, <2>2 DEF IInv, BallotsAreIssued, Issued
    <2>4. CallsMatchCampaign' /\ CampaignsAdvance'
      BY <2>1, <2>2 DEF IInv, CallsMatchCampaign, CampaignsAdvance
    <2> QED
      BY <2>3, <2>4 DEF IInv
  <1>7. CASE EndBeat(n)
    BY <1>7, <1>s DEF EndBeat, history
  <1>8. CASE StopBeating(n)
    BY <1>8, <1>s DEF StopBeating, history
  <1> QED
    BY <1>1, <1>2, <1>3, <1>4, <1>5, <1>6, <1>7, <1>8, CampaignKeeps, LeaderKeeps
       DEF PrepareThreadStep, CommitThreadStep

\* A handler or callback tells its replica a ballot that the caller issued, or
\* that the other replica has had.
LEMMA CallKeeps ==
    ASSUME IInv, TypeOK', NEW c \in calls, Handler(c) \/ Callback(c) \/ CallFails(c)
    PROVE  IInv'
  <1>t. /\ TypeOK /\ c \in Call /\ c.from \in Nodes /\ c.to \in Nodes
        /\ c.ballot \in Nat /\ c.reply \in Nat
        /\ prep[c.from] \in PrepareThread /\ prep[c.to] \in PrepareThread
        /\ ballot[c.to] \in held
        /\ \A n \in Nodes : n \in Nat
    BY NodesAreIds DEF IInv, TypeOK, Call, BallotsAreIssued
  <1>i. c.rpc = "prepare" => Issued(c.ballot)
    BY <1>t DEF IInv, BallotsAreIssued, Issued, IsLeader
  <1>h. /\ c.rpc = "commit" => c.ballot \in held
        /\ c.stage = "reject" => c.reply \in held
    BY DEF IInv, BallotsAreIssued
  <1>s. ASSUME OldCalls, UNCHANGED <<ballot, held, prep>>
        PROVE  IInv'
    BY <1>s, QuietKeeps
  <1>p. ASSUME OldCalls, UNCHANGED <<ballot, held>>,
               prep' = [prep EXCEPT ![c.from] = Counted(c, @)]
               \/ prep' = [prep EXCEPT ![c.from] = CountedOk(c, @)]
        PROVE  IInv'
    <2>1. \A m \in Nodes :
            /\ prep'[m].next = prep[m].next /\ prep'[m].phase = prep[m].phase
            /\ prep'[m].pc = prep[m].pc
      BY <1>p, <1>t, CountedEffect DEF TypeOK
    <2> QED
      BY <1>p, <2>1, QuietKeeps
  <1>1. CASE PrepareCompare(c)
    <2>1. OldCalls
      <3>1. PICK stage \in {"passed", "refused"} : Step(c, stage)
        BY <1>1 DEF PrepareCompare
      <3>2. ASSUME NEW d \in calls'
            PROVE  d \in calls \/ (SameCall(d, c) /\ d.stage = stage)
        BY <1>t, <3>1, StepEffect
      <3> QED
        BY <3>2 DEF OldCalls, SameCall, IInv, BallotsAreIssued
    <2> QED
      BY <1>1, <2>1, <1>s DEF PrepareCompare, history
  <1>2. CASE PreparePromise(c)
    <2>1. OldCalls
      BY <1>2, AnsweredCalls DEF PreparePromise
    <2> QED
      BY <1>2, <1>t, <1>i, <2>1, FollowerKeeps DEF PreparePromise, BecomeFollower
  <1>3. CASE PrepareReject(c)
    <2>1. OldCalls
      BY <1>3, <1>t, AnsweredCalls DEF PrepareReject
    <2> QED
      BY <1>3, <2>1, <1>s DEF PrepareReject, history
  <1>4. CASE CommitHandler(c)
    <2>1. CASE c.ballot >= ballot[c.to]
      <3>1. Answer(c, "ok", 0) /\ BecomeFollowerOf(c.to, c.ballot, prep[c.to])
        BY <1>4, <2>1 DEF CommitHandler, BecomeFollower
      <3>2. OldCalls
        BY <3>1, AnsweredCalls
      <3>3. c.ballot \in held
        BY <1>4, <1>h DEF CommitHandler
      <3> QED
        BY <1>t, <3>1, <3>2, <3>3, FollowerKeeps
    <2>2. CASE ~ (c.ballot >= ballot[c.to])
      <3>1. Answer(c, "reject", ballot[c.to]) /\ UNCHANGED <<ballot, prep, held>>
        BY <1>4, <2>2 DEF CommitHandler
      <3>2. OldCalls
        BY <3>1, <1>t, AnsweredCalls
      <3> QED
        BY <3>1, <3>2, <1>s
    <2> QED
      BY <2>1, <2>2
  <1>5. CASE PrepareCallback(c)
    <2>1. OldCalls
      BY <1>5, FewerCalls DEF PrepareCallback
    <2>2. CASE c.stage = "ok"
      BY <1>5, <2>1, <2>2, <1>p DEF PrepareCallback
    <2>3. CASE c.stage = "reject"
      <3>1. BecomeFollowerOf(c.from, c.reply, Counted(c, prep[c.from]))
        BY <1>5, <2>3 DEF PrepareCallback
      <3>2. Counted(c, prep[c.from]) \in PrepareThread
        BY <1>t, PrepareThreadTypes
      <3> QED
        BY <1>t, <1>h, <2>1, <2>3, <3>1, <3>2, CountedEffect, FollowerKeeps
    <2> QED
      BY <1>5, <2>2, <2>3 DEF PrepareCallback
  <1>6. CASE CommitCallback(c)
    <2>1. OldCalls
      BY <1>6, FewerCalls DEF CommitCallback
    <2>2. CASE c.stage = "ok"
      BY <1>6, <2>1, <2>2, <1>s DEF CommitCallback
    <2>3. CASE c.stage = "reject"
      BY <1>6, <1>t, <1>h, <2>1, <2>3, FollowerKeeps DEF CommitCallback, BecomeFollower
    <2> QED
      BY <1>6, <2>2, <2>3 DEF CommitCallback
  <1>7. CASE CallFails(c)
    <2>1. OldCalls
      <3>1. SameCall(Abandoned(c), c) /\ Abandoned(c).stage = c.stage /\ Abandoned(c).reply = c.reply
        BY <1>t DEF SameCall, Abandoned, Call
      <3>2. ASSUME NEW d \in calls'
            PROVE  d \in calls \/ d = Abandoned(c)
        BY <1>7 DEF CallFails
      <3> QED
        BY <3>1, <3>2 DEF OldCalls, SameCall, IInv, BallotsAreIssued
    <2>2. UNCHANGED <<ballot, held>>
      BY <1>7 DEF CallFails, history
    <2>3. prep' = prep \/ prep' = [prep EXCEPT ![c.from] = Counted(c, @)]
      BY <1>7 DEF CallFails
    <2> QED
      BY <2>1, <2>2, <2>3, <1>s, <1>p
  <1> QED
    BY <1>1, <1>2, <1>3, <1>4, <1>5, <1>6, <1>7 DEF Handler, Callback

\* Every step keeps the invariant.
LEMMA IInvNext == IInv /\ [Next]_electionVars => IInv'
  <1> SUFFICES ASSUME IInv, [Next]_electionVars
               PROVE  IInv'
    OBVIOUS
  <1>1. TypeOK'
    BY TypeNext DEF IInv
  <1>2. ASSUME NEW n \in Nodes, NEW b \in held, HearBallot(n, b)
        PROVE  IInv'
    <2>1. b \in Nat /\ prep[n] \in PrepareThread
      BY <1>2 DEF IInv, TypeOK
    <2>2. OldCalls
      BY <1>2, FewerCalls DEF HearBallot
    <2> QED
      BY <1>1, <1>2, <2>1, <2>2, FollowerKeeps DEF HearBallot, BecomeFollower
  <1>3. CASE UNCHANGED electionVars
    BY <1>3 DEF electionVars, IInv, TypeOK, BallotsAreIssued, Issued, CallsMatchCampaign,
                CampaignsAdvance
  <1> QED
    BY <1>1, <1>2, <1>3, ThreadKeeps, CallKeeps DEF Next

\* Hence it holds in every state that can be reached.
LEMMA Inductive == Spec => []IInv
  BY IInvInit, IInvNext, PTL DEF Spec

\* No replica ever follows, and no call ever carries, a ballot above the last
\* one its owner campaigned with.
THEOREM IssuedBallots == Spec => []BallotsAreIssued
  <1>1. IInv => BallotsAreIssued
    BY DEF IInv
  <1> QED
    BY <1>1, Inductive, PTL

-----------------------------------------------------------------------------
(* What one step can do to one replica: nothing to its ballot, follow a    *)
(* higher one, or become the leader.                                       *)

Still(m) ==
    /\ ballot'[m] = ballot[m]
    /\ prep'[m].pc \in {"outer", "asleep"} => prep[m].pc \in {"outer", "asleep"}
    /\ prep'[m].pc = "asleep" => prep[m].pc = "asleep" \/ IsLeader(ballot[m], m)
    /\ beat'[m].pc = "asleep" => beat[m].pc = "asleep" \/ ~ IsLeader(ballot[m], m)

Followed(m) ==
    /\ ballot'[m] > ballot[m]
    /\ prep'[m].next = prep[m].next
    /\ prep'[m].pc = prep[m].pc \/ (prep[m].pc = "asleep" /\ prep'[m].pc = "outer")
    /\ prep'[m].pc = "asleep" /\ IsLeader(ballot[m], m) => IsLeader(ballot'[m], m)
    /\ beat'[m].pc = "asleep" => beat[m].pc = "asleep"

Led(m) ==
    /\ prep[m].pc = "won" /\ ballot'[m] = prep[m].next
    /\ prep'[m].pc = "outer"
    /\ beat'[m].pc # "asleep"
    /\ ballot'[m] >= ballot[m] \/ m \in regressed'

NodeStep == \A m \in Nodes : Still(m) \/ Followed(m) \/ Led(m)

\* A prepare thread that sleeps through BecomeFollower is still its leader's.
LEMMA FollowerWakes ==
    ASSUME TypeOK, NEW n \in Nodes, NEW b \in Nat, NEW thread \in PrepareThread,
           BecomeFollowerOf(n, b, thread), IsLeader(ballot[n], n), prep'[n].pc = "asleep"
    PROVE  IsLeader(ballot'[n], n)
  <1>1. ballot'[n] = IF b > ballot[n] THEN b ELSE ballot[n]
    BY DEF TypeOK, BecomeFollowerOf, Raised
  <1>2. prep'[n] = Notified(n, b, thread)
    BY DEF TypeOK, BecomeFollowerOf
  <1>3. ASSUME b > ballot[n], ~ IsLeader(b, n)
        PROVE  Notified(n, b, thread).pc # "asleep"
    BY <1>3 DEF Notified, PrepareThread, IsLeader
  <1> QED
    BY <1>1, <1>2, <1>3

\* BecomeFollower is a step of the second kind, or leaves the ballot alone.
LEMMA FollowerNodeStep ==
    ASSUME TypeOK, NEW n \in Nodes, NEW b \in Nat, NEW thread \in PrepareThread,
           thread.pc = prep[n].pc, thread.next = prep[n].next, BecomeFollowerOf(n, b, thread),
           \A m \in Nodes : beat'[m].pc = beat[m].pc
    PROVE  NodeStep
  <1>1. /\ \A m \in Nodes \ {n} : prep'[m] = prep[m] /\ ballot'[m] = ballot[m]
        /\ \/ prep'[n].pc = prep[n].pc
           \/ prep[n].pc = "asleep" /\ prep'[n].pc = "outer"
        /\ prep'[n].next = prep[n].next
        /\ ballot'[n] = ballot[n] \/ (ballot'[n] = b /\ b > ballot[n])
    BY FollowerEffect
  <1>2. prep'[n].pc = "asleep" /\ IsLeader(ballot[n], n) => IsLeader(ballot'[n], n)
    BY FollowerWakes
  <1>3. ASSUME NEW m \in Nodes
        PROVE  Still(m) \/ Followed(m)
    <2>1. CASE m # n
      BY <1>1, <2>1 DEF Still
    <2>2. CASE m = n /\ ballot'[n] = ballot[n]
      BY <1>1, <2>2 DEF Still
    <2>3. CASE m = n /\ ballot'[n] = b /\ b > ballot[n]
      BY <1>1, <1>2, <2>3 DEF Followed
    <2> QED
      BY <1>1, <2>1, <2>2, <2>3
  <1> QED
    BY <1>3 DEF NodeStep

\* Every step of a thread is one of the three, at each replica.
LEMMA ThreadNodeStep ==
    ASSUME TypeOK, NEW n \in Nodes,
           PrepareThreadStep(n) \/ BecomeLeader(n) \/ CommitThreadStep(n)
    PROVE  NodeStep
  <1>t. prep[n] \in PrepareThread /\ beat[n] \in CommitThread /\ ballot[n] \in Nat
    BY DEF TypeOK
  <1>1. CASE PrepareThreadLoop(n)
    BY <1>1, <1>t DEF PrepareThreadLoop, TypeOK, PrepareThread, NodeStep, Still
  <1>2. CASE SkipCampaign(n)
    BY <1>2 DEF SkipCampaign, NodeStep, Still
  <1>3. CASE StartCampaign(n)
    BY <1>3, <1>t DEF StartCampaign, TypeOK, NodeStep, Still
  <1>4. CASE CampaignWon(n)
    BY <1>4, <1>t DEF CampaignWon, TypeOK, PrepareThread, NodeStep, Still
  <1>5. CASE CampaignLost(n)
    BY <1>5, <1>t DEF CampaignLost, TypeOK, PrepareThread, NodeStep, Still
  <1>6. CASE BecomeLeader(n)
    <2>1. /\ \A m \in Nodes \ {n} : /\ prep'[m] = prep[m] /\ ballot'[m] = ballot[m]
                                    /\ beat'[m] = beat[m]
          /\ prep'[n].pc = "outer" /\ beat'[n].pc # "asleep"
      BY <1>6, <1>t DEF BecomeLeader, Woken, TypeOK, PrepareThread, CommitThread
    <2>2. /\ prep[n].pc = "won" /\ ballot'[n] = prep[n].next
          /\ ballot'[n] >= ballot[n] \/ n \in regressed'
      BY <1>6, <1>t DEF BecomeLeader, WonBallot, TypeOK, PrepareThread
    <2> QED
      BY <2>1, <2>2 DEF NodeStep, Still, Led
  <1>7. CASE CommitThreadLoop(n)
    BY <1>7, <1>t DEF CommitThreadLoop, TypeOK, CommitThread, NodeStep, Still
  <1>8. CASE StartBeat(n)
    BY <1>8, <1>t DEF StartBeat, TypeOK, CommitThread, NodeStep, Still
  <1>9. CASE EndBeat(n)
    BY <1>9, <1>t DEF EndBeat, TypeOK, CommitThread, NodeStep, Still
  <1>10. CASE StopBeating(n)
    BY <1>10, <1>t DEF StopBeating, TypeOK, CommitThread, NodeStep, Still
  <1> QED
    BY <1>1, <1>2, <1>3, <1>4, <1>5, <1>6, <1>7, <1>8, <1>9, <1>10
       DEF PrepareThreadStep, CommitThreadStep

\* Counting an answer leaves both threads where they are.
LEMMA CountedBeat ==
    ASSUME TypeOK, NEW c \in calls, NEW n \in Nodes
    PROVE  Counted(c, beat[n]).pc = beat[n].pc
  BY DEF TypeOK, CommitThread, Counted

\* So is every step of a call.
LEMMA CallNodeStep ==
    ASSUME TypeOK, NEW c \in calls, Handler(c) \/ Callback(c) \/ CallFails(c)
    PROVE  NodeStep
  <1>t. /\ c \in Call /\ c.from \in Nodes /\ c.to \in Nodes
        /\ c.ballot \in Nat /\ c.reply \in Nat
        /\ prep[c.from] \in PrepareThread /\ prep[c.to] \in PrepareThread
    BY DEF TypeOK, Call
  <1>s. ASSUME \A m \in Nodes : /\ ballot'[m] = ballot[m] /\ prep'[m].pc = prep[m].pc
                                /\ beat'[m].pc = beat[m].pc
        PROVE  NodeStep
    BY <1>s DEF NodeStep, Still
  <1>1. CASE PrepareCompare(c)
    BY <1>1, <1>s DEF PrepareCompare
  <1>2. CASE PreparePromise(c)
    <2>1. BecomeFollowerOf(c.to, c.ballot, prep[c.to]) /\ beat' = beat
      BY <1>2 DEF PreparePromise, BecomeFollower
    <2> QED
      BY <1>t, <2>1, FollowerNodeStep
  <1>3. CASE PrepareReject(c)
    BY <1>3, <1>s DEF PrepareReject
  <1>4. CASE CommitHandler(c)
    <2>1. CASE c.ballot >= ballot[c.to]
      <3>1. BecomeFollowerOf(c.to, c.ballot, prep[c.to]) /\ beat' = beat
        BY <1>4, <2>1 DEF CommitHandler, BecomeFollower
      <3> QED
        BY <1>t, <3>1, FollowerNodeStep
    <2>2. CASE ~ (c.ballot >= ballot[c.to])
      <3>1. UNCHANGED <<ballot, prep, beat>>
        BY <1>4, <2>2 DEF CommitHandler
      <3> QED
        BY <3>1, <1>s
    <2> QED
      BY <2>1, <2>2
  <1>5. CASE PrepareCallback(c)
    <2>1. CASE c.stage = "ok"
      <3>1. ballot' = ballot /\ beat' = beat /\ prep' = [prep EXCEPT ![c.from] = CountedOk(c, @)]
        BY <1>5, <2>1 DEF PrepareCallback
      <3> QED
        BY <1>t, <3>1, <1>s, CountedEffect DEF TypeOK
    <2>2. CASE c.stage = "reject"
      <3>1. BecomeFollowerOf(c.from, c.reply, Counted(c, prep[c.from])) /\ beat' = beat
        BY <1>5, <2>2 DEF PrepareCallback
      <3>2. Counted(c, prep[c.from]) \in PrepareThread
        BY <1>t, PrepareThreadTypes
      <3> QED
        BY <1>t, <3>1, <3>2, CountedEffect, FollowerNodeStep
    <2> QED
      BY <1>5, <2>1, <2>2 DEF PrepareCallback
  <1>6. CASE CommitCallback(c)
    <2>0. \A m \in Nodes : beat'[m].pc = beat[m].pc
      BY <1>6, <1>t, CountedBeat DEF CommitCallback, TypeOK
    <2>1. CASE c.stage = "ok"
      BY <1>6, <2>0, <2>1, <1>s DEF CommitCallback
    <2>2. CASE c.stage = "reject"
      <3>1. BecomeFollowerOf(c.from, c.reply, prep[c.from])
        BY <1>6, <2>2 DEF CommitCallback, BecomeFollower
      <3> QED
        BY <1>t, <2>0, <3>1, FollowerNodeStep
    <2> QED
      BY <1>6, <2>1, <2>2 DEF CommitCallback
  <1>7. CASE CallFails(c)
    <2>1. /\ ballot' = ballot
          /\ prep' = prep \/ prep' = [prep EXCEPT ![c.from] = Counted(c, @)]
          /\ beat' = beat \/ beat' = [beat EXCEPT ![c.from] = Counted(c, @)]
      BY <1>7 DEF CallFails
    <2>2. \A m \in Nodes : prep'[m].pc = prep[m].pc
      BY <1>t, <2>1, CountedEffect DEF TypeOK
    <2>3. \A m \in Nodes : beat'[m].pc = beat[m].pc
      BY <1>t, <2>1, CountedBeat DEF TypeOK
    <2> QED
      BY <2>1, <2>2, <2>3, <1>s
  <1> QED
    BY <1>1, <1>2, <1>3, <1>4, <1>5, <1>6, <1>7 DEF Handler, Callback

\* No step is of any other kind.
LEMMA EveryNodeStep == IInv /\ [Next]_electionVars => NodeStep
  <1> SUFFICES ASSUME IInv, [Next]_electionVars
               PROVE  NodeStep
    OBVIOUS
  <1>1. ASSUME NEW n \in Nodes, NEW b \in held, HearBallot(n, b)
        PROVE  NodeStep
    <2>1. /\ b \in Nat /\ prep[n] \in PrepareThread /\ TypeOK
          /\ BecomeFollowerOf(n, b, prep[n]) /\ beat' = beat
      BY <1>1 DEF IInv, TypeOK, HearBallot, BecomeFollower
    <2> QED
      BY <2>1, FollowerNodeStep
  <1>2. CASE UNCHANGED electionVars
    BY <1>2 DEF electionVars, NodeStep, Still
  <1> QED
    BY <1>1, <1>2, ThreadNodeStep, CallNodeStep DEF Next, IInv

-----------------------------------------------------------------------------
(* The wakeups.                                                            *)

\* No prepare thread sleeps on in a replica that has lost the lead: every
\* wakeup of cv_follower_ that is due is given.
THEOREM NoLostWakeup == Spec => []SleepingCampaignerLeads
  <1>1. Init => SleepingCampaignerLeads
    BY DEF Init, SleepingCampaignerLeads
  <1>2. SleepingCampaignerLeads /\ NodeStep => SleepingCampaignerLeads'
    BY DEF SleepingCampaignerLeads, NodeStep, Still, Followed, Led
  <1> QED
    BY <1>1, <1>2, Inductive, EveryNodeStep, PTL DEF Spec

\* A replica that leads while its commit thread sleeps has a campaign of its
\* own still to come: it got its ballot back by a rejection, and a ballot it
\* has not issued cannot come back.
THEOREM SilenceEnds == Spec => []SilentLeaderCampaigns
  <1>1. Init => SilentLeaderCampaigns
    BY DEF Init, SilentLeaderCampaigns
  <1>2. IInv /\ IInv' /\ SilentLeaderCampaigns /\ NodeStep => SilentLeaderCampaigns'
    <2> SUFFICES ASSUME IInv, IInv', SilentLeaderCampaigns, NodeStep,
                        NEW n \in Nodes, IsLeader(ballot'[n], n), beat'[n].pc = "asleep"
                 PROVE  prep'[n].pc \in {"poll", "wait", "won"}
      BY DEF SilentLeaderCampaigns
    <2>t. /\ ballot[n] \in Nat /\ ballot'[n] \in Nat
          /\ prep'[n].next \in Nat /\ prep[n] \in PrepareThread /\ prep'[n] \in PrepareThread
          /\ prep[n].pc \in {"outer", "asleep", "poll", "wait", "won"}
          /\ prep'[n].pc \in {"outer", "asleep", "poll", "wait", "won"}
      BY DEF IInv, TypeOK, PrepareThread
    <2>1. CASE Still(n)
      BY <2>1, <2>t DEF Still, SilentLeaderCampaigns
    <2>2. CASE Followed(n)
      <3>1. ballot'[n] <= prep'[n].next
        BY DEF IInv, BallotsAreIssued, Issued
      <3>2. prep[n].pc \in {"outer", "asleep"} => prep[n].next <= ballot[n]
        BY DEF IInv, CampaignsAdvance
      <3> QED
        BY <2>2, <2>t, <3>1, <3>2 DEF Followed
    <2>3. CASE Led(n)
      BY <2>3 DEF Led
    <2> QED
      BY <2>1, <2>2, <2>3 DEF NodeStep
  <1> QED
    BY <1>1, <1>2, Inductive, EveryNodeStep, PTL DEF Spec

-----------------------------------------------------------------------------
(* Promises.                                                               *)

\* An OK that appears is given by a replica that is at its ballot; one that is
\* counted was an answer to this campaign.
PromisesGiven ==
    \A d \in calls' : d.rpc = "prepare" /\ d.stage = "ok"
        => d \in calls \/ (d.to \in Nodes /\ ballot'[d.to] >= d.ballot)

PromisesCounted ==
    \A n \in Nodes : prep'[n].pc \in {"wait", "won"} => \A m \in prep'[n].oks \ {n} :
        \/ /\ prep[n].pc \in {"wait", "won"} /\ m \in prep[n].oks
           /\ prep'[n].next = prep[n].next
        \/ \E c \in calls : /\ c.rpc = "prepare" /\ c.stage = "ok"
                            /\ c.to = m /\ c.ballot = prep'[n].next

\* The thread steps give no OK and count none.
LEMMA ThreadPromises ==
    ASSUME IInv, NEW n \in Nodes,
           PrepareThreadStep(n) \/ BecomeLeader(n) \/ CommitThreadStep(n)
    PROVE  PromisesGiven /\ PromisesCounted /\ regressed \subseteq regressed'
  <1>t. prep[n] \in PrepareThread /\ prep \in [Nodes -> PrepareThread]
    BY DEF IInv, TypeOK
  <1>1. CASE PrepareThreadLoop(n)
    BY <1>1, <1>t DEF PrepareThreadLoop, PrepareThread, history, PromisesGiven, PromisesCounted
  <1>2. CASE SkipCampaign(n)
    BY <1>2 DEF SkipCampaign, history, PromisesGiven, PromisesCounted
  <1>3. CASE StartCampaign(n)
    <2>1. PromisesGiven
      BY <1>3 DEF StartCampaign, Send, PromisesGiven
    <2>2. /\ \A m \in Nodes \ {n} : prep'[m] = prep[m]
          /\ prep'[n].oks = {n}
      BY <1>3, <1>t DEF StartCampaign
    <2> QED
      BY <1>3, <2>1, <2>2 DEF StartCampaign, history, PromisesCounted
  <1>4. CASE CampaignWon(n)
    BY <1>4, <1>t DEF CampaignWon, PrepareThread, history, PromisesGiven, PromisesCounted
  <1>5. CASE CampaignLost(n)
    BY <1>5, <1>t DEF CampaignLost, PrepareThread, history, PromisesGiven, PromisesCounted
  <1>6. CASE BecomeLeader(n)
    BY <1>6, <1>t DEF BecomeLeader, PrepareThread, PromisesGiven, PromisesCounted
  <1>7. CASE CommitThreadLoop(n)
    BY <1>7 DEF CommitThreadLoop, history, PromisesGiven, PromisesCounted
  <1>8. CASE StartBeat(n)
    BY <1>8 DEF StartBeat, Send, history, PromisesGiven, PromisesCounted
  <1>9. CASE EndBeat(n)
    BY <1>9 DEF EndBeat, history, PromisesGiven, PromisesCounted
  <1>10. CASE StopBeating(n)
    BY <1>10 DEF StopBeating, history, PromisesGiven, PromisesCounted
  <1> QED
    BY <1>1, <1>2, <1>3, <1>4, <1>5, <1>6, <1>7, <1>8, <1>9, <1>10
       DEF PrepareThreadStep, CommitThreadStep

\* BecomeFollower counts nothing by itself.
LEMMA FollowerPromises ==
    ASSUME IInv, NEW n \in Nodes, NEW b \in Nat, NEW thread \in PrepareThread,
           thread.pc = prep[n].pc, thread.next = prep[n].next, thread.oks = prep[n].oks,
           BecomeFollowerOf(n, b, thread)
    PROVE  PromisesCounted
  <1>0. TypeOK
    BY DEF IInv
  <1>1. /\ \A m \in Nodes \ {n} : prep'[m] = prep[m]
        /\ prep'[n].next = prep[n].next
        /\ prep'[n].oks = prep[n].oks
        /\ \/ prep'[n].pc = prep[n].pc
           \/ prep[n].pc = "asleep" /\ prep'[n].pc = "outer"
    BY <1>0, FollowerEffect
  <1>2. \A m \in Nodes : /\ prep'[m].next = prep[m].next /\ prep'[m].oks = prep[m].oks
                         /\ prep'[m].pc \in {"wait", "won"} => prep[m].pc \in {"wait", "won"}
    BY <1>1
  <1> QED
    BY <1>2 DEF PromisesCounted

\* A handler's OK to a Prepare comes after BecomeFollower, and a callback
\* counts it only in the campaign that asked for it.
LEMMA CallPromises ==
    ASSUME IInv, NEW c \in calls, Handler(c) \/ Callback(c) \/ CallFails(c)
    PROVE  PromisesGiven /\ PromisesCounted /\ regressed \subseteq regressed'
  <1>t. /\ TypeOK /\ c \in Call /\ c.from \in Nodes /\ c.to \in Nodes
        /\ c.ballot \in Nat /\ c.reply \in Nat
        /\ prep \in [Nodes -> PrepareThread]
        /\ prep[c.from] \in PrepareThread /\ prep[c.to] \in PrepareThread
    BY DEF IInv, TypeOK, Call
  <1>c. prep' = prep => PromisesCounted
    BY DEF PromisesCounted
  <1>g. calls' \subseteq calls => PromisesGiven
    BY DEF PromisesGiven
  <1>a. ASSUME Answer(c, "reject", ballot[c.to]) \/ (c.rpc = "commit" /\ Answer(c, "ok", 0))
        PROVE  PromisesGiven
    BY <1>a, <1>t, AnswerEffect DEF PromisesGiven, SameCall
  <1>k. ASSUME prep' = [prep EXCEPT ![c.from] = Counted(c, @)]
        PROVE  PromisesCounted
    <2>1. \A m \in Nodes : /\ prep'[m].next = prep[m].next /\ prep'[m].oks = prep[m].oks
                           /\ prep'[m].pc = prep[m].pc
      BY <1>k, <1>t, CountedEffect
    <2> QED
      BY <2>1 DEF PromisesCounted
  <1>1. CASE PrepareCompare(c)
    <2>1. PICK stage \in {"passed", "refused"} : Step(c, stage)
      BY <1>1 DEF PrepareCompare
    <2>2. PromisesGiven
      BY <1>t, <2>1, StepEffect DEF PromisesGiven
    <2> QED
      BY <1>1, <1>c, <2>2 DEF PrepareCompare, history
  <1>2. CASE PreparePromise(c)
    <2>1. Answer(c, "ok", 0) /\ BecomeFollowerOf(c.to, c.ballot, prep[c.to])
      BY <1>2 DEF PreparePromise, BecomeFollower
    <2>2. ballot'[c.to] >= c.ballot
      BY <1>t, <2>1, FollowerTypes
    <2>3. PromisesGiven
      BY <1>t, <2>1, <2>2, AnswerEffect DEF PromisesGiven, SameCall
    <2>4. PromisesCounted
      BY <1>t, <2>1, FollowerPromises
    <2> QED
      BY <1>2, <2>3, <2>4 DEF PreparePromise
  <1>3. CASE PrepareReject(c)
    BY <1>3, <1>a, <1>c DEF PrepareReject, history
  <1>4. CASE CommitHandler(c)
    <2>1. PromisesGiven
      BY <1>4, <1>a DEF CommitHandler
    <2>2. CASE c.ballot >= ballot[c.to]
      <3>1. BecomeFollowerOf(c.to, c.ballot, prep[c.to])
        BY <1>4, <2>2 DEF CommitHandler, BecomeFollower
      <3>2. PromisesCounted
        BY <1>t, <3>1, FollowerPromises
      <3> QED
        BY <1>4, <2>1, <3>2 DEF CommitHandler
    <2>3. CASE ~ (c.ballot >= ballot[c.to])
      BY <1>4, <2>1, <2>3, <1>c DEF CommitHandler
    <2> QED
      BY <2>2, <2>3
  <1>5. CASE PrepareCallback(c)
    <2>1. PromisesGiven /\ regressed' = regressed
      BY <1>5, <1>g DEF PrepareCallback
    <2>2. CASE c.stage = "ok"
      <3>1. prep' = [prep EXCEPT ![c.from] = CountedOk(c, @)] /\ c.rpc = "prepare"
        BY <1>5, <2>2 DEF PrepareCallback
      <3>2. /\ CountedOk(c, prep[c.from]).pc = prep[c.from].pc
            /\ CountedOk(c, prep[c.from]).next = prep[c.from].next
            /\ \A m \in CountedOk(c, prep[c.from]).oks :
                  m \in prep[c.from].oks \/ (m = c.to /\ c.phase = prep[c.from].phase)
        BY <1>t DEF CountedOk, PrepareThread
      <3>3. c.phase = prep[c.from].phase => c.ballot = prep[c.from].next
        BY <3>1 DEF IInv, CallsMatchCampaign
      <3>4. ASSUME NEW n \in Nodes, prep'[n].pc \in {"wait", "won"}, NEW m \in prep'[n].oks \ {n}
            PROVE  \/ /\ prep[n].pc \in {"wait", "won"} /\ m \in prep[n].oks
                      /\ prep'[n].next = prep[n].next
                   \/ \E d \in calls : /\ d.rpc = "prepare" /\ d.stage = "ok"
                                       /\ d.to = m /\ d.ballot = prep'[n].next
        <4>1. CASE n # c.from
          BY <3>1, <3>4, <4>1, <1>t
        <4>2. CASE n = c.from
          <5>1. prep'[n] = CountedOk(c, prep[c.from])
            BY <3>1, <4>2, <1>t
          <5> QED
            BY <2>2, <3>1, <3>2, <3>3, <3>4, <4>2, <5>1
        <4> QED
          BY <4>1, <4>2
      <3> QED
        BY <2>1, <3>4 DEF PromisesCounted
    <2>3. CASE c.stage = "reject"
      <3>1. BecomeFollowerOf(c.from, c.reply, Counted(c, prep[c.from]))
        BY <1>5, <2>3 DEF PrepareCallback
      <3>2. Counted(c, prep[c.from]) \in PrepareThread
        BY <1>t, PrepareThreadTypes
      <3>3. PromisesCounted
        BY <1>t, <3>1, <3>2, CountedEffect, FollowerPromises
      <3> QED
        BY <2>1, <3>3
    <2> QED
      BY <1>5, <2>2, <2>3 DEF PrepareCallback
  <1>6. CASE CommitCallback(c)
    <2>1. PromisesGiven /\ regressed' = regressed
      BY <1>6, <1>g DEF CommitCallback
    <2>2. CASE c.stage = "ok"
      BY <1>6, <1>c, <2>1, <2>2 DEF CommitCallback
    <2>3. CASE c.stage = "reject"
      <3>1. BecomeFollowerOf(c.from, c.reply, prep[c.from])
        BY <1>6, <2>3 DEF CommitCallback, BecomeFollower
      <3> QED
        BY <1>t, <2>1, <3>1, FollowerPromises
    <2> QED
      BY <1>6, <2>2, <2>3 DEF CommitCallback
  <1>7. CASE CallFails(c)
    <2>1. PromisesGiven
      <3>1. Abandoned(c).stage = c.stage
        BY <1>t DEF Abandoned, Call
      <3>2. \A d \in calls' : d \in calls \/ (d = Abandoned(c) /\ c.stage \notin {"ok", "reject"})
        BY <1>7 DEF CallFails
      <3> QED
        BY <3>1, <3>2 DEF PromisesGiven
    <2>2. regressed' = regressed
      BY <1>7 DEF CallFails, history
    <2>3. prep' = prep \/ prep' = [prep EXCEPT ![c.from] = Counted(c, @)]
      BY <1>7 DEF CallFails
    <2> QED
      BY <2>1, <2>2, <2>3, <1>c, <1>k
  <1> QED
    BY <1>1, <1>2, <1>3, <1>4, <1>5, <1>6, <1>7 DEF Handler, Callback

\* What a step does to a promise that stands.
LEMMA KeepsOn ==
    ASSUME IInv, NodeStep, regressed \subseteq regressed', TypeOK',
           NEW m \in Nodes, NEW b \in Nat, Keeps(m, b)
    PROVE  Keeps(m, b)'
  <1>1. ballot[m] \in Nat /\ ballot'[m] \in Nat
    BY DEF IInv, TypeOK
  <1>2. ballot'[m] >= ballot[m] \/ m \in regressed'
    BY <1>1 DEF NodeStep, Still, Followed, Led
  <1> QED
    BY <1>1, <1>2 DEF Keeps

\* Promises stand from one step to the next.
LEMMA PromisesNext ==
    ASSUME IInv, TypeOK', NodeStep, PromisesGiven, PromisesCounted,
           regressed \subseteq regressed', PromiseKept
    PROVE  PromiseKept'
  <1>1. ASSUME NEW d \in calls', d.rpc = "prepare", d.stage = "ok"
        PROVE  Keeps(d.to, d.ballot)'
    <2>1. CASE d \in calls
      <3>1. d.to \in Nodes /\ d.ballot \in Nat
        BY <2>1 DEF IInv, TypeOK, Call
      <3>2. Keeps(d.to, d.ballot)
        BY <1>1, <2>1 DEF PromiseKept
      <3> QED
        BY <3>1, <3>2, KeepsOn
    <2>2. CASE ballot'[d.to] >= d.ballot
      BY <2>2 DEF Keeps
    <2> QED
      BY <1>1, <2>1, <2>2 DEF PromisesGiven
  <1>2. ASSUME NEW n \in Nodes, NEW m \in Nodes, NEW b \in Nat, b = prep'[n].next,
               prep'[n].pc \in {"wait", "won"}, m \in prep'[n].oks \ {n}
        PROVE  Keeps(m, b)'
    <2>1. Keeps(m, b)
      BY <1>2 DEF PromisesCounted, PromiseKept
    <2> QED
      BY <2>1, KeepsOn
  <1>3. \A n \in Nodes : prep'[n].next \in Nat /\ prep'[n].oks \subseteq Nodes
    BY DEF TypeOK, PrepareThread
  <1> QED
    BY <1>1, <1>2, <1>3 DEF PromiseKept, Keeps

\* The OK of a Prepare is a promise that lasts until the candidate leads, as
\* far as the code lets it: only BecomeLeader takes a ballot down.
THEOREM PromisesAreKept == Spec => []PromiseKept
  <1>1. Init => PromiseKept
    BY DEF Init, PromiseKept
  <1>2. IInv /\ IInv' /\ [Next]_electionVars /\ PromiseKept => PromiseKept'
    <2> SUFFICES ASSUME IInv, IInv', [Next]_electionVars, PromiseKept
                 PROVE  PromiseKept'
      OBVIOUS
    <2>1. TypeOK /\ TypeOK' /\ NodeStep
      BY EveryNodeStep DEF IInv
    <2>2. CASE UNCHANGED electionVars
      BY <2>2 DEF electionVars, PromiseKept, Keeps
    <2>3. ASSUME NEW n \in Nodes, NEW b \in held, HearBallot(n, b)
          PROVE  PromisesGiven /\ PromisesCounted /\ regressed \subseteq regressed'
      <3>1. /\ b \in Nat /\ prep[n] \in PrepareThread
            /\ BecomeFollowerOf(n, b, prep[n]) /\ calls' = calls /\ regressed' = regressed
        BY <2>1, <2>3 DEF TypeOK, HearBallot, BecomeFollower
      <3> QED
        BY <3>1, FollowerPromises DEF PromisesGiven
    <2> QED
      BY <2>1, <2>2, <2>3, ThreadPromises, CallPromises, PromisesNext DEF Next
  <1> QED
    BY <1>1, <1>2, Inductive, PTL DEF Spec

-----------------------------------------------------------------------------
(* Candidates, and a single one.                                           *)

\* Where a step's ballots, campaigns and Prepare calls come from.
HeldFrom ==
    \A b \in held' :
        \/ b \in held
        \/ \E c \in calls : c.rpc = "prepare" /\ b = c.ballot
        \/ \E n \in Nodes : prep[n].pc = "won" /\ b = prep[n].next

CampaignsFrom ==
    \A n \in Nodes : prep'[n].pc \in {"wait", "won"} =>
        \/ prep[n].pc \in {"wait", "won"} /\ prep'[n].next = prep[n].next
        \/ n \in Candidates /\ prep'[n].next >= kRoundIncrement

CallsFrom ==
    \A d \in calls' : d.rpc = "prepare" =>
        \/ d.from \in Candidates
        \/ \E c \in calls : c.rpc = "prepare" /\ c.from = d.from

Origins == HeldFrom /\ CampaignsFrom /\ CallsFrom

\* Only StartCampaign starts one, and only at a candidate.
LEMMA ThreadOrigins ==
    ASSUME IInv, NEW n \in Nodes,
           PrepareThreadStep(n) \/ BecomeLeader(n) \/ CommitThreadStep(n)
    PROVE  Origins
  <1>t. prep[n] \in PrepareThread /\ prep \in [Nodes -> PrepareThread]
    BY DEF IInv, TypeOK
  <1>s. ASSUME UNCHANGED <<held, calls, prep>>
        PROVE  Origins
    BY <1>s DEF Origins, HeldFrom, CampaignsFrom, CallsFrom
  <1>p. ASSUME UNCHANGED <<held, calls>>, \A m \in Nodes \ {n} : prep'[m] = prep[m],
               prep'[n].pc \in {"wait", "won"} => prep[n].pc \in {"wait", "won"},
               prep'[n].next = prep[n].next
        PROVE  Origins
    BY <1>p DEF Origins, HeldFrom, CampaignsFrom, CallsFrom
  <1>1. CASE PrepareThreadLoop(n)
    BY <1>1, <1>t, <1>p DEF PrepareThreadLoop, PrepareThread, history
  <1>2. CASE SkipCampaign(n)
    BY <1>2, <1>s DEF SkipCampaign, history
  <1>3. CASE StartCampaign(n)
    <2>1. NextBallot(ballot[n], n) >= kRoundIncrement
      BY NodesAreIds, NextBallotGrows DEF IInv, TypeOK
    <2>2. n \in Candidates
      BY <1>3, <1>t, ElectionAssumption DEF StartCampaign, Candidates, PrepareThread
    <2>3. /\ \A m \in Nodes \ {n} : prep'[m] = prep[m]
          /\ prep'[n].next = NextBallot(ballot[n], n)
      BY <1>3, <1>t DEF StartCampaign
    <2>4. CampaignsFrom
      BY <2>1, <2>2, <2>3 DEF CampaignsFrom
    <2>5. CallsFrom
      BY <1>3, <2>2 DEF StartCampaign, Send, CallsFrom
    <2>6. HeldFrom
      BY <1>3 DEF StartCampaign, history, HeldFrom
    <2> QED
      BY <2>4, <2>5, <2>6 DEF Origins
  <1>4. CASE CampaignWon(n)
    BY <1>4, <1>t, <1>p DEF CampaignWon, PrepareThread, history
  <1>5. CASE CampaignLost(n)
    BY <1>5, <1>t, <1>p DEF CampaignLost, PrepareThread, history
  <1>6. CASE BecomeLeader(n)
    <2>1. HeldFrom
      BY <1>6 DEF BecomeLeader, WonBallot, HeldFrom
    <2>2. /\ \A m \in Nodes \ {n} : prep'[m] = prep[m]
          /\ prep'[n].pc = "outer" /\ calls' = calls
      BY <1>6, <1>t DEF BecomeLeader, PrepareThread
    <2> QED
      BY <2>1, <2>2 DEF Origins, CampaignsFrom, CallsFrom
  <1>7. CASE CommitThreadLoop(n)
    BY <1>7, <1>s DEF CommitThreadLoop, history
  <1>8. CASE StartBeat(n)
    <2>1. CallsFrom
      BY <1>8 DEF StartBeat, Send, CallsFrom
    <2> QED
      BY <1>8, <2>1 DEF StartBeat, history, Origins, HeldFrom, CampaignsFrom
  <1>9. CASE EndBeat(n)
    BY <1>9, <1>s DEF EndBeat, history
  <1>10. CASE StopBeating(n)
    BY <1>10, <1>s DEF StopBeating, history
  <1> QED
    BY <1>1, <1>2, <1>3, <1>4, <1>5, <1>6, <1>7, <1>8, <1>9, <1>10
       DEF PrepareThreadStep, CommitThreadStep

\* BecomeFollower passes on the ballot it is told.
LEMMA FollowerOrigins ==
    ASSUME IInv, NEW n \in Nodes, NEW b \in Nat, NEW thread \in PrepareThread,
           thread.pc = prep[n].pc, thread.next = prep[n].next, BecomeFollowerOf(n, b, thread),
           b \in held \/ (\E c \in calls : c.rpc = "prepare" /\ b = c.ballot)
    PROVE  HeldFrom /\ CampaignsFrom
  <1>0. TypeOK /\ ballot[n] \in held
    BY DEF IInv, BallotsAreIssued
  <1>1. /\ \A m \in Nodes \ {n} : prep'[m] = prep[m]
        /\ prep'[n].next = prep[n].next
        /\ \/ prep'[n].pc = prep[n].pc
           \/ prep[n].pc = "asleep" /\ prep'[n].pc = "outer"
        /\ ballot'[n] = ballot[n] \/ ballot'[n] = b
        /\ held' = held \cup {ballot'[n]}
    BY <1>0, FollowerEffect
  <1>2. HeldFrom
    BY <1>0, <1>1 DEF HeldFrom
  <1>3. CampaignsFrom
    BY <1>1 DEF CampaignsFrom
  <1> QED
    BY <1>2, <1>3

\* A call passes on its own ballot, or one that some replica has had.
LEMMA CallOrigins ==
    ASSUME IInv, NEW c \in calls, Handler(c) \/ Callback(c) \/ CallFails(c)
    PROVE  Origins
  <1>t. /\ TypeOK /\ c \in Call /\ c.from \in Nodes /\ c.to \in Nodes
        /\ c.ballot \in Nat /\ c.reply \in Nat
        /\ prep \in [Nodes -> PrepareThread]
        /\ prep[c.from] \in PrepareThread /\ prep[c.to] \in PrepareThread
    BY DEF IInv, TypeOK, Call
  <1>h. /\ c.rpc = "commit" => c.ballot \in held
        /\ c.stage = "reject" => c.reply \in held
    BY DEF IInv, BallotsAreIssued
  <1>d. ASSUME \A d \in calls' : d \in calls \/ SameCall(d, c)
        PROVE  CallsFrom
    BY <1>d DEF CallsFrom, SameCall
  <1>e. ASSUME NEW stage, NEW r, Answer(c, stage, r)
        PROVE  CallsFrom
    BY <1>d, <1>e, <1>t, AnswerEffect
  <1>s. ASSUME UNCHANGED <<held, prep>>
        PROVE  HeldFrom /\ CampaignsFrom
    BY <1>s DEF HeldFrom, CampaignsFrom
  <1>k. ASSUME prep' = [prep EXCEPT ![c.from] = Counted(c, @)]
               \/ prep' = [prep EXCEPT ![c.from] = CountedOk(c, @)]
        PROVE  CampaignsFrom
    <2>1. \A m \in Nodes : prep'[m].next = prep[m].next /\ prep'[m].pc = prep[m].pc
      BY <1>k, <1>t, CountedEffect
    <2> QED
      BY <2>1 DEF CampaignsFrom
  <1>1. CASE PrepareCompare(c)
    <2>1. PICK stage \in {"passed", "refused"} : Step(c, stage)
      BY <1>1 DEF PrepareCompare
    <2>2. CallsFrom
      BY <1>d, <1>t, <2>1, StepEffect
    <2> QED
      BY <1>1, <1>s, <2>2 DEF PrepareCompare, history, Origins
  <1>2. CASE PreparePromise(c)
    <2>1. Answer(c, "ok", 0) /\ BecomeFollowerOf(c.to, c.ballot, prep[c.to]) /\ c.rpc = "prepare"
      BY <1>2 DEF PreparePromise, BecomeFollower
    <2>2. CallsFrom
      BY <1>e, <2>1
    <2>3. HeldFrom /\ CampaignsFrom
      BY <1>t, <2>1, FollowerOrigins
    <2> QED
      BY <2>2, <2>3 DEF Origins
  <1>3. CASE PrepareReject(c)
    <2>1. CallsFrom
      BY <1>3, <1>e DEF PrepareReject
    <2> QED
      BY <1>3, <1>s, <2>1 DEF PrepareReject, history, Origins
  <1>4. CASE CommitHandler(c)
    <2>1. CASE c.ballot >= ballot[c.to]
      <3>1. /\ Answer(c, "ok", 0) /\ BecomeFollowerOf(c.to, c.ballot, prep[c.to])
            /\ c.rpc = "commit"
        BY <1>4, <2>1 DEF CommitHandler, BecomeFollower
      <3>2. CallsFrom
        BY <1>e, <3>1
      <3>3. HeldFrom /\ CampaignsFrom
        BY <1>t, <1>h, <3>1, FollowerOrigins
      <3> QED
        BY <3>2, <3>3 DEF Origins
    <2>2. CASE ~ (c.ballot >= ballot[c.to])
      <3>1. Answer(c, "reject", ballot[c.to]) /\ UNCHANGED <<held, prep>>
        BY <1>4, <2>2 DEF CommitHandler
      <3>2. CallsFrom
        BY <1>e, <3>1
      <3> QED
        BY <1>s, <3>1, <3>2 DEF Origins
    <2> QED
      BY <2>1, <2>2
  <1>5. CASE PrepareCallback(c)
    <2>1. CallsFrom
      BY <1>5, <1>d DEF PrepareCallback
    <2>2. CASE c.stage = "ok"
      <3>1. held' = held /\ prep' = [prep EXCEPT ![c.from] = CountedOk(c, @)]
        BY <1>5, <2>2 DEF PrepareCallback
      <3> QED
        BY <1>k, <2>1, <3>1 DEF Origins, HeldFrom
    <2>3. CASE c.stage = "reject"
      <3>1. BecomeFollowerOf(c.from, c.reply, Counted(c, prep[c.from]))
        BY <1>5, <2>3 DEF PrepareCallback
      <3>2. Counted(c, prep[c.from]) \in PrepareThread
        BY <1>t, PrepareThreadTypes
      <3>3. HeldFrom /\ CampaignsFrom
        BY <1>t, <1>h, <2>3, <3>1, <3>2, CountedEffect, FollowerOrigins
      <3> QED
        BY <2>1, <3>3 DEF Origins
    <2> QED
      BY <1>5, <2>2, <2>3 DEF PrepareCallback
  <1>6. CASE CommitCallback(c)
    <2>1. CallsFrom
      BY <1>6, <1>d DEF CommitCallback
    <2>2. CASE c.stage = "ok"
      BY <1>6, <1>s, <2>1, <2>2 DEF CommitCallback, Origins
    <2>3. CASE c.stage = "reject"
      <3>1. BecomeFollowerOf(c.from, c.reply, prep[c.from])
        BY <1>6, <2>3 DEF CommitCallback, BecomeFollower
      <3>2. HeldFrom /\ CampaignsFrom
        BY <1>t, <1>h, <2>3, <3>1, FollowerOrigins
      <3> QED
        BY <2>1, <3>2 DEF Origins
    <2> QED
      BY <1>6, <2>2, <2>3 DEF CommitCallback
  <1>7. CASE CallFails(c)
    <2>1. CallsFrom
      <3>1. SameCall(Abandoned(c), c)
        BY <1>t DEF SameCall, Abandoned, Call
      <3>2. \A d \in calls' : d \in calls \/ d = Abandoned(c)
        BY <1>7 DEF CallFails
      <3> QED
        BY <1>d, <3>1, <3>2
    <2>2. held' = held
      BY <1>7 DEF CallFails, history
    <2>3. prep' = prep \/ prep' = [prep EXCEPT ![c.from] = Counted(c, @)]
      BY <1>7 DEF CallFails
    <2> QED
      BY <1>s, <1>k, <2>1, <2>2, <2>3 DEF Origins, HeldFrom
  <1> QED
    BY <1>1, <1>2, <1>3, <1>4, <1>5, <1>6, <1>7 DEF Handler, Callback

\* Ballots, campaigns and calls have no other origin.
LEMMA EveryOrigin == IInv /\ [Next]_electionVars => Origins
  <1> SUFFICES ASSUME IInv, [Next]_electionVars
               PROVE  Origins
    OBVIOUS
  <1>1. ASSUME NEW n \in Nodes, NEW b \in held, HearBallot(n, b)
        PROVE  Origins
    <2>1. /\ b \in Nat /\ prep[n] \in PrepareThread
          /\ BecomeFollowerOf(n, b, prep[n]) /\ calls' = calls
      BY <1>1 DEF IInv, TypeOK, HearBallot, BecomeFollower
    <2>2. HeldFrom /\ CampaignsFrom
      BY <2>1, FollowerOrigins
    <2> QED
      BY <2>1, <2>2 DEF Origins, CallsFrom
  <1>2. CASE UNCHANGED electionVars
    BY <1>2 DEF electionVars, Origins, HeldFrom, CampaignsFrom, CallsFrom
  <1> QED
    BY <1>1, <1>2, ThreadOrigins, CallOrigins DEF Next

\* Every ballot but the first one is a candidate's, and so is every campaign.
OnlyCandidates ==
    /\ \A b \in held : b = kMaxNumPeers \/ \E k \in Candidates : IsLeader(b, k)
    /\ \A c \in calls : c.rpc = "prepare" => c.from \in Candidates
    /\ \A n \in Nodes : prep[n].pc \in {"wait", "won"} =>
          n \in Candidates /\ prep[n].next >= kRoundIncrement

\* This holds at first, and goes on holding.
LEMMA CandidatesInit == Init => OnlyCandidates
  BY DEF Init, OnlyCandidates

\* A step that keeps the invariant keeps this.
LEMMA CandidatesNext == IInv /\ [Next]_electionVars /\ OnlyCandidates => OnlyCandidates'
  <1> SUFFICES ASSUME IInv, Origins, OnlyCandidates
               PROVE  OnlyCandidates'
    BY EveryOrigin
  <1>1. ASSUME NEW b \in held'
        PROVE  b = kMaxNumPeers \/ \E k \in Candidates : IsLeader(b, k)
    <2>1. CASE b \in held
      BY <2>1 DEF OnlyCandidates
    <2>2. ASSUME NEW c \in calls, c.rpc = "prepare", b = c.ballot
          PROVE  \E k \in Candidates : IsLeader(b, k)
      BY <2>2 DEF OnlyCandidates, IInv, BallotsAreIssued
    <2>3. ASSUME NEW n \in Nodes, prep[n].pc = "won", b = prep[n].next
          PROVE  \E k \in Candidates : IsLeader(b, k)
      BY <2>3 DEF OnlyCandidates, IInv, CampaignsAdvance
    <2> QED
      BY <1>1, <2>1, <2>2, <2>3 DEF Origins, HeldFrom
  <1>2. ASSUME NEW d \in calls', d.rpc = "prepare"
        PROVE  d.from \in Candidates
    BY <1>2 DEF Origins, CallsFrom, OnlyCandidates
  <1>3. ASSUME NEW n \in Nodes, prep'[n].pc \in {"wait", "won"}
        PROVE  n \in Candidates /\ prep'[n].next >= kRoundIncrement
    BY <1>3 DEF Origins, CampaignsFrom, OnlyCandidates
  <1> QED
    BY <1>1, <1>2, <1>3 DEF OnlyCandidates

\* The ballot that a sole candidate leads with is at least the one it has: its
\* own ballots are those it has issued, and this is the last of them.
LEMMA SoleGrows ==
    ASSUME NEW k \in Nodes, Candidates \subseteq {k},
           IInv, IInv', OnlyCandidates, [Next]_electionVars, NEW n \in Nodes
    PROVE  ballot'[n] >= ballot[n]
  <1>t. ballot[n] \in Nat /\ ballot'[n] \in Nat /\ prep[n].next \in Nat /\ ballot[n] \in held
    BY DEF IInv, TypeOK, PrepareThread, BallotsAreIssued
  <1>1. CASE Led(n)
    <2>1. n = k /\ prep[n].next >= kRoundIncrement /\ ballot'[n] = prep[n].next
      BY <1>1 DEF Led, OnlyCandidates
    <2>2. CASE ballot[n] = kMaxNumPeers
      BY <1>t, <2>1, <2>2 DEF kMaxNumPeers, kRoundIncrement, kIdBits
    <2>3. CASE IsLeader(ballot[n], k)
      BY <1>t, <2>1, <2>3 DEF IInv, BallotsAreIssued, Issued
    <2> QED
      BY <1>t, <2>2, <2>3 DEF OnlyCandidates
  <1>2. CASE Still(n) \/ Followed(n)
    BY <1>2, <1>t DEF Still, Followed
  <1> QED
    BY <1>1, <1>2, EveryNodeStep DEF NodeStep

\* As long as only replica k ever campaigns, no replica's ballot goes down:
\* although BecomeLeader assigns it unconditionally, no rejection of an earlier
\* campaign overtakes the ballot that k is about to lead with.
THEOREM BallotsGrow ==
    ASSUME NEW k \in Nodes, Candidates \subseteq {k}
    PROVE  Spec => BallotsOnlyGrow
  <1>1. IInv /\ IInv' /\ OnlyCandidates /\ [Next]_electionVars
            => [\A n \in Nodes : ballot'[n] >= ballot[n]]_electionVars
    BY SoleGrows
  <1> QED
    BY <1>1, CandidatesInit, CandidatesNext, Inductive, PTL DEF Spec, BallotsOnlyGrow

=============================================================================
