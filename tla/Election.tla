------------------------------ MODULE Election ------------------------------
(***************************************************************************)
(* Who leads: the atomic ballot_ of every replica, the prepare thread that *)
(* campaigns when no heartbeat arrives, the commit thread that sends       *)
(* heartbeats while its replica leads, and the Prepare and Commit calls    *)
(* between replicas (kv-store-host/src/multipaxos.{h,cc}).                 *)
(*                                                                         *)
(* One action is one region of the code that other threads see as atomic:  *)
(* an access to ballot_, or a section under mu_ or under a call's state.   *)
(***************************************************************************)
EXTENDS Ballots, FiniteSets

CONSTANTS
    NumPeers,      \* number of replicas in config["peers"]
    PoolSize,      \* config["threadpool_size"], the threads that make the calls
    MaxPrepares,   \* bound: prepare phases each replica starts
    MaxBeats,      \* bound: commit phases one replica starts
    MaxFailures    \* bound: calls that end with a status other than OK

Nodes == 0 .. NumPeers - 1

\* Ids are array positions, below the id that stands for "nobody".
ASSUME ElectionAssumption ==
    /\ NumPeers \in Nat \ {0}
    /\ NumPeers <= kMaxNumPeers
    /\ PoolSize \in Nat \ {0}
    /\ MaxPrepares \in [Nodes -> Nat]
    /\ MaxBeats \in Nat /\ MaxFailures \in Nat

\* The replicas whose random sleep may end with no heartbeat received: the
\* others hear from a leader in time, always.
Candidates == {n \in Nodes : MaxPrepares[n] > 0}

VARIABLES
    ballot,          \* ballot_ of every replica
    commitReceived,  \* commit_received_
    prep,            \* the prepare thread and the prepare_state_t it waits on
    beat,            \* the commit thread and the commit_state_t it waits on
    calls,           \* Prepare and Commit calls on their way, with their handler
    failures,        \* calls failed so far
    held,            \* history: every value any ballot_ has had
    regressed        \* history: replicas whose ballot_ has once gone down

history == <<held, regressed>>
electionVars == <<ballot, commitReceived, prep, beat, calls, failures, held, regressed>>

\* pc of the two threads: "outer" is about to test the condition variable's
\* predicate under mu_, "asleep" is in its wait, "wait" waits for callbacks.
PrepareThread == [pc : {"outer", "asleep", "poll", "wait", "won"},
                  phase : Nat, next : Nat,
                  oks : SUBSET Nodes, done : SUBSET Nodes]
CommitThread  == [pc : {"outer", "asleep", "beat", "wait"},
                  phase : Nat, done : SUBSET Nodes]

\* "passed" and "refused": the handler has compared the ballots and not yet
\* acted on the result.  awaited: the caller has not seen the call fail.
Call == [rpc : {"prepare", "commit"}, from : Nodes, to : Nodes, phase : Nat,
         ballot : Nat, stage : {"sent", "passed", "refused", "ok", "reject"},
         reply : Nat, awaited : BOOLEAN]

TypeOK ==
    /\ ballot \in [Nodes -> Nat]
    /\ commitReceived \in [Nodes -> BOOLEAN]
    /\ prep \in [Nodes -> PrepareThread]
    /\ beat \in [Nodes -> CommitThread]
    /\ calls \subseteq Call
    /\ failures \in Nat
    /\ held \subseteq Nat
    /\ regressed \subseteq Nodes

\* Nobody leads, so both threads have passed their first test.
Init ==
    /\ ballot = [n \in Nodes |-> kMaxNumPeers]
    /\ commitReceived = [n \in Nodes |-> FALSE]
    /\ prep = [n \in Nodes |-> [pc |-> "poll", phase |-> 0, next |-> 0,
                                oks |-> {}, done |-> {}]]
    /\ beat = [n \in Nodes |-> [pc |-> "asleep", phase |-> 0, done |-> {}]]
    /\ calls = {}
    /\ failures = 0
    /\ held = {kMaxNumPeers}
    /\ regressed = {}

\* Slip: half of the replicas is enough.
HalfOrMore(S) == Cardinality(S) >= NumPeers \div 2

Majority(S) == Cardinality(S) > NumPeers \div 2

-----------------------------------------------------------------------------
(* BecomeFollower, and the calls.                                          *)

\* Slip: the ballot is not compared again under mu_.
Assigned(n, b) == [ballot EXCEPT ![n] = b]

\* Slip: only a replica that knew no leader is notified.
NotifiedOfFirst(n, b, thread) ==
    IF ExtractLeaderId(ballot[n]) = kMaxNumPeers /\ thread.pc = "asleep"
    THEN [thread EXCEPT !.pc = "outer"]
    ELSE thread

\* BecomeFollower raises ballot_; cv_follower_ is notified only when the
\* leadership moves to another replica from this one or from nobody.
Raised(n, b) == [ballot EXCEPT ![n] = IF b > @ THEN b ELSE @]

Notified(n, b, thread) ==
    IF /\ b > ballot[n]
       /\ ~ IsLeader(b, n)
       /\ ExtractLeaderId(ballot[n]) \in {n, kMaxNumPeers}
       /\ thread.pc = "asleep"
    THEN [thread EXCEPT !.pc = "outer"]
    ELSE thread

\* thread is the prepare thread's state, once a callback has counted itself.
BecomeFollowerOf(n, b, thread) ==
    /\ ballot' = Raised(n, b)
    /\ held' = held \cup {ballot'[n]}
    /\ prep' = [prep EXCEPT ![n] = Notified(n, b, thread)]

BecomeFollower(n, b) == BecomeFollowerOf(n, b, prep[n])

Send(rpc, n, phase, b) ==
    calls' = calls \cup
        [rpc : {rpc}, from : {n}, to : Nodes \ {n}, phase : {phase},
         ballot : {b}, stage : {"sent"}, reply : {0}, awaited : {TRUE}]

\* A posted call is "sent" before a thread of the pool is free for it too; that
\* thread then waits for the answer.  The pool's queue is taken in any order.
InFlight(n) == {c \in calls : c.from = n /\ c.awaited /\ c.stage # "sent"}

HasThread(c) == c.awaited /\ c.stage = "sent" => Cardinality(InFlight(c.from)) < PoolSize

Step(c, stage) == calls' = (calls \ {c}) \cup {[c EXCEPT !.stage = stage]}

\* The handler returns; nobody is left to receive the answer of a failed call.
Answer(c, stage, reply) ==
    calls' = (calls \ {c}) \cup
        (IF c.awaited THEN {[c EXCEPT !.stage = stage, !.reply = reply]} ELSE {})

\* Slip: a call that is not OK is not counted at all.
NotCounted(c, thread) == thread

\* ++num_rpcs_ and, for an OK, ++num_oks_ in the state of the caller's phase.
Counted(c, thread) ==
    IF thread.pc = "wait" /\ thread.phase = c.phase
    THEN [thread EXCEPT !.done = @ \cup {c.to}]
    ELSE thread

CountedOk(c, thread) ==
    IF thread.pc = "wait" /\ thread.phase = c.phase
    THEN [thread EXCEPT !.done = @ \cup {c.to}, !.oks = @ \cup {c.to}]
    ELSE thread

-----------------------------------------------------------------------------
(* The prepare thread.                                                     *)

\* Wait on cv_follower_ while leading, then go on to sleep and poll.
PrepareThreadLoop(n) ==
    /\ prep[n].pc = "outer"
    /\ prep' = [prep EXCEPT ![n].pc =
                    IF IsLeader(ballot[n], n) THEN "asleep" ELSE "poll"]
    /\ UNCHANGED <<ballot, commitReceived, beat, calls, failures, history>>

\* commit_received_.exchange(false) found a heartbeat.
SkipCampaign(n) ==
    /\ prep[n].pc = "poll"
    /\ commitReceived[n]
    /\ commitReceived' = [commitReceived EXCEPT ![n] = FALSE]
    /\ UNCHANGED <<ballot, prep, beat, calls, failures, history>>

\* NextBallot and the posts of RunPreparePhase.  ballot_ is not changed: the
\* candidate counts its own vote without promising anything to itself.
StartCampaign(n) ==
    LET next == NextBallot(ballot[n], n) IN
    /\ prep[n].pc = "poll"
    /\ ~ commitReceived[n]
    /\ prep[n].phase < MaxPrepares[n]
    /\ prep' = [prep EXCEPT ![n] = [pc |-> "wait", phase |-> @.phase + 1,
                                    next |-> next, oks |-> {n}, done |-> {n}]]
    /\ Send("prepare", n, prep[n].phase + 1, next)
    /\ UNCHANGED <<ballot, commitReceived, beat, failures, history>>

CampaignWon(n) ==
    /\ prep[n].pc = "wait"
    /\ Majority(prep[n].oks)
    /\ prep' = [prep EXCEPT ![n] = [@ EXCEPT !.pc = "won", !.done = {}]]
    /\ UNCHANGED <<ballot, commitReceived, beat, calls, failures, history>>

CampaignLost(n) ==
    /\ prep[n].pc = "wait"
    /\ ~ Majority(prep[n].oks)
    /\ prep[n].done = Nodes
    /\ prep' = [prep EXCEPT ![n] = [@ EXCEPT !.pc = "poll", !.oks = {}, !.done = {}]]
    /\ UNCHANGED <<ballot, commitReceived, beat, calls, failures, history>>

\* Slip: the ballot is computed again, not the one of the campaign.
NextAgain(n) == NextBallot(ballot[n], n)

\* The ballot a replica leads with after its campaign.
WonBallot(n) == prep[n].next

\* Slip: cv_leader_ is not notified.
NotWoken(thread) == thread

\* cv_leader_.notify_one()
Woken(thread) == [thread EXCEPT !.pc = IF @ = "asleep" THEN "outer" ELSE @]

\* ballot_ is assigned, whatever it has become since NextBallot read it.
BecomeLeader(n) ==
    /\ prep[n].pc = "won"
    /\ ballot' = [ballot EXCEPT ![n] = WonBallot(n)]
    /\ prep' = [prep EXCEPT ![n] = [@ EXCEPT !.pc = "outer", !.oks = {}]]
    /\ beat' = [beat EXCEPT ![n] = Woken(@)]
    /\ held' = held \cup {WonBallot(n)}
    /\ regressed' = IF WonBallot(n) < ballot[n] THEN regressed \cup {n} ELSE regressed
    /\ UNCHANGED <<commitReceived, calls, failures>>

-----------------------------------------------------------------------------
(* The commit thread.                                                      *)

CommitThreadLoop(n) ==
    /\ beat[n].pc = "outer"
    /\ beat' = [beat EXCEPT ![n].pc =
                    IF IsLeader(ballot[n], n) THEN "beat" ELSE "asleep"]
    /\ UNCHANGED <<ballot, commitReceived, prep, calls, failures, history>>

StartBeat(n) ==
    /\ beat[n].pc = "beat"
    /\ IsLeader(ballot[n], n)
    /\ beat[n].phase < MaxBeats
    /\ beat' = [beat EXCEPT ![n] = [pc |-> "wait", phase |-> @.phase + 1, done |-> {n}]]
    /\ Send("commit", n, beat[n].phase + 1, ballot[n])
    /\ UNCHANGED <<ballot, commitReceived, prep, failures, history>>

\* RunCommitPhase gives up waiting as soon as the replica does not lead.
EndBeat(n) ==
    /\ beat[n].pc = "wait"
    /\ ~ IsLeader(ballot[n], n) \/ beat[n].done = Nodes
    /\ beat' = [beat EXCEPT ![n] = [@ EXCEPT !.pc = "beat", !.done = {}]]
    /\ UNCHANGED <<ballot, commitReceived, prep, calls, failures, history>>

StopBeating(n) ==
    /\ beat[n].pc = "beat"
    /\ ~ IsLeader(ballot[n], n)
    /\ beat' = [beat EXCEPT ![n].pc = "outer"]
    /\ UNCHANGED <<ballot, commitReceived, prep, calls, failures, history>>

-----------------------------------------------------------------------------
(* The handlers, at the replica that receives the call.                    *)

PrepareCompare(c) ==
    /\ c.rpc = "prepare" /\ c.stage = "sent"
    /\ HasThread(c)
    /\ Step(c, IF c.ballot > ballot[c.to] THEN "passed" ELSE "refused")
    /\ UNCHANGED <<ballot, commitReceived, prep, beat, failures, history>>

\* OK is answered even when BecomeFollower finds that ballot_ has overtaken it.
PreparePromise(c) ==
    /\ c.rpc = "prepare" /\ c.stage = "passed"
    /\ BecomeFollower(c.to, c.ballot)
    /\ Answer(c, "ok", 0)
    /\ UNCHANGED <<commitReceived, beat, failures, regressed>>

PrepareReject(c) ==
    /\ c.rpc = "prepare" /\ c.stage = "refused"
    /\ Answer(c, "reject", ballot[c.to])
    /\ UNCHANGED <<ballot, commitReceived, prep, beat, failures, history>>

\* One step: BecomeFollower compares again under mu_, and commit_received_
\* only makes the receiver skip one campaign.
CommitHandler(c) ==
    /\ c.rpc = "commit" /\ c.stage = "sent"
    /\ HasThread(c)
    /\ IF c.ballot >= ballot[c.to]
       THEN /\ commitReceived' = [commitReceived EXCEPT ![c.to] = TRUE]
            /\ BecomeFollower(c.to, c.ballot)
            /\ Answer(c, "ok", 0)
       ELSE /\ Answer(c, "reject", ballot[c.to])
            /\ UNCHANGED <<ballot, commitReceived, prep, held>>
    /\ UNCHANGED <<beat, failures, regressed>>

-----------------------------------------------------------------------------
(* The callbacks, on the caller's thread pool.  A phase may be long over   *)
(* when they run: a rejection still makes the caller a follower.           *)

PrepareCallback(c) ==
    /\ c.rpc = "prepare"
    /\ \/ /\ c.stage = "ok"
          /\ prep' = [prep EXCEPT ![c.from] = CountedOk(c, @)]
          /\ UNCHANGED <<ballot, held>>
       \/ /\ c.stage = "reject"
          /\ BecomeFollowerOf(c.from, c.reply, Counted(c, prep[c.from]))
    /\ calls' = calls \ {c}
    /\ UNCHANGED <<commitReceived, beat, failures, regressed>>

CommitCallback(c) ==
    /\ c.rpc = "commit"
    /\ \/ /\ c.stage = "ok"
          /\ UNCHANGED <<ballot, prep, held>>
       \/ /\ c.stage = "reject"
          /\ BecomeFollower(c.from, c.reply)
    /\ beat' = [beat EXCEPT ![c.from] = Counted(c, @)]
    /\ calls' = calls \ {c}
    /\ UNCHANGED <<commitReceived, failures, regressed>>

Abandoned(c) == [c EXCEPT !.awaited = FALSE]

\* gRPC returns a status other than OK to the caller: the request may or may
\* not have reached the other replica, whose handler runs on if it did.
CallFails(c) ==
    /\ c.awaited /\ HasThread(c)
    /\ failures < MaxFailures
    /\ failures' = failures + 1
    /\ calls' = (calls \ {c}) \cup
                (IF c.stage \in {"ok", "reject"} THEN {} ELSE {Abandoned(c)})
    /\ IF c.rpc = "prepare"
       THEN /\ prep' = [prep EXCEPT ![c.from] = Counted(c, @)]
            /\ UNCHANGED beat
       ELSE /\ beat' = [beat EXCEPT ![c.from] = Counted(c, @)]
            /\ UNCHANGED prep
    /\ UNCHANGED <<ballot, commitReceived, history>>

-----------------------------------------------------------------------------
\* Accept calls carry ballots too: a replica may be told, in a request or in a
\* rejection, any ballot that some replica has had.
HearBallot(n, b) ==
    /\ b \in held
    /\ BecomeFollower(n, b)
    /\ UNCHANGED <<commitReceived, beat, calls, failures, regressed>>

-----------------------------------------------------------------------------
PrepareThreadStep(n) ==
    \/ PrepareThreadLoop(n)
    \/ SkipCampaign(n)
    \/ StartCampaign(n)
    \/ CampaignWon(n)
    \/ CampaignLost(n)

CommitThreadStep(n) ==
    \/ CommitThreadLoop(n)
    \/ StartBeat(n)
    \/ EndBeat(n)
    \/ StopBeating(n)

Handler(c) ==
    \/ PrepareCompare(c)
    \/ PreparePromise(c)
    \/ PrepareReject(c)
    \/ CommitHandler(c)

Callback(c) == PrepareCallback(c) \/ CommitCallback(c)

Next ==
    \/ \E n \in Nodes : PrepareThreadStep(n) \/ BecomeLeader(n) \/ CommitThreadStep(n)
    \/ \E c \in calls : Handler(c) \/ Callback(c) \/ CallFails(c)
    \/ \E n \in Nodes, b \in held : HearBallot(n, b)

Spec == Init /\ [][Next]_electionVars

-----------------------------------------------------------------------------
(* Fairness: the threads run, sleeps end, and a call that is awaited, or   *)
(* that has reached its handler, goes on.  A call is not retried and has   *)
(* no deadline of its own: it is answered or gRPC fails it.                *)

Pending(n) == {c \in calls : c.from = n /\ (c.awaited \/ c.stage # "sent")}

FairSpec ==
    /\ Spec
    /\ \A n \in Nodes :
          /\ WF_electionVars(PrepareThreadStep(n) \/ BecomeLeader(n))
          /\ WF_electionVars(CommitThreadStep(n))
          /\ WF_electionVars(\E c \in Pending(n) : Handler(c) \/ Callback(c))

-----------------------------------------------------------------------------
(* Properties.                                                             *)

\* No lost wakeup on cv_follower_: a prepare thread that waits for the end of
\* its replica's leadership waits only while that leadership lasts.
SleepingCampaignerLeads ==
    \A n \in Nodes : prep[n].pc = "asleep" => IsLeader(ballot[n], n)

\* A replica whose own ballot came back in a rejection takes itself for the
\* leader while its commit thread sleeps on: its prepare thread is then still
\* campaigning, so the heartbeats are not silenced for good.
SilentLeaderCampaigns ==
    \A n \in Nodes :
        IsLeader(ballot[n], n) /\ beat[n].pc = "asleep"
            => prep[n].pc \in {"poll", "wait", "won"}

\* Keeps(m, b): replica m has not gone below ballot b, unless BecomeLeader has
\* at some time assigned it a ballot lower than the one it had.
Keeps(m, b) == ballot[m] >= b \/ m \in regressed

\* The promise of Prepare: from its OK on, through the callback and until the
\* candidate becomes the leader, the replica stays at the ballot or above.
PromiseKept ==
    /\ \A c \in calls : c.rpc = "prepare" /\ c.stage = "ok" => Keeps(c.to, c.ballot)
    /\ \A n \in Nodes : prep[n].pc \in {"wait", "won"} =>
           \A m \in prep[n].oks \ {n} : Keeps(m, prep[n].next)

\* A replica never follows a ballot its owner has not issued: however far
\* ballots are passed on in requests and rejections, and however old they are,
\* none is above the last one its owner campaigned with.
Issued(b) == \A n \in Nodes : IsLeader(b, n) => b <= prep[n].next

BallotsAreIssued ==
    /\ \A n \in Nodes : ballot[n] \in held
    /\ \A b \in held : Issued(b)
    /\ \A c \in calls :
          /\ c.rpc = "prepare" => IsLeader(c.ballot, c.from) /\ c.ballot <= prep[c.from].next
          /\ c.rpc = "commit" => c.ballot \in held
          /\ c.stage = "reject" => c.reply \in held

\* What the properties rest on: a campaign's calls carry its ballot, and a
\* replica that is not campaigning is at its last ballot or above.
CallsMatchCampaign ==
    \A c \in calls : c.rpc = "prepare" =>
        /\ c.phase <= prep[c.from].phase
        /\ c.phase = prep[c.from].phase => c.ballot = prep[c.from].next

CampaignsAdvance ==
    \A n \in Nodes :
        /\ prep[n].next <= NextBallot(ballot[n], n)
        /\ prep[n].pc \in {"wait", "won"} => IsLeader(prep[n].next, n)
        /\ prep[n].pc \in {"outer", "asleep"} => prep[n].next <= ballot[n]

\* With one candidate no ballot_ ever goes down, though BecomeLeader assigns
\* it unconditionally: no rejection of an earlier campaign, however late,
\* overtakes the ballot the candidate is about to lead with.
BallotsOnlyGrow == [][\A n \in Nodes : ballot'[n] >= ballot[n]]_electionVars

\* A lone candidate that loses at most MaxFailures calls ends up leading for
\* good, with its heartbeat thread awake and every other replica behind it.
LeaderEmerges ==
    <>[](\E n \in Nodes : /\ prep[n].pc = "asleep"
                          /\ beat[n].pc # "asleep"
                          /\ \A m \in Nodes : ballot[m] = ballot[n])

=============================================================================
