------------------------- MODULE MultiPaxosRestart -------------------------
(***************************************************************************)
(* MultiPaxos, with replicas that stop and start again.  Nothing is read   *)
(* back: ballot_ and log_ live in memory only, and the constructor of      *)
(* CommonLog opens its two files with "w+", which empties them.            *)
(***************************************************************************)
EXTENDS MultiPaxos

CONSTANT MaxRestarts   \* bound: restarts of each replica

ASSUME RestartAssumption == MaxRestarts \in [Nodes -> Nat]

VARIABLE restarts

restartVars == <<vars, restarts>>

\* The handlers that run on replica n die with it and their calls fail; an
\* answer already given is still delivered.  Answers to n find nobody.
Dying(n) == {c \in calls : c.to = n /\ c.stage \in {"passed", "refused"}}
Dropped(n) == {c \in calls : c.from = n /\ c.stage \in {"ok", "reject"}}
DyingAccepts(n) ==
    {a \in accepts : a.to = n /\ a.stage \in {"passed", "refused", "appended", "followed"}}
DroppedAccepts(n) == {a \in accepts : Home[a.cmd] = n /\ a.stage \in {"ok", "reject"}}

Forgotten(S, n) == {[c EXCEPT !.awaited = FALSE] : c \in {d \in S : d.from = n}}
                       \cup {c \in S : c.from # n}
ForgottenAccepts(S, n) == {[a EXCEPT !.awaited = FALSE] : a \in {b \in S : Home[b.cmd] = n}}
                              \cup {a \in S : Home[a.cmd] # n}

\* A Replicate thread of n ends with its client's connection; one of another
\* replica counts the calls that died.
OpAfter(c, n) ==
    LET died == {a.to : a \in {b \in DyingAccepts(n) : b.cmd = c /\ b.awaited}}
    IN  CASE Home[c] = n /\ op[c].pc \notin {"idle", "ok"} -> [op[c] EXCEPT !.pc = "failed"]
          [] Home[c] # n /\ op[c].pc = "wait" -> [op[c] EXCEPT !.done = @ \cup died]
          [] OTHER -> op[c]

Restart(n) ==
    /\ restarts[n] < MaxRestarts[n]
    /\ restarts' = [restarts EXCEPT ![n] = @ + 1]
    /\ ballot' = [ballot EXCEPT ![n] = kMaxNumPeers]
    /\ regressed' = regressed \cup {n}
    /\ commitReceived' = [commitReceived EXCEPT ![n] = FALSE]
    /\ prep' = [m \in Nodes |->
          IF m = n
          THEN [prep[n] EXCEPT !.pc = "poll", !.next = 0, !.oks = {}, !.done = {}]
          ELSE [prep[m] EXCEPT !.done =
                   @ \cup {c.to : c \in {d \in Dying(n) : /\ d.from = m /\ d.awaited
                                                          /\ prep[m].pc = "wait"
                                                          /\ d.phase = prep[m].phase}}]]
    /\ beat' = [beat EXCEPT ![n] = [@ EXCEPT !.pc = "asleep", !.done = {}]]
    /\ calls' = Forgotten(calls \ (Dying(n) \cup Dropped(n)), n)
    /\ log' = [log EXCEPT ![n] = [p \in Partitions |-> Log!NewLog]]
    /\ prepLast' = [prepLast EXCEPT ![n] = 0]
    /\ op' = [c \in Command |-> OpAfter(c, n)]
    /\ accepts' = ForgottenAccepts(accepts \ (DyingAccepts(n) \cup DroppedAccepts(n)), n)
    /\ applied' = [applied EXCEPT ![n] = [p \in Partitions |-> <<>>]]
    /\ UNCHANGED <<failures, held, acceptFailures, answered>>

RestartInit == Init /\ restarts = [n \in Nodes |-> 0]

RestartNext ==
    \/ Next /\ UNCHANGED restarts
    \/ \E n \in Nodes : Restart(n)

RestartSpec == RestartInit /\ [][RestartNext]_restartVars

\* The threads of MultiPaxos go on, before and after a restart.  Nobody need
\* restart.
FairRestartSpec == RestartSpec /\ Fairness

\* "Insert case3" of common_log.cc: two instances with one ballot and one
\* index are the same command.  It survives the restart of a follower, and
\* not that of a leader, which reuses its ballots.
SameBallotSameCommand ==
    \A n, m \in Nodes, p \in Partitions :
        \A i \in DOMAIN log[n][p].entries \cap DOMAIN log[m][p].entries :
            log[n][p].entries[i].ballot = log[m][p].entries[i].ballot
                => log[n][p].entries[i].cmd = log[m][p].entries[i].cmd

\* A restart costs a replica what it has committed, and no other replica
\* anything: a follower that comes back with an empty log and no promise does
\* not make its leader replace a committed instance ("Insert case2").
OthersKeepCommitted ==
    [][\A n \in Nodes : restarts'[n] = restarts[n] => KeepsCommitted(n)]_restartVars

=============================================================================
