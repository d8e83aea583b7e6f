# A verification of csd-store

csd-store is a replicated key-value store. Replicas agree on an order of
commands with a variant of Multi-Paxos, keep the commands in one log per
partition of the keys, and execute them on a map in memory or on an FPGA kernel.
This directory holds TLA+ models of it, TLC configurations that check them on
small clusters, and proofs that TLAPS checks. The repository has no tests and no
documents; the statements about what the code should do are its comments and the
`CHECK`s that are commented out.

Paths such as `multipaxos.cc` are relative to `src/kv-store-host/src/`.

## 1. The system

### Components, their state and operations

| Component | State | Operations |
|---|---|---|
| `MultiPaxos`, ballots and election (`multipaxos.h`, `multipaxos.cc` 141-234, 301-415) | `ballot_` (an atomic: round in the high bits, id of the issuer in the low eight), `commit_received_`, a `prepare_state_t` or `commit_state_t` for each phase that waits | `PrepareThread` and `RunPreparePhase`, `CommitThread` and `RunCommitPhase`, `BecomeLeader`, `BecomeFollower`, the handlers `Prepare` and `Commit`, the callbacks of both |
| `MultiPaxos`, replication (129-139, 236-299, 381-396) | an `accept_state_t` for each `Replicate` that waits | `Replicate`, `RunAcceptPhase`, the handler `Accept` and its callback |
| `MultiPaxos`, start and stop (55-127) | running flags, threads, the RPC server, the thread pool | `Start`, `Stop` |
| `CommonLog` (`common_log.h`, `common_log.cc`) | a map from index to instance, `last_index_`, `last_executed_`, `running_`, two files | `AdvanceLastIndex`, `SetLastIndex`, `Append` (`Insert`), `Commit`, `Execute`, `Stop` |
| `XrtLog` (`xrt_log.h`, `xrt_log.cc`) | two buffers of 64 proposals with their counters and `bitmap_`, the device's buffers, `last_applied_index`, `last_executed_` | the operations of a log, and the thread `EarlyApply` that runs the kernel |
| FPGA kernel (`src/kv-store_kernels/src/kv-hashmap.cpp`) | none (the operations on a store are commented out) | `kv_store_find`: copies a buffer of instances to the results |
| `main` (`main.cc`) | the threads of `io_context`, the handler of SIGINT and SIGTERM | start and end of the program |
| `Replicant` (`replicant.cc`) | logs, executor threads, acceptor | `Start`, `Stop`, `ExecutorThread`, `AcceptClient` |
| `Client`, `ClientManager` (`client.cc`, `client_manager.cc`) | the sessions, by id | `Start`, `Read`, `Write`, `Stop`, `StopAll`, `Get` |
| Key-value store (`kvstore.cc`, `memkvstore.cc`) | a map behind a mutex | `Get`, `Put`, `Del` |
| `log.cc`, `protobuf.h`, `multipaxos.proto`, `config.json` | none | construction, conversion of messages, configuration |

### How they interact

A session's read callback parses a line and calls `Replicate` on an asio thread.
`Replicate` tests that this replica leads, takes the next index of the
partition's log, appends the instance there and posts one `Accept` call for
each other replica to the thread pool. The thread waits on the call's condition
variable for a majority, commits in its own log and returns; the result of the
command is not returned but written to the client by the partition's executor
thread, once every earlier index has been committed. Followers only append;
`TrimUntil` and `CommitUntil` are commented out, so they never commit or execute.

Whoever leads is decided by `ballot_` alone: `IsLeader(ballot_, id_)`. The
prepare thread campaigns when no heartbeat came during a random sleep, the
commit thread sends heartbeats (`Commit` calls) while the replica leads. Both
wait on condition variables under `mu_`, which `BecomeLeader` and
`BecomeFollower` notify; `ballot_` is also read without `mu_`.

### What is hard

* Every handler reads `ballot_` more than once, and outside `mu_`.
* Callbacks of a phase that is over still change `ballot_`.
* `BecomeLeader` assigns a ballot that was computed before the campaign.
* A replica whose own ballot comes back in a rejection takes itself for the
  leader without a majority.
* Calls have no deadline and share one pool; a failed call is counted and not
  retried.
* An index that is taken is never given back, and nothing fills a hole.
* `Prepare` returns no instances: a new leader does not learn what its
  predecessor stored, and `Insert` replaces committed instances.
* Restarting loses the ballot and the log, whose files are written, never read.
* `XrtLog` shares two buffers between four kinds of threads.
* Stopping joins threads in an order in which they may wait for each other.

`PROJECT.json` lists each hazard at its line with the properties that cover it.

### What makes each component correct

* Ballots: a campaign's ballot is above the replica's own and names it as leader.
* Election: a ballot that is followed was issued by its owner; a promise is kept;
  no thread sleeps through a change of leadership; a lone candidate gets to lead.
* Replication: one command per index and ballot; an OK is backed by the log; an
  answered command is stored by a majority; stores apply commands by index;
  what is committed stays; every `Replicate` ends and every committed command
  without a hole before it is answered.
* `CommonLog`: indexes are given out once; instances are executed in order, once.
* `XrtLog`: no proposal is overwritten before it is executed, nothing is executed
  that is not committed, the result read is that of the instance, a full buffer
  gets executed.
* Sessions: a session does one thing at a time, so that each request gets one
  answer; it reads again or is closed; `Stop` finds its client.
* The store: answers follow from the commands before, in the order of the log.
* Start and stop: after the signal every thread is woken, `Stop` returns, and
  nothing that uses the objects of `main` outlives it.

## 2. Modules

| Module | What it is |
|---|---|
| `Ballots` | the operators on ballot numbers, pure |
| `BallotArithmetic` | an `ASSUME`, evaluated by TLC, that `Ballots` computes what the bit operations of the code compute |
| `Election` | who leads: state machine of `ballot_`, both threads, `Prepare` and `Commit` calls |
| `CommonLog` | the operations of a log, as operators on its state; each is one critical section of `mu_` |
| `MultiPaxos` | composes `Election` (`E!...`) with one `CommonLog` per replica and partition, the `Replicate` threads, `Accept` calls and executors |
| `KVStore` | the operations of the key-value store, as operators on its map |
| `Partition` | one partition of one replica: composes `CommonLog` (`Log!...`) and `KVStore` (`KV!...`) with the threads that propose, the handlers of `Accept`, the executor and `Stop` |
| `SequentialStore` | abstract specification: what a partition promises its clients |
| `Lifecycle` | start and end of a replica: `main`, its signal handler, `Start` and `Stop` of `Replicant`, `MultiPaxos` and a log, and all the threads they start and join |
| `ReplicatedLog` | abstract specification: what replication promises while one replica campaigns |
| `MultiPaxosRestart` | `MultiPaxos` with replicas that stop and start again |
| `XrtLog` | the log of a partition on the FPGA: session threads, the executor, `EarlyApply` and the kernel |
| `ClientSessions` | the sessions of a replica's clients, the acceptor and the executor's answers |
| `MCElection`, `MCMultiPaxos`, `MCMultiPaxosRestart`, `MCPartition` | the clusters and partitions TLC checks |
| `ElectionProofs`, `MultiPaxosProofs`, `PartitionProofs`, `XrtLogProofs`, `ClientSessionsProofs`, `LifecycleProofs` | theorems, about the module they are named after |
| `ReplicatedLogProofs` | theorems about `MultiPaxos` with a single candidate: what is committed stays, and the refinement of `ReplicatedLog` |
| `RestartProofs` | theorems about `MultiPaxosRestart` |

### State and code

| Variable | Code |
|---|---|
| `ballot`, `commitReceived` | `ballot_`, `commit_received_` |
| `prep[n]` | where the prepare thread is, and the `prepare_state_t` it waits on: `oks` and `done` are the replicas behind `num_oks_` and `num_rpcs_`; `phase` tells one campaign from another |
| `beat[n]` | the same for the commit thread |
| `calls`, `accepts` | RPCs from the post in the pool to the callback. `stage` says how far the handler has come: each stage ends at an access to `ballot_` or to the log. `awaited` becomes FALSE when gRPC reports a failure to the caller while the handler, if the request arrived, still runs |
| `op[c]` | the thread in `Replicate` for command `c`, and its `accept_state_t` |
| `log[n][p]` | `logs_[p]` of replica `n` |
| `prepLast[n]` | `max_last_index_`. It is the candidate's own `last_index_`, because the callbacks' use of it is gone |
| `applied[n][p]` | the commands executed on a store, from which its contents follow |
| `answered` | commands whose result was written to the client |
| `XrtLog`: `proposals`, `appendCounts`, `commitCounts`, `bitmap`, `current`, `lastApplied` | `proposals_`, `append_counts_`, `commit_counts_`, `bitmap_`, `current_buffer_index`, `last_applied_index` |
| `XrtLog`: `logBo`, `resultBo`, `resultMap` | `log_bo_` after its sync, `result_bo_` on the device, and `result_bo_map_` as of the last sync |
| `XrtLog`: `pc[i]`, `applier`, `executor` | where the thread that replicates index `i`, `EarlyApply` and the executor are |
| `XrtLog`: `answers`, `mishaps` | no state of the code: what `Execute` returned, and which accidents of timing happened |
| `ClientSessions`: `clients`, `socket`, `accepting` | `clients_`, `socket_` of each session, whether `acceptor_` is open |
| `ClientSessions`: `task[s]`, `reading[s]`, `writing[s]` | what is posted to the session's strand or occupies it, its outstanding `async_read_until` and `async_write` |
| `ClientSessions`: `committed`, `target` | the commands the executor has not come to, and the client it has got and not written to |
| `ClientSessions`: `blocked` | the executor waits in `Execute` though commands are committed, or its log was stopped |
| `ClientSessions`: `misled` | no state of the code: sessions that lost an answer, or got one, because a result came with another client's id |
| `ClientSessions`: `stopped`, `crashed` | `StopAll` has run; the process has dereferenced `clients_.end()` |
| `Partition`: `log`, `store`, `running` | `log_`, `last_index_`, `last_executed_`; `kv_store_`; `running_` |
| `Partition`: `proposer[c]`, `accepted`, `executor` | the thread in `Replicate` for `c`, the handlers of `Accept` that have appended, the executor thread |
| `Partition`: `history` | what `Execute` returned, in order |
| `Lifecycle`: `main`, `stopper` | where the main thread and the handler of the signal are |
| `Lifecycle`: `thread` | the prepare, commit and executor threads and `EarlyApply`: `"outer"` about to test whether to wait, `"asleep"` on the condition variable, `"inner"`, `"awake"`, `"wait"` in the inner loop, after the random sleep, in a phase |
| `Lifecycle`: `running`, `locked`, `leads` | the running flags; whether `XrtLog::Stop` holds `mu_`; `IsLeader(ballot_, id_)` |
| `Lifecycle`: `phase`, `stale`, `pool` | posted calls, of those who wait and of phases that are over; `thread_pool_` |
| `Lifecycle`: `server`, `handler` | the RPC server, a handler of it |
| `Lifecycle`: `accepting`, `clients`, `request` | whether `acceptor_` is open; `clients_`; a session, from its accept and its first read through `Replicate` to the executor's answer |
| `Lifecycle`: `full` | buffers `EarlyApply` has still to come to |
| `held`, `regressed`, `failures`, `acceptFailures` | no state of the code: `held` and `regressed` are history the properties need, the others count against bounds |

An action is a stretch of code that other threads see as one: one access to
`ballot_`, or one section under `mu_`, a log's mutex or a call's mutex. Where
the code reads `ballot_` three times (`Accept`), there are three actions and
other threads run between them.

Choices worth knowing:

* `StartCampaign` covers `NextBallot`, the test `ballot > ballot_` before the
  posts, which holds unless the ballot has moved in between, and the posts. A
  call that is posted later is a call that starts later.
* `CommitHandler` is one step: `BecomeFollower` compares again under `mu_`, and
  `commit_received_` makes the receiver skip one campaign at most.
* The pool's queue is taken in any order; a call in flight occupies one of
  `PoolSize` threads.
* `HearBallot` in `Election` stands for the ballots that `Accept` calls carry;
  `MultiPaxos` replaces it by those calls, and the run `replication_pair` checks
  that this is a refinement.
* `EndBeat` and `GiveUp` may act as soon as the replica does not lead, while the
  code sees it at the next notification. The model has more behaviours.
* A client sends one command and gets its answer in the step that executes it.
  Client ids are congruent to the replica's id modulo the number of replicas
  (`client_manager.h` 28-32), so an executor finds the client exactly on its
  `Home` replica.
* The payload of heartbeats (`last_executed`, `global_last_executed`) feeds
  `TrimUntil` only, which is commented out, and is left out.

* `XrtLog` is the log of a replica that has led from the start: `RunAcceptPhase`
  calls `Append` and then `Commit`, or refuses the command. `config.json` has a
  cluster of one, where nothing is refused (`MaxRefused = 0`). An instance is its
  index. (`protobuf.h` 20-24 stores neither key nor value, so the client's id is
  the only thing in a result that differs between instances.) `proposals_` and the
  counters are accessed outside `mu_`, each access is an action; a section under
  `mu_` is one action, and the kernel, which runs outside it, takes one step for
  each slot. A session has its next request read when its handler has returned and
  an answer has been sent. Wakeups without a notification are left out.

* In `ClientSessions` a session's callbacks run on the strand of its socket,
  one at a time, and `Client::Stop` called there closes the socket at once, while
  `StopAll`, called from the thread that handles signals, posts that to the strand.
  `MultiPaxos` is reduced to what a session sees of it: `Replicate` is refused or
  commits. `Stop` of a session that is gone ends the program: it dereferences
  `clients_.end()`.
* The executor of `ClientSessions` need not come to a command that is committed: an
  earlier index of its log may have been given up (`common_log.cc` 86-87), the
  buffer of an `XrtLog` may not fill up (`xrt_log.cc` 104), or the log was stopped.
  `ExecutorBlocks` says so at any time, `ExecutorResumes` that it may end. The client
  id that `Execute` returns is that of the instance it finds, which may have
  replaced the session's (a client of another replica, whom `Get` does not find), or,
  with an `XrtLog` (`IsXrt`), whatever is in that place of `result_bo_map_`, which after
  an accident may be any client's (`ResultIds`).

* In `Partition` each action is a section under the log's mutex with the
  notification in it. `Commit`'s wait on `cv_committable_` is left out, because
  `CommitFindsIndex` shows that it is never entered. Remote instances arrive in
  any order, at any time, as `Accept` appends whatever passes its ballot.

* In `Lifecycle` the ballots are reduced to whether the replica leads; any call or
  handler that ends may change that, as `BecomeFollower` does when a rejection
  brings a ballot. Commands and buffers are counted, with buffers of one instance.
  `Stop` is one sequence of actions, one for each lock, notification and join.
  `StopServer` posts the close of the acceptor (`CloseAcceptor`) and calls `StopAll`,
  which forgets every session. A session that is between two requests has a read or a
  write outstanding, which then ends with an error and stops it again:
  `StopFindsNobody` ends the program. It takes a thread of `io_context`, and the handler
  of the signal has one until it calls `io_context.stop()`. A broken connection has
  the same effect without a signal; that is in `ClientSessions` and left out here.

Definitions marked "Slip" are plausible mistakes in the definition after them.
No specification uses them; each is put in the place of that definition to see
that a property fails.

## 3. Runs

Bounds: the campaigns of each replica (`MaxPrepares`), the heartbeats
(`MaxBeats`), the failed calls (`MaxFailures`, `MaxAcceptFailures`), restarts
(`MaxRestarts`), the commands of `XrtLog` (`MaxIndex`), the connections that break
(`MaxFailures` of `ClientSessions`), refused commands (`MaxRefused`), threads of
`io_context` (`MaxIoThreads`), calls of phases that are over (`MaxStale`). A bound stops its action, so these systems
eventually stop, and deadlock is not checked; sessions go on for ever unless all
are closed. Replicas are not symmetric, since ballots order them.

| Run | Instance | What it shows |
|---|---|---|
| `election_duel` | three replicas, two campaign once, a call is lost, pool of 2 | `PromiseKept`: a promise holds until `BecomeLeader` takes the ballot down, and only then. `BallotsAreIssued`. `SleepingCampaignerLeads`: no lost wakeup of `cv_follower_`. `SilentLeaderCampaigns`: a leader whose commit thread sleeps still campaigns |
| `election_single` | three replicas, one campaigns three times, heartbeats, two calls are lost, fairness | `BallotsOnlyGrow`, `LeaderEmerges` |
| `replication_quorum` | three replicas, one candidate, two commands, an `Accept` is lost, pool of 1 | `AnsweredIsKept`: a majority stores an answered command and goes on storing it; `ImplementsReplicatedLog`: `MultiPaxos` refines `ReplicatedLog` |
| `replication_pair` | two replicas that lead in turn, a client at each | `OneCommandPerBallot`, `AppliedAtItsIndex`, `AckedIsStored`, `AnsweredIsReplicated`; `ImplementsElection`: `MultiPaxos` refines `Election` |
| `replication_again` | two replicas, three campaigns of one, a lost `Prepare`, the other one may restart, fairness | `SameBallotSameCommand`, `OthersKeepCommitted`: the follower's restart loses only what it stored itself; `ReplicateEnds`, `CommittedIsAnswered` |
| `replication_overwrite` | two leaders in turn | violation: a committed instance is replaced |
| `replication_restart` | the leader restarts | violation: a ballot and an index stand for two commands |
| `xrt_batches` | buffers of 2, two clients, six requests, one may be refused, fairness | `ExecutedIsCommitted`, `CommittedBufferStays`, `NothingOverwritten` on every schedule; `OwnResults`, `BuffersExecute` unless a command is refused or an accident of timing happens |
| `sessions` | two sessions, one connection may break, the server may stop, the executor may wait for ever and have any client's id (`IsXrt`), fairness | `OneTurn`: a session does one thing at a time unless a result comes with a wrong id; `ForgottenIsClosed`; `ReadsAgainOrCloses` unless the executor never comes to its command, or answers to another |
| `sessions_stop` | one session whose connection breaks | violation: `Stop` is called for a session that is gone |
| `partition` | a put, a get and a del of one key; an earlier and a later leader append one instance each; `Stop`, fairness | `ExecutorSleepsIdle`: no lost wakeup; `CommitFindsIndex`; `CommittedIsExecuted`; `ImplementsSequentialStore`: `Partition` refines `SequentialStore` |
| `lifecycle` | either log, with or without a peer, one or two threads of `io_context`, one request, fairness | `NoSleepThroughStop`, `NothingOutlivesMain`; `XrtStopHangs`: with `XrtLog` the program never gets past `Stop`; `SignalEndsMain`: otherwise `main` returns, unless another io thread ends a session that `StopAll` has forgotten, or a request comes too late |

Why the bounds are enough: two campaigns of one replica, or one each of two, are
what it takes for a late answer of one campaign to meet another; a lost call is
what it takes for a replica to miss a promise; two commands in a partition are
what it takes to compete for an index; a pool of one makes calls wait for each
other. Three replicas are the least with a majority that leaves one out, and
two the least with a majority that is everyone, where a lost call costs the
quorum. Partitions share nothing but the ballot, so one partition is checked.
Six requests in two buffers of two fill the first buffer twice, so
that what one round leaves behind (a counter, a sleeper, a result) meets the next.
In `partition` three commands are one more than the indexes at which others
append, so that an instance is replaced before, while and after it is executed,
and a hole stays or not. In `lifecycle` one peer is enough for a call to be
outstanding at any point of `Stop`, one request for a thread of `io_context` to be
in `Replicate` while another handles the signal, and one stale call for the pool to
have more to do than anybody waits for.
With as many clients as slots, `XrtLog` behaves as it can be meant to; with fewer
no buffer gets full and nobody is ever answered, with more only
`NothingOverwritten` still holds (TLC has checked it with four, as many as both
buffers have slots, and none refused).

### What goes wrong in `XrtLog`

No comment says what `XrtLog` should do, so nothing about it is listed as a
finding; its properties say instead exactly when it works. Three accidents of
timing, recorded in `mishaps`, spoil it. Dropping any one of them from
`BuffersExecute` makes TLC find a counterexample.

* `"slow"`: `Execute` finds that `EarlyApply` has not run and runs the kernel
  (`xrt_log.cc` 110). `EarlyApply` then applies the same buffer a second time, and
  `last_applied_index` is ahead by a buffer from then on: results are read before the
  kernel has made them. Or the next buffer gets full first and
  `current_buffer_index` moves on: `append_counts_` of this buffer is not reset, is
  above `BUFFER_SIZE` in the next round, and nobody flushes the buffer.
* `"premature"`: the counter is full before the buffer is flushed (55-56). If
  `EarlyApply` happens to test it then (138), it runs the kernel on the previous
  contents of `log_bo_` and resets the counter, possibly before the appending
  thread has read it.
* `"twice"`: two threads find `commit_counts_` full (88). The second finds
  `bitmap_` at 2 or 3 and waits for a 1 that comes with the next round, which needs
  its client.

### Fairness

`FairSpec` gives weak fairness to each thread, to the handlers and callbacks of
each replica and to the executors: these are threads of the operating system
that nothing blocks for ever, a random sleep ends, and a call is either answered
or failed by gRPC. It gives none to calls that the caller has abandoned before
they reached a handler (such a request may be lost), and none to failures.
A call that hangs with neither answer nor failure is outside the model.

In `XrtLog` the same holds of the session threads, `EarlyApply` and the executor;
clients need not send more. In `Partition` only the executor is fair. In
`Lifecycle` threads, handlers and calls go on, and signals, requests and calls of
other replicas need not come, nor what is left in `io_context` run: the close of the
acceptor, or the end of a session that `StopAll` has closed. In `ClientSessions` it
holds of the callbacks, and of the executor as long as it does not wait in `Execute`;
nobody need connect, break off or stop the server, and an executor that waits need
not go on. That `Replicate` returns is the premise of `ReadsAgainOrCloses` and not a
fairness: a call that hangs keeps it for ever. `ReadsAgainOrCloses` excepts the
session whose command the executor does not come to (`Stranded`), which is the case of
a hole or of a buffer that does not fill up, and a session touched by a wrong client
id (`misled`).

The liveness runs of `MultiPaxos` and `Election` have a single candidate. It
stands for replicas that always hear a heartbeat in time; two candidates may
depose each other for ever.

A refused command does more harm than the code that refuses it can see. Its slot
was appended and is not committed, so that `commit_counts_` of the buffer stays
short and the log stops there. The other sessions wait for answers from that
buffer; a session whose commands go on being refused can come back to it, and its
next commit makes up the count: the refused command is executed, and a command
that nobody has executed is overwritten. TLC finds this with three refusals in two
buffers of two, and with no more than two refusals (`FewRefused`, as many as the
other buffer has slots) it finds that the properties hold. The run has one; TLC has
checked up to four, with the condition, in runs without fairness.

### What `Stop` waits for

`Lifecycle` says of the log in memory that after the signal `main` returns, under
conditions that `SignalEndsMain` names. First, `StopAll` forgets the sessions while
their reads are outstanding. With more than one thread of `io_context` another thread
runs the aborted read's callback, `ClientManager::Stop` dereferences `clients_.end()`, and
the program ends there (`StopCrashes`). With one thread it
does not: that thread is in `Stop` until `io_context` is stopped, and the callback never
runs; nor with a session that has a command under way, until that is done.
`XrtLog::Stop` joins `apply_thread_` under
`mu_`, and `EarlyApply` needs `mu_` to see that it should end: `XrtStopHangs` says
that the program then never gets further. And between `thread_pool_.join()` and
`io_context.stop()` a session that was accepted before the acceptor was closed may
still call `Replicate` (`Stranded`): its calls are posted to a pool without threads,
and `main` waits for its thread for ever.

## 4. Findings

* `replication_overwrite`: a command that a majority has stored, and that the leader
  has committed, is replaced in the log; in the trace its client is not answered yet. The new leader starts
  from its own `last_index_`, because the `Prepare` answers carry no instances
  and no last index, and `Insert` (`common_log.cc` 40) replaces whatever has a
  lower ballot. The check that stood there (36-39) would fail.
* `replication_restart`: a restarted replica has ballot `kMaxNumPeers` again.
  It campaigns with a ballot it has used, is rejected with it, and
  `BecomeFollower` makes it leader by that rejection. It gives the same ballot and
  index to another command; the check at `common_log.cc` 44-45 would fail.
* `sessions_stop`: the callback of `Write` stops the session on an error and then
  calls `Read` all the same (`client.cc` 96-98). The read fails on the closed
  socket and stops the session again: `clients_.find` returns `end()`, against
  the check at `client_manager.cc` 31.

`StopAll` (`client_manager.cc` 36-43) has the same effect as the last on a session that is
waiting for a request: its read is aborted, and the callback (`client.cc` 83) stops a
session that is not in `clients_` any more. `lifecycle` has it as the exception
`StopCrashes` of `SignalEndsMain`; with `Stops = TRUE` and `MaxFailures = 0` TLC finds it
with `ClientSessionsStop.cfg` in five steps.

## 5. Proofs

TLAPS proves for every number of replicas, commands, sessions and requests, and
every bound:

| Module | Theorem | Statement |
|---|---|---|
| `ElectionProofs` | `TypeCorrect` | `Spec => []TypeOK` |
| | `IssuedBallots` | `Spec => []BallotsAreIssued`: nobody follows, and no call carries, a ballot its owner has not issued |
| | `NoLostWakeup` | `Spec => []SleepingCampaignerLeads`: a prepare thread sleeps only while its replica leads |
| | `SilenceEnds` | `Spec => []SilentLeaderCampaigns`: a leader whose commit thread sleeps still campaigns |
| | `PromisesAreKept` | `Spec => []PromiseKept`: a `Prepare`'s OK holds until the candidate leads, unless `BecomeLeader` has taken the ballot down |
| | `BallotsGrow` | `Spec => BallotsOnlyGrow`, if the constant `Candidates` holds one replica at most |
| | `LeaderIsNamed` | the low bits of `NextBallot(b, id)` are `id`, for every `b`: it is that replica's ballot and everybody else's somebody else's, no two replicas make the same one, and the ballot all start with is nobody's |
| `MultiPaxosProofs` | `TypeCorrect` | `Spec => []TypeOK` |
| | `RefinesElection` | `Spec => ImplementsElection`: whatever replication does to the ballots, `Election` allows |
| | `OneCommand` | `Spec => []OneCommandPerBallot`: an index and a ballot of a partition stand for one command |
| | `AppliedInOrder` | `Spec => []AppliedAtItsIndex`: a store executes, k-th, the command that was given index k |
| | `AcksAreBacked` | `Spec => []AckedIsStored`: the replica that gives an OK stores the command, or an instance of a higher ballot at its index, unless `BecomeLeader` once took its ballot down |
| | `AnsweredIsStored` | `Spec => []AnsweredIsReplicated`: a client is answered only for what a majority stores, the command or an instance of a higher ballot, counting every replica whose ballot `BecomeLeader` once took down (`regressed`) |
| `ReplicatedLogProofs` | `CommittedIsKept` | `Spec => CommittedStays`, if `Candidates` holds one replica at most |
| | `AnsweredStays` | `Spec => []AnsweredIsKept`, if it does: a majority stores an answered command itself, without exception, and goes on storing it |
| | `IsReplicatedLog` | `Spec => ImplementsReplicatedLog`, if it does and the commands are finitely many |
| `RestartProofs` | `FollowersMayRestart` | `RestartSpec => []SameBallotSameCommand`, if no candidate restarts |
| | `OthersKeep` | `RestartSpec => OthersKeepCommitted`, if no candidate restarts and there is one at most |
| `PartitionProofs` | `TypeCorrect` | `Spec => []TypeOK` |
| | `NoLostWakeup` | `Spec => []ExecutorSleepsIdle`: the executor sleeps only while the next instance is not committed |
| | `CommitNeverWaits` | `Spec => []CommitFindsIndex`: `Commit` finds its index in the log |
| | `IsSequentialStore` | `Spec => ImplementsSequentialStore`: the refinement of `SequentialStore` |
| `XrtLogProofs` | `XrtLogTypeCorrect` | `Spec => []TypeOK`, if at most a buffer's worth of commands is refused |
| | `NoneExecutedEarly` | `Spec => []ExecutedIsCommitted`: nothing is executed before all of its buffer is committed |
| | `NoLateFlush` | `Spec => CommittedBufferStays`: no late thread flushes a committed buffer |
| | `NoneLost` | `Spec => NothingOverwritten`: only executed or refused proposals are overwritten |
| | `EachItsOwnResult` | `Spec => []OwnResults`: the k-th answer is that of instance k, unless an accident of timing happens or a command is refused |
| `ClientSessionsProofs` | `TypeCorrect` | `Spec => []TypeOK` |
| | `OneThingAtATime` | `Spec => []OneTurn`: a session is in one place at a time, as long as no result has come with another client's id |
| | `NoSessionLeaks` | `Spec => []ForgottenIsClosed`: who is not in `clients_` is closed, or will be |
| `LifecycleProofs` | `TypeCorrect` | `Spec => []TypeOK` |
| | `StopWakesThreads` | `Spec => []NoSleepThroughStop` |
| | `XrtStopNeverReturns` | `Spec => []XrtStopHangs` |
| | `MainOutlivesAll` | `Spec => []NothingOutlivesMain` |

**Election.** The assumptions are `ElectionAssumption`, that is at least one
replica and at most `kMaxNumPeers` of them, a pool with a thread, and bounds that
are numbers. Of the arithmetic it is needed that a campaign's ballot is above the one
it starts from, names its candidate, and grows with it.

None of the properties is inductive. The inductive invariant `IInv` of
`ElectionProofs` joins three parts to the types. `BallotsAreIssued` says where
ballots come from; without it a rejection could bring anything. `CallsMatchCampaign`
ties a `Prepare` call to the campaign that made it, so that an old answer counts
for its own campaign only. `CampaignsAdvance` says that the last ballot a replica
issued is at most the next one it would issue, and, while it is not campaigning,
at most its own. TLC has checked it on the instance of `election_duel`. The steps
that start no campaign keep it by one lemma, `NoNewCampaign`; `StartCampaign` and
`BecomeLeader` have their own.

The other theorems then need one more look at the actions each. `NodeStep` says
that a step leaves a replica's ballot alone, makes it follow a higher one, or
makes it leader; both wakeup theorems follow from that. `PromisesGiven` and
`PromisesCounted` say where an OK and a counted OK come from. `Origins` says where
ballots, campaigns and `Prepare` calls come from, which with a single candidate
leaves only its own.

**Replication.** `ReplicationAssumption` adds to the election's that a command has a
replica and a partition. `MultiPaxosProofs` takes over what is proved of the election: `EP` is
its module of proofs for the variables of `MultiPaxos`, `SameElection` says that it is
about the same election, and `StepIsElection` that every step of replication moves the
ballots by `HearBallot` if at all. A ballot that comes with an `Accept` or a rejection is one
that some replica has had, which `OpsInOrder` and `AcceptsInOrder` remember.

The actions are looked at once, to see that they are `Moves`: what a step may do to a
`Replicate`, to a log and to an `Accept` call. The parts of `IInv` are then kept by every
move. `OpsInOrder` says how far a `Replicate` has come, and that its index is one its
replica's log has counted; so `AdvanceLastIndex` gives out a new one (`IndexOnce`). As a ballot
names its replica, index and ballot are one command's, which `OneCommandPerBallot` says of what
is proposed and of what is stored. `AcksInOrder` follows an `Accept` from its append to
the count of its OK: what is stored stays or gives way to a higher ballot, and a handler that has
refused can answer OK only when its ballot has gone down meanwhile, which `regressed`
records. (`Backed` speaks of ballots; by `OneCommandPerBallot` an instance of the command's own ballot
is the command, which is what `Holds` says: `BackedByCommand`.) The exception is not idle. An
`Accept` that was refused, by a replica whose ballot then goes down before the handler's last
comparison, is answered OK with nothing stored (`multipaxos.cc` 385-396); with candidates at 256,
257 and 258 such answers can make up a quorum. With one candidate no ballot goes down, and `AnsweredStays` has
no exception. `CommitsInOrder` says that of a replica's own commands only those with a quorum are
committed there. TLC has checked all parts on the instances of `replication_pair` and
`replication_quorum`.

**A single candidate.** Three more facts, `SoleInv`: every ballot is a candidate's
(`OnlyCandidates`, from `ElectionProofs`), no ballot has gone down, and nobody but the
candidate commits. It follows that one replica gives out all indexes (`HandedOutBy`), so an
index is one command's whatever its ballot, and an instance can only be replaced by
one of the same command (`StoredStays`). That is `CommittedIsKept`. An OK
is then backed by the command itself (`OksStore`), whatever ballots came since, which gives
`AnsweredStays`. For the refinement the
last indexes must not run ahead of the commands: `IndexesInRange` bounds them by the
number of commands that have been given an index, which is why these must be finitely
many. `ProposeIsPropose`, `AppendIsStore`, `CommitIsCommit` and `ExecuteIsExecute`
map four actions to those of `ReplicatedLog`; every other one stutters (`Stutters`). With two
candidates the property is false, as `replication_overwrite` shows.

**Restarts.** `OnlyFollowersRestart` says that a replica that ever campaigns does not
restart; `replication_restart` shows that it is needed. What a restarting replica forgets is
then no ballot or campaign of its own and no index it has given out (`Follower`), so
`RestartElection` and `RestartKeeps` keep the invariant of replication through the restart. Its
promises and its log are lost, which `regressed` records and the properties allow for.

**Partition.** `PartitionAssumption` says of the commands what `Replicate` and
`Parse` see to: a command is proposed once, is a GET, PUT or DEL, and has a value.
Four lemmas say what the operations of `CommonLog` do to a log. `IInv` joins
`AtItsIndex` to the two invariants: whatever is in the log at an index, and
whatever was executed as the k-th, is a command that was given that index. As a
command is given one index only (`OneIndex`), it is executed once, though an
instance may be replaced before, while or after it is executed. For the refinement `StoreFits` says
that the store holds of every key what its last write has left; `EffectOnKey` and
`ExecuteFits` keep it, and `ExecuteTakesEffect` reads off the answer. Every
other action stutters.

**XrtLog.** `XrtLogAssumption`, and for each of the theorems that there are at most as
many clients as a buffer has slots. With one more, TLC finds `ExecutedIsCommitted` and
`CommittedBufferStays` violated and, if a command may be refused, `NothingOverwritten`.
Indexes come in rounds of a buffer, and the two buffers take turns. The invariant gives every
buffer an open round (`OpenRound`), which follows from how far execution is and from whether
the buffer is committed. Before it everything is committed; for it commits are counted, and
proposals stored and counted, except that `EarlyApply` may have reset the count early, or
a count may be too high by a buffer for good, after the accident `"slow"`. `LateThreads` is the
heart of it: the session of a thread at work sends nothing more, so the others cannot fill a
later round, and a thread that is late finds its buffer in the round it left it in. That
rests on a count of the unanswered requests (`FewUnanswered`), which needs the cardinalities of
`FiniteSetTheorems`. All of this holds up to the number of refusals that `FewRefused` allows.
The types need that number as a bound (`MaxRefused`), because with it every counter counts
an index once.

Answers need more: while no command is refused and no accident happens, indexes are at most one
buffer ahead of execution (`OneBufferAhead`), so only one of the two counters can be full
(`NoneFullAhead`), and `EarlyApply` works on the round of `Execute` or is done with it. `Delivery` says
what is then in `log_bo_`, `result_bo_` and its map. It is an invariant under the
hypothesis of `OwnResults` only, and that hypothesis can but be lost, never regained. TLC has
checked `IInv` for buffers of one and two, and `Delivery` for one to three.

**ClientSessions.** `SessionsAssumption`. `OneTurn` counts, and its inductive form
`Exclusive` does not: it says of every two places that they do not both have the
session, and of a connection that was not accepted yet that no place has it. A
callback takes the session from one place and puts it in another, and
`AloneIsOneTurn` gets the sum back. It says nothing of the sessions in `misled`, which a
wrong client id may have put in two places.

**Lifecycle.** `LifecycleAssumption`. The sets `AfterExecutor` to `AfterCommit` put
the steps of `Stop` in their order. `Flags` says which `running_` flag is up at which step;
`Joined` says which thread has ended, and with nobody to start it again, for good;
`Stuck` says that `XrtLog`'s `Stop` holds the mutex as long as it waits, and that
`EarlyApply` has not ended. It is the last that shows the hang, whatever else runs.

**Only model-checked.** Every invariant and action property of a run, and every
refinement, is proved. Liveness (`LeaderEmerges`, `ReplicateEnds`, `CommittedIsAnswered`,
`BuffersExecute`, `ReadsAgainOrCloses`, `CommittedIsExecuted`, `SignalEndsMain`) and `ENABLED`
are out of the prover's reach and rest on TLC. So does `ArithmeticIsBitwise`, whose bit
operations are recursive. That the hypotheses about candidates and restarts cannot be
dropped is what `replication_overwrite` and `replication_restart` show.

## 6. Not modelled, and the plan

Not modelled:

- `XrtLog` at a replica that followed before it leads. A follower's `Append` counts
  a buffer full and runs `EarlyApply` on it, and no follower ever commits; what
  the counters are when it begins to lead depends on how many instances of each round
  of the two buffers it has seen. Only the replica that leads from the start is in the
  model.
- The log factory, the protobuf types and the configuration: they choose and carry
  data, and keep no state. Their choices are constants, or are in `Lifecycle`'s
  `config`.
- How requests are parsed and answers are worded; the JSON library
  (`kv-store-host/src/json.h`), which is vendored and is most of the lines of the
  repository; the demonstration host `src/kv-store/src/host.cpp`, which runs the
  kernel once on made-up data; the files that are written and never read.

The conditions in `SignalEndsMain` are needed: without `IsXrt`, without
`StopCrashes`, or without `Stranded`, TLC finds a behaviour in which `main` does not return.

Hazards that no property covers have a note in `PROJECT.json`. Those of replication are an
`Accept` that is wrongly acknowledged (`multipaxos.cc` 385) and a `Commit` that marks another leader's
instance (292), which both take several leaders, a hole in the log (133), and a call that never
ends (43).

Plan: `ClientSessions` further, its `Replicate` as an abstraction of `MultiPaxos`.
