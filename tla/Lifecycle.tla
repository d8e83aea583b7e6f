----------------------------- MODULE Lifecycle -----------------------------
(***************************************************************************)
(* The start and the end of a replica: main and its signal handler         *)
(* (main.cc), Replicant::Start and Stop (replicant.cc), MultiPaxos::Start  *)
(* and Stop (multipaxos.cc) and the Stop of a log, together with what the  *)
(* threads they start and join may be waiting for.                         *)
(*                                                                         *)
(* Who leads, and what the calls are about, is in Election and MultiPaxos; *)
(* here a replica leads or not, and a call ends.  There is one partition,  *)
(* and a buffer of an XrtLog holds one instance.  ClientSessions has the   *)
(* sessions; here a session sends one request, and is there when a Stop    *)
(* comes.                                                                  *)
(***************************************************************************)
EXTENDS Integers, FiniteSets

CONSTANTS
    Peers,         \* the other replicas a cluster may have
    Requests,      \* sessions, and the one request that each sends at most
    MaxIoThreads,  \* bound: FLAGS_num_threads
    LogKinds,      \* values of config["log"] to choose from
    MaxStale       \* bound: calls on their way whose phase is over

ASSUME LifecycleAssumption ==
    /\ IsFiniteSet(Peers)
    /\ IsFiniteSet(Requests)
    /\ MaxIoThreads \in Nat \ {0}
    /\ LogKinds \subseteq {"common", "xrt"}
    /\ MaxStale \in Nat \ {0}

VARIABLES
    config,     \* config["log"], config["peers"] and num_threads
    main,       \* what main is about to start, then "run", "returned" or "crashed"
    stopper,    \* where the handler of SIGINT and SIGTERM is
    thread,     \* where each of the replica's own threads is
    running,    \* the running_ flags that are up
    locked,     \* XrtLog::Stop holds the log's mu_
    leads,      \* IsLeader(ballot_, id_)
    server,     \* the RPC server
    handler,    \* whether an Accept of another replica is being handled
    accepting,  \* acceptor_ is open
    clients,    \* clients_
    request,    \* where each session's request is
    phase,      \* calls without an answer, and OKs, of whoever waits for them
    stale,      \* calls in the pool that nobody waits for any more
    pool,       \* thread_pool_, open or joined
    full        \* XrtLog: buffers EarlyApply has not come to

Threads == {"prepare", "commit", "executor", "applier"}
Callers == {"prepare", "commit"} \cup Requests

callVars == <<phase, stale, pool>>
logVars == <<running, locked, full>>
sessionVars == <<accepting, clients, request>>
lifeVars == <<config, main, stopper, thread, leads, server, handler, sessionVars, callVars, logVars>>

Config == [log : LogKinds, peers : SUBSET Peers, threads : 1 .. MaxIoThreads]

TypeOK ==
    /\ config \in Config
    /\ main \in {"prepare", "commit", "server", "executor", "run", "returned", "crashed"}
    /\ stopper \in {"idle", "signalled", "log", "joinApplier", "joinExecutor", "server",
                    "joinServer", "prepare", "notifyPrepare", "joinPrepare", "commit",
                    "notifyCommit", "joinCommit", "joinPool", "done"}
    /\ thread \in [Threads -> {"none", "outer", "asleep", "inner", "awake", "wait", "won",
                               "run", "ended"}]
    /\ running \subseteq {"log", "prepare", "commit"}
    /\ {locked, leads, handler, accepting} \subseteq BOOLEAN
    /\ server \in {"none", "up", "closing", "down"}
    /\ clients \subseteq Requests
    /\ request \in [Requests -> {"none", "read", "append", "wait", "committed", "lost", "done"}]
    /\ phase \in [Callers -> [pending : SUBSET Peers, oks : Nat]]
    /\ stale \in Nat
    /\ pool \in {"open", "joined"}
    /\ full \in Nat

Quiet == [pending |-> {}, oks |-> 0]

\* The constructors: EarlyApply runs, nothing else does.
Init ==
    /\ config \in Config
    /\ main = "prepare" /\ stopper = "idle"
    /\ thread = [t \in Threads |-> IF t = "applier" /\ config.log = "xrt" THEN "outer" ELSE "none"]
    /\ running = {"log"} /\ locked = FALSE
    /\ leads = FALSE
    /\ server = "none" /\ handler = FALSE
    /\ accepting = TRUE /\ clients = {}
    /\ request = [r \in Requests |-> "none"]
    /\ phase = [o \in Callers |-> Quiet] /\ stale = 0 /\ pool = "open"
    /\ full = 0

IsXrt == config.log = "xrt"

\* Slip: the condition variable is not notified.
NotWoken(t) == thread[t]

Woken(t) == IF thread[t] = "asleep" THEN "outer" ELSE thread[t]

At(t, pc) == thread' = [thread EXCEPT ![t] = pc]

-----------------------------------------------------------------------------
(* main: Replicant::Start, and the threads that run io_context.            *)

StartThread(t, next) ==
    /\ main = t
    /\ running' = running \cup ({t} \cap {"prepare", "commit"})
    /\ At(t, "outer")
    /\ main' = next
    /\ UNCHANGED <<config, stopper, leads, server, handler, sessionVars, callVars, locked, full>>

StartRPCServer ==
    /\ main = "server"
    /\ server' = "up"
    /\ main' = "executor"
    /\ UNCHANGED <<config, stopper, thread, leads, handler, sessionVars, callVars, logVars>>

InHandler == {r \in Requests : request[r] \in {"append", "wait"}}

\* io_context.stop() lets each thread finish the handler it is in.
MainReturns ==
    /\ main = "run"
    /\ stopper = "done"
    /\ InHandler = {}
    /\ main' = "returned"
    /\ UNCHANGED <<config, stopper, thread, leads, server, handler, sessionVars, callVars, logVars>>

Main ==
    \/ StartThread("prepare", "commit")
    \/ StartThread("commit", "server")
    \/ StartRPCServer
    \/ StartThread("executor", "run")
    \/ MainReturns

IoThreadFree == Cardinality(InHandler)
    + (IF stopper \in {"idle", "signalled", "done"} THEN 0 ELSE 1) < config.threads

-----------------------------------------------------------------------------
(* The handler of the signal: Replicant::Stop, MultiPaxos::Stop.           *)

Signal ==
    /\ stopper = "idle"
    /\ stopper' = "signalled"
    /\ UNCHANGED <<config, main, thread, leads, server, handler, sessionVars, callVars, logVars>>

\* StopServer: the acceptor is closed by a task of its own, and StopAll closes
\* the sessions' sockets and forgets them at once.
StopServer ==
    /\ stopper = "signalled"
    /\ main = "run"
    /\ IoThreadFree
    /\ clients' = {}
    /\ stopper' = "log"
    /\ UNCHANGED <<config, main, thread, leads, server, handler, accepting, request>>
    /\ UNCHANGED <<callVars, logVars>>

CloseAcceptor ==
    /\ stopper \notin {"idle", "signalled", "done"}
    /\ main = "run"
    /\ IoThreadFree
    /\ accepting
    /\ accepting' = FALSE
    /\ UNCHANGED <<config, main, stopper, thread, leads, server, handler, clients, request>>
    /\ UNCHANGED <<callVars, logVars>>

\* Slip: the mutex is released before the thread is joined.
Unlocked == FALSE

\* XrtLog::Stop joins apply_thread_ under mu_, CommonLog::Stop has no such thread.
HeldByStop == IsXrt

StopLog ==
    /\ stopper = "log"
    /\ running' = running \ {"log"}
    /\ thread' = [t \in Threads |-> IF t \in {"executor", "applier"} THEN Woken(t)
                                    ELSE thread[t]]
    /\ locked' = HeldByStop
    /\ stopper' = IF IsXrt THEN "joinApplier" ELSE "joinExecutor"
    /\ UNCHANGED <<config, main, leads, server, handler, sessionVars, callVars, full>>

\* Slip: the thread is told to end, and not waited for.
Told(t) == t \notin running

Ended(t) == thread[t] = "ended"

Join(pc, t, next) ==
    /\ stopper = pc
    /\ Ended(t)
    /\ stopper' = next
    /\ locked' = FALSE
    /\ UNCHANGED <<config, main, thread, leads, server, handler, sessionVars, callVars>>
    /\ UNCHANGED <<running, full>>

\* Shutdown takes no new calls and waits for the handlers.
ShutdownServer ==
    /\ stopper = "server"
    /\ server = "up"
    /\ server' = "closing"
    /\ stopper' = "joinServer"
    /\ UNCHANGED <<config, main, thread, leads, handler, sessionVars, callVars, logVars>>

JoinServer ==
    /\ stopper = "joinServer"
    /\ ~ handler
    /\ server' = "down"
    /\ stopper' = "prepare"
    /\ UNCHANGED <<config, main, thread, leads, handler, sessionVars, callVars, logVars>>

\* The flag is cleared under mu_, the notification follows.
ClearFlag(t, next) ==
    /\ stopper = t
    /\ running' = running \ {t}
    /\ stopper' = next
    /\ UNCHANGED <<config, main, thread, leads, server, handler, sessionVars, callVars>>
    /\ UNCHANGED <<locked, full>>

Notify(pc, t, next) ==
    /\ stopper = pc
    /\ At(t, Woken(t))
    /\ stopper' = next
    /\ UNCHANGED <<config, main, leads, server, handler, sessionVars, callVars, logVars>>

PoolIdle == stale = 0 /\ \A o \in Callers : phase[o].pending = {}

\* thread_pool_.join(), then io_context.stop().
JoinPool ==
    /\ stopper = "joinPool"
    /\ PoolIdle
    /\ pool' = "joined"
    /\ stopper' = "done"
    /\ UNCHANGED <<config, main, thread, leads, server, handler, sessionVars, phase, stale, logVars>>

Stop ==
    \/ StopServer
    \/ StopLog
    \/ Join("joinApplier", "applier", "joinExecutor")
    \/ Join("joinExecutor", "executor", "server")
    \/ ShutdownServer
    \/ JoinServer
    \/ ClearFlag("prepare", "notifyPrepare")
    \/ Notify("notifyPrepare", "prepare", "joinPrepare")
    \/ Join("joinPrepare", "prepare", "commit")
    \/ ClearFlag("commit", "notifyCommit")
    \/ Notify("notifyCommit", "commit", "joinCommit")
    \/ Join("joinCommit", "commit", "joinPool")
    \/ JoinPool

-----------------------------------------------------------------------------
(* Calls: posts to the pool, and what ends a wait for them.                *)

Majority(o) == 2 * phase[o].oks > Cardinality(config.peers) + 1

\* The replica's own vote, and a call for each other replica.
Post(o) ==
    /\ phase' = [phase EXCEPT ![o] = [pending |-> config.peers, oks |-> 1]]
    /\ UNCHANGED <<stale, pool>>

Leave(o) ==
    /\ phase' = [phase EXCEPT ![o] = Quiet]
    /\ stale' = stale + Cardinality(phase[o].pending)
    /\ UNCHANGED pool

\* BecomeFollower: the ballot that comes may be anybody's, or too low.  The
\* prepare thread is notified when the replica stops leading.
BallotMoves ==
    \/ UNCHANGED <<leads, thread>>
    \/ /\ leads' = FALSE
       /\ At("prepare", IF leads THEN Woken("prepare") ELSE thread["prepare"])
    \/ /\ leads' = TRUE
       /\ UNCHANGED thread

\* A pool that was joined has no threads left.
CallEnds(o, p) ==
    /\ pool = "open"
    /\ p \in phase[o].pending
    /\ \/ /\ phase' = [phase EXCEPT ![o] = [pending |-> @.pending \ {p}, oks |-> @.oks + 1]]
          /\ UNCHANGED <<leads, thread>>
       \/ /\ phase' = [phase EXCEPT ![o].pending = @ \ {p}]
          /\ BallotMoves
    /\ UNCHANGED <<config, main, stopper, server, handler, sessionVars, stale, pool, logVars>>

StaleCallEnds ==
    /\ pool = "open"
    /\ stale > 0
    /\ stale' = stale - 1
    /\ BallotMoves
    /\ UNCHANGED <<config, main, stopper, server, handler, sessionVars, phase, pool, logVars>>

\* Another replica's call.  Its handler appends, under the log's mutex.
HandlerStarts ==
    /\ server = "up" /\ config.peers # {}
    /\ ~ handler
    /\ handler' = TRUE
    /\ UNCHANGED <<config, main, stopper, thread, leads, server, sessionVars, callVars, logVars>>

HandlerEnds ==
    /\ handler
    /\ ~ locked
    /\ handler' = FALSE
    /\ BallotMoves
    /\ UNCHANGED <<config, main, stopper, server, sessionVars, callVars, logVars>>

-----------------------------------------------------------------------------
(* PrepareThread and CommitThread: the outer loop waits while there is     *)
(* nothing to do, the inner loop sleeps, tests the flag and runs phases.   *)

Idle(t) == IF t = "prepare" THEN leads ELSE ~ leads

\* Slip: the wait does not look at the flag.
WaitsAnyway(t) == Idle(t)

Waits(t) == t \in running /\ Idle(t)

\* GlobalLastExecuted, LastIndex and LastExecuted take the log's mutex.
OuterLoop(t) ==
    /\ thread[t] = "outer"
    /\ At(t, IF Waits(t) THEN "asleep" ELSE IF t \in running THEN "inner" ELSE "ended")
    /\ UNCHANGED <<config, main, stopper, leads, server, handler, sessionVars, callVars, logVars>>

InnerLoop(t) ==
    /\ thread[t] = "inner"
    /\ At(t, IF t \in running THEN "awake" ELSE "ended")
    /\ UNCHANGED <<config, main, stopper, leads, server, handler, sessionVars, callVars, logVars>>

RunPhase(t) ==
    /\ thread[t] = "awake"
    /\ ~ locked
    /\ t = "commit" => leads
    /\ stale < MaxStale
    /\ Post(t)
    /\ At(t, "wait")
    /\ UNCHANGED <<config, main, stopper, leads, server, handler, sessionVars, logVars>>

\* A heartbeat was received; the replica does not lead any more.
SkipPhase(t) ==
    /\ thread[t] = "awake"
    /\ IF t = "prepare" THEN At(t, "inner") ELSE ~ leads /\ At(t, "outer")
    /\ UNCHANGED <<config, main, stopper, leads, server, handler, sessionVars, callVars, logVars>>

EndPhase(t) ==
    /\ thread[t] = "wait"
    /\ phase[t].pending = {} \/ (IF t = "prepare" THEN Majority(t) ELSE ~ leads)
    /\ At(t, IF t = "prepare" /\ Majority(t) THEN "won" ELSE "inner")
    /\ Leave(t)
    /\ UNCHANGED <<config, main, stopper, leads, server, handler, sessionVars, logVars>>

BecomeLeader ==
    /\ thread["prepare"] = "won"
    /\ ~ locked
    /\ leads' = TRUE
    /\ thread' = [thread EXCEPT !["prepare"] = "outer", !["commit"] = Woken("commit")]
    /\ UNCHANGED <<config, main, stopper, server, handler, sessionVars, callVars, logVars>>

PhaseThread(t) ==
    OuterLoop(t) \/ InnerLoop(t) \/ RunPhase(t) \/ SkipPhase(t) \/ EndPhase(t)

-----------------------------------------------------------------------------
(* The log's threads.                                                      *)

\* Slip: a wakeup is taken for work to do.
TakenAnyway(n) == n - 1

Taken(n) == IF "log" \in running /\ n > 0 THEN n - 1 ELSE n

\* Execute returns -1 when the log is stopped, whatever is left to execute, and
\* waits while the next instance is not committed, whatever is beyond it.
ExecutorThread ==
    /\ thread["executor"] = "outer"
    /\ ~ locked
    /\ \/ /\ At("executor", IF "log" \in running THEN "asleep" ELSE "ended")
          /\ UNCHANGED request
       \/ \E r \in Requests :
             /\ "log" \in running
             /\ request[r] = "committed"
             /\ request' = [request EXCEPT ![r] = IF r \in clients THEN "done" ELSE "lost"]
             /\ UNCHANGED thread
    /\ UNCHANGED <<config, main, stopper, leads, server, handler, accepting, clients>>
    /\ UNCHANGED <<callVars, logVars>>

\* EarlyApply needs mu_ to test running_ and after a run of the kernel.
EarlyApply ==
    /\ ~ locked
    /\ \/ /\ thread["applier"] = "outer"
          /\ At("applier", IF "log" \notin running THEN "ended" ELSE
                           IF full > 0 THEN "run" ELSE "asleep")
          /\ full' = Taken(full)
       \/ /\ thread["applier"] = "run"
          /\ At("applier", "outer")
          /\ UNCHANGED full
    /\ UNCHANGED <<config, main, stopper, leads, server, handler, sessionVars, callVars>>
    /\ UNCHANGED <<running, locked>>

-----------------------------------------------------------------------------
(* The sessions, on the io threads, and Replicate.                         *)

\* A session that is accepted after StopAll is not among those it closes.
Connect(r) ==
    /\ accepting
    /\ main = "run" /\ stopper # "done"
    /\ IoThreadFree
    /\ request[r] = "none"
    /\ request' = [request EXCEPT ![r] = "read"]
    /\ clients' = clients \cup {r}
    /\ UNCHANGED <<config, main, stopper, thread, leads, server, handler, accepting>>
    /\ UNCHANGED <<callVars, logVars>>

\* A replica that does not lead refuses.
Replicate(r) ==
    /\ request[r] = "read"
    /\ r \in clients
    /\ main = "run" /\ stopper # "done"
    /\ IoThreadFree
    /\ leads => ~ locked
    /\ request' = [request EXCEPT ![r] = IF leads THEN "append" ELSE "done"]
    /\ UNCHANGED <<config, main, stopper, thread, leads, server, handler, accepting, clients>>
    /\ UNCHANGED <<callVars, logVars>>

\* The read or write of a session that StopAll has closed and forgotten ends with
\* an error, and ClientManager::Stop dereferences clients_.end().
StopFindsNobody(r) ==
    /\ request[r] \in {"read", "done"}
    /\ r \notin clients
    /\ main = "run" /\ stopper # "done"
    /\ IoThreadFree
    /\ main' = "crashed"
    /\ UNCHANGED <<config, stopper, thread, leads, server, handler, sessionVars, callVars, logVars>>

ProposeToAll(r) ==
    /\ request[r] = "append"
    /\ ~ locked
    /\ Post(r)
    /\ request' = [request EXCEPT ![r] = "wait"]
    /\ full' = IF IsXrt THEN full + 1 ELSE full
    /\ At("applier", Woken("applier"))
    /\ UNCHANGED <<config, main, stopper, leads, server, handler, accepting, clients, running, locked>>

\* The answer is the executor's.
Commit(r) ==
    /\ request[r] = "wait"
    /\ Majority(r)
    /\ ~ locked
    /\ Leave(r)
    /\ At("executor", Woken("executor"))
    /\ request' = [request EXCEPT ![r] = "committed"]
    /\ UNCHANGED <<config, main, stopper, leads, server, handler, accepting, clients, logVars>>

GiveUp(r) ==
    /\ request[r] = "wait"
    /\ ~ Majority(r)
    /\ ~ leads \/ phase[r].pending = {}
    /\ Leave(r)
    /\ request' = [request EXCEPT ![r] = "done"]
    /\ UNCHANGED <<config, main, stopper, thread, leads, server, handler, accepting, clients, logVars>>

RequestThread(r) == ProposeToAll(r) \/ Commit(r) \/ GiveUp(r)

-----------------------------------------------------------------------------
Calls == StaleCallEnds \/ \E o \in Callers, p \in Peers : CallEnds(o, p)

Alive == main # "crashed"

Next ==
    /\ Alive
    /\ \/ Main
       \/ Signal
       \/ Stop
       \/ CloseAcceptor
       \/ Calls
       \/ HandlerStarts \/ HandlerEnds
       \/ \E t \in {"prepare", "commit"} : PhaseThread(t)
       \/ BecomeLeader
       \/ ExecutorThread
       \/ EarlyApply
       \/ \E r \in Requests : Connect(r) \/ Replicate(r) \/ RequestThread(r) \/ StopFindsNobody(r)

Spec == Init /\ [][Next]_lifeVars

\* Threads run, handlers return and calls end, as long as the process is there.
\* Nobody need connect, send a signal, a request or a call, and what is left in
\* io_context need not run.
FairSpec ==
    /\ Spec
    /\ WF_lifeVars(Alive /\ Main) /\ WF_lifeVars(Alive /\ Stop)
    /\ WF_lifeVars(Alive /\ StaleCallEnds)
    /\ \A o \in Callers : WF_lifeVars(Alive /\ \E p \in Peers : CallEnds(o, p))
    /\ WF_lifeVars(Alive /\ HandlerEnds)
    /\ WF_lifeVars(Alive /\ (PhaseThread("prepare") \/ BecomeLeader))
    /\ WF_lifeVars(Alive /\ PhaseThread("commit"))
    /\ WF_lifeVars(Alive /\ ExecutorThread) /\ WF_lifeVars(Alive /\ EarlyApply)
    /\ \A r \in Requests : WF_lifeVars(Alive /\ RequestThread(r))

-----------------------------------------------------------------------------
(* Properties.                                                             *)

Born(t) == thread[t] \notin {"none", "ended"}

\* No thread of MultiPaxos sleeps through its end: once its flag is down it is
\* awake, or stays asleep only until the notification that follows.
NoSleepThroughStop ==
    /\ "prepare" \notin running /\ thread["prepare"] = "asleep" => stopper = "notifyPrepare"
    /\ "commit" \notin running /\ thread["commit"] = "asleep" => stopper = "notifyCommit"

\* XrtLog::Stop never gets back: it holds the mutex that EarlyApply has to take
\* before it can end (xrt_log.h 64-70).
XrtStopHangs == IsXrt => stopper \in {"idle", "signalled", "log", "joinApplier"}

\* When main returns, and with it the objects go, no thread of the replica or of
\* the pool and no handler is left to use them.
NothingOutlivesMain ==
    main = "returned" =>
        /\ \A t \in Threads : ~ Born(t)
        /\ pool = "joined"
        /\ InHandler = {} /\ ~ handler

\* A request whose Accept calls were posted when the pool was joined waits for
\* answers that nobody is left to ask for.
Stranded(r) == request[r] = "wait" /\ pool = "joined" /\ phase[r].pending # {}

\* StopAll needs the thread that calls it and another to end the session's reads.
StopCrashes == main = "crashed" /\ config.threads > 1 /\ stopper \notin {"idle", "signalled"}

\* After the signal main returns, as long as the log is in memory, no request
\* comes so late, and no session is there for another io thread to end.
SignalEndsMain ==
    stopper = "signalled" ~>
        main = "returned" \/ IsXrt \/ StopCrashes \/ \E r \in Requests : Stranded(r)

=============================================================================
