--------------------------- MODULE ClientSessions ---------------------------
(***************************************************************************)
(* The sessions of a replica's clients (client.{h,cc},                     *)
(* client_manager.{h,cc}), the acceptor and the executor that answers      *)
(* (replicant.cc).                                                         *)
(*                                                                         *)
(* A session's callbacks run one at a time, on the strand of its socket.   *)
(* The executor calls Write from its own thread.  MultiPaxos appears as    *)
(* what a session sees of it: Replicate is refused, or commits the command,*)
(* which the executor executes if ever it comes to it, before or after     *)
(* Replicate returns, and for the client whose id it finds there.          *)
(***************************************************************************)
EXTENDS Integers, Sequences, FiniteSets

CONSTANTS
    Sessions,      \* connections that are accepted, by client id
    MaxFailures,   \* bound: connections that fail at the client's end
    Stops,         \* whether the replica is stopped
    IsXrt          \* config["log"] = "xrt"

Nobody == "nobody"
Stranger == "stranger"   \* a client of another replica

ASSUME SessionsAssumption ==
    /\ IsFiniteSet(Sessions) /\ Nobody \notin Sessions /\ Stranger \notin Sessions
    /\ MaxFailures \in Nat
    /\ {Stops, IsXrt} \subseteq BOOLEAN

VARIABLES
    clients,   \* clients_
    socket,    \* socket_
    peer,      \* whether the client's end of the connection is up
    task,      \* what waits for, or has, the strand: a set for each session
    reading,   \* outstanding async_read_until
    writing,   \* outstanding async_write
    committed, \* sessions whose command the executor has not come to, in order
    target,    \* the client the executor has got and not yet written to
    blocked,   \* the executor waits in Execute with commands committed, or has ended
    misled,    \* sessions that lost an answer, or got one, by another's client id
    accepting, \* acceptor_ is open
    stopped,   \* StopAll has run
    crashed    \* Stop has dereferenced clients_.end()

strandVars == <<socket, task, reading, writing>>
executorVars == <<committed, target, blocked, misled>>
sessionVars == <<clients, peer, strandVars, executorVars, accepting, stopped, crashed>>

TypeOK ==
    /\ clients \subseteq Sessions
    /\ socket \in [Sessions -> {"none", "open", "closed"}]
    /\ peer \in [Sessions -> {"up", "gone"}]
    /\ task \in [Sessions -> SUBSET {"start", "close", "replicate", "return"}]
    /\ reading \in [Sessions -> Nat]
    /\ writing \in [Sessions -> Nat]
    /\ committed \in Seq(Sessions)
    /\ target \in Sessions \cup {Nobody}
    /\ misled \subseteq Sessions
    /\ {blocked, accepting, stopped, crashed} \subseteq BOOLEAN

Init ==
    /\ clients = {}
    /\ socket = [s \in Sessions |-> "none"]
    /\ peer = [s \in Sessions |-> "up"]
    /\ task = [s \in Sessions |-> {}]
    /\ reading = [s \in Sessions |-> 0]
    /\ writing = [s \in Sessions |-> 0]
    /\ committed = <<>> /\ target = Nobody /\ blocked = FALSE /\ misled = {}
    /\ accepting = TRUE /\ stopped = FALSE /\ crashed = FALSE

-----------------------------------------------------------------------------
(* ClientManager.                                                          *)

\* The session's id is new: NextClientId.
Start(s) ==
    /\ accepting
    /\ socket[s] = "none"
    /\ socket' = [socket EXCEPT ![s] = "open"]
    /\ clients' = clients \cup {s}
    /\ task' = [task EXCEPT ![s] = @ \cup {"start"}]
    /\ UNCHANGED <<peer, reading, writing, executorVars, accepting, stopped, crashed>>

\* Called on the strand, where Client::Stop closes the socket at once.
Stop(s) ==
    IF s \in clients
    THEN /\ clients' = clients \ {s}
         /\ socket' = [socket EXCEPT ![s] = "closed"]
         /\ UNCHANGED crashed
    ELSE /\ crashed' = TRUE
         /\ UNCHANGED <<clients, socket>>

\* Slip: an id that is not found is not noticed.
Unfound(id) == id

Get(id) == IF id \in clients THEN id ELSE Nobody

\* Slip: the sessions are forgotten and not stopped.
Forgotten(s) == task[s]

Closing(s) == task[s] \cup {"close"}

\* StopServer: the acceptor is closed by a task of its own.
StopAll ==
    /\ Stops
    /\ ~ stopped
    /\ stopped' = TRUE
    /\ clients' = {}
    /\ task' = [s \in Sessions |-> IF s \in clients THEN Closing(s) ELSE task[s]]
    /\ UNCHANGED <<socket, peer, reading, writing, executorVars, accepting, crashed>>

CloseAcceptor ==
    /\ stopped
    /\ accepting
    /\ accepting' = FALSE
    /\ UNCHANGED <<clients, peer, strandVars, executorVars, stopped, crashed>>

-----------------------------------------------------------------------------
(* Client.                                                                 *)

StrandIsFree(s) == task[s] \cap {"replicate", "return"} = {}

BeginRead(s) ==
    /\ "start" \in task[s]
    /\ StrandIsFree(s)
    /\ task' = [task EXCEPT ![s] = @ \ {"start"}]
    /\ reading' = [reading EXCEPT ![s] = @ + 1]
    /\ UNCHANGED <<clients, socket, peer, writing, executorVars, accepting, stopped, crashed>>

CloseSocket(s) ==
    /\ "close" \in task[s]
    /\ StrandIsFree(s)
    /\ task' = [task EXCEPT ![s] = @ \ {"close"}]
    /\ socket' = [socket EXCEPT ![s] = "closed"]
    /\ UNCHANGED <<clients, peer, reading, writing, executorVars, accepting, stopped, crashed>>

\* A request that Parse cannot read is answered at once.
ReadCompletes(s) ==
    /\ reading[s] > 0
    /\ StrandIsFree(s)
    /\ socket[s] = "open"
    /\ reading' = [reading EXCEPT ![s] = @ - 1]
    /\ \/ /\ task' = [task EXCEPT ![s] = @ \cup {"replicate"}]
          /\ UNCHANGED writing
       \/ /\ writing' = [writing EXCEPT ![s] = @ + 1]
          /\ UNCHANGED task
    /\ UNCHANGED <<clients, socket, peer, executorVars, accepting, stopped, crashed>>

Broken(s) == socket[s] = "closed" \/ peer[s] = "gone"

ReadFails(s) ==
    /\ reading[s] > 0
    /\ StrandIsFree(s)
    /\ Broken(s)
    /\ reading' = [reading EXCEPT ![s] = @ - 1]
    /\ Stop(s)
    /\ UNCHANGED <<peer, task, writing, executorVars, accepting, stopped>>

\* Replicate commits the command.  The executor may answer before it returns.
ReplicateCommits(s) ==
    /\ "replicate" \in task[s]
    /\ committed' = Append(committed, s)
    /\ task' = [task EXCEPT ![s] = (@ \ {"replicate"}) \cup {"return"}]
    /\ UNCHANGED <<clients, socket, peer, reading, writing, target, blocked, misled>>
    /\ UNCHANGED <<accepting, stopped, crashed>>

\* Slip: the handler answers what the executor will answer too.
AnswerOk(s) == [writing EXCEPT ![s] = @ + 1]

ReturnOk(s) == writing

ReplicateReturns(s) ==
    /\ "return" \in task[s]
    /\ task' = [task EXCEPT ![s] = @ \ {"return"}]
    /\ writing' = ReturnOk(s)
    /\ UNCHANGED <<clients, socket, peer, reading, executorVars, accepting, stopped, crashed>>

\* "retry", or "leader is".
ReplicateRefuses(s) ==
    /\ "replicate" \in task[s]
    /\ task' = [task EXCEPT ![s] = @ \ {"replicate"}]
    /\ writing' = [writing EXCEPT ![s] = @ + 1]
    /\ UNCHANGED <<clients, socket, peer, reading, executorVars, accepting, stopped, crashed>>

\* Slip: the session reads one request only.
NoRead(s) == reading

ReadAgain(s) == [reading EXCEPT ![s] = @ + 1]

WriteCompletes(s) ==
    /\ writing[s] > 0
    /\ StrandIsFree(s)
    /\ socket[s] = "open"
    /\ writing' = [writing EXCEPT ![s] = @ - 1]
    /\ reading' = ReadAgain(s)
    /\ UNCHANGED <<clients, socket, peer, task, executorVars, accepting, stopped, crashed>>

WriteFails(s) ==
    /\ writing[s] > 0
    /\ StrandIsFree(s)
    /\ Broken(s)
    /\ writing' = [writing EXCEPT ![s] = @ - 1]
    /\ Stop(s)
    /\ reading' = ReadAgain(s)
    /\ UNCHANGED <<peer, task, executorVars, accepting, stopped>>

-----------------------------------------------------------------------------
(* ExecutorThread: Execute and Get, then Write.                            *)

\* Execute waits: below the next command is an instance that never gets
\* committed, or its buffer is not full, or the log was stopped.
ExecutorBlocks ==
    /\ target = Nobody
    /\ committed # <<>>
    /\ ~ blocked
    /\ blocked' = TRUE
    /\ UNCHANGED <<clients, peer, strandVars, committed, target, misled>>
    /\ UNCHANGED <<accepting, stopped, crashed>>

ExecutorResumes ==
    /\ blocked
    /\ blocked' = FALSE
    /\ UNCHANGED <<clients, peer, strandVars, committed, target, misled>>
    /\ UNCHANGED <<accepting, stopped, crashed>>

\* The client id that Execute returns is the instance's, which may have replaced
\* the session's, or for an XrtLog whatever result_bo_map_ has in that place.
ResultIds == {Head(committed), Stranger} \cup (IF IsXrt THEN Sessions ELSE {})

ExecutorGet ==
    /\ target = Nobody
    /\ committed # <<>>
    /\ ~ blocked
    /\ \E id \in ResultIds :
          /\ target' = Get(id)
          /\ misled' = IF id = Head(committed) THEN misled
                       ELSE misled \cup {Head(committed)} \cup ({id} \cap clients)
    /\ committed' = Tail(committed)
    /\ UNCHANGED <<clients, peer, strandVars, blocked, accepting, stopped, crashed>>

ExecutorWrite ==
    /\ target # Nobody
    /\ writing' = [writing EXCEPT ![target] = @ + 1]
    /\ target' = Nobody
    /\ UNCHANGED <<clients, socket, peer, task, reading, committed, blocked, misled>>
    /\ UNCHANGED <<accepting, stopped, crashed>>

-----------------------------------------------------------------------------
\* The client closes its end of the connection, or the network does.
PeerFails(s) ==
    /\ socket[s] = "open"
    /\ peer[s] = "up"
    /\ Cardinality({t \in Sessions : peer[t] = "gone"}) < MaxFailures
    /\ ~ crashed
    /\ peer' = [peer EXCEPT ![s] = "gone"]
    /\ UNCHANGED <<clients, strandVars, executorVars, accepting, stopped, crashed>>

\* What happens on the strand of a session, by the executor and in the threads
\* that accept and stop.  A crash ends it all.
Replicate(s) ==
    /\ ~ crashed
    /\ ReplicateCommits(s) \/ ReplicateReturns(s) \/ ReplicateRefuses(s)

Callback(s) ==
    /\ ~ crashed
    /\ \/ BeginRead(s)
       \/ CloseSocket(s)
       \/ ReadCompletes(s)
       \/ ReadFails(s)
       \/ WriteCompletes(s)
       \/ WriteFails(s)

Executor ==
    /\ ~ crashed
    /\ ExecutorGet \/ ExecutorWrite

Waits ==
    /\ ~ crashed
    /\ ExecutorBlocks \/ ExecutorResumes

Server ==
    /\ ~ crashed
    /\ StopAll \/ CloseAcceptor \/ \E s \in Sessions : Start(s)

Next ==
    \/ \E s \in Sessions : Replicate(s) \/ Callback(s) \/ PeerFails(s)
    \/ Executor \/ Waits
    \/ Server

Spec == Init /\ [][Next]_sessionVars

\* The callbacks run, and the executor unless it waits in Execute.  Nobody need
\* connect, stop or fail, Replicate need not end nor Execute resume, and an
\* answer to a client that is gone may be written as if it were there.
FairSpec ==
    /\ Spec
    /\ \A s \in Sessions : WF_sessionVars(Callback(s))
    /\ WF_sessionVars(Executor)

-----------------------------------------------------------------------------
(* Properties.                                                             *)

\* client_manager.cc 31, CHECK(it != clients_.end()): ClientManager::Stop is
\* called for a session that is there, so once for each.
StopFindsClient == ~ crashed

\* What a session is doing, or has others do for it.
Turns(s) ==
    reading[s] + writing[s] + Cardinality(task[s] \cap {"start", "replicate"})
        + Cardinality({k \in DOMAIN committed : committed[k] = s})
        + Cardinality({target} \cap {s})

\* A session does one thing at a time although two threads call its Write: it
\* reads, or its request is in Replicate or at the executor, or an answer is on
\* its way.  So request_ and response_ are never used twice at once, and every
\* request gets one answer, as long as no result came with another's client id.
OneTurn == \A s \in Sessions \ misled : Turns(s) <= 1

\* A session that is not in clients_ any more is closed, or will be.
ForgottenIsClosed ==
    \A s \in Sessions :
        socket[s] = "open" /\ s \notin clients => "close" \in task[s]

Replicating(s) == ~ StrandIsFree(s)

\* The command was committed and the executor does not get to it.
Stranded(s) == blocked /\ \E k \in DOMAIN committed : committed[k] = s

\* As long as Replicate always ends and the replica is not stopped, every session
\* comes back to reading its next request or is closed, except one whose command
\* the executor never gets to or answers to another client.
ReadsAgainOrCloses ==
    (\A t \in Sessions : []<> ~ Replicating(t)) =>
    \A s \in Sessions :
        socket[s] = "open" ~>
            \/ reading[s] > 0 \/ socket[s] = "closed"
            \/ stopped \/ crashed
            \/ s \in misled \/ Stranded(s)

=============================================================================
