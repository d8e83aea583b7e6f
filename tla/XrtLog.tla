------------------------------- MODULE XrtLog -------------------------------
(***************************************************************************)
(* The log of one partition on the FPGA (kv-store-host/src/xrt_log.{h,cc}),*)
(* at the replica that has led from the start: a thread for each command   *)
(* that calls AdvanceLastIndex and Append, and Commit unless it gives up;  *)
(* the partition's executor thread; and EarlyApply, which runs the kernel  *)
(* on a buffer as soon as it is full.  The kernel copies the instances it  *)
(* is given to the results (kv-store_kernels/src/kv-hashmap.cpp).          *)
(*                                                                         *)
(* An instance is its index.  One action is an access to an atomic counter *)
(* or a section under mu_; proposals_ is written outside mu_.              *)
(***************************************************************************)
EXTENDS Integers, Sequences, FiniteSets

CONSTANTS
    BUFFER_SIZE,   \* instances in a buffer
    Clients,       \* sessions, each with at most one request unanswered
    MaxIndex,      \* bound: commands sent
    MaxRefused     \* bound: commands no majority stores; 0 in a cluster of one

ASSUME XrtLogAssumption ==
    /\ BUFFER_SIZE \in Nat \ {0}
    /\ Clients \in Nat \ {0}
    /\ MaxIndex \in Nat /\ MaxRefused \in Nat

BUFFER_COUNT == 2

Slots   == 0 .. BUFFER_SIZE - 1
Buffers == 0 .. BUFFER_COUNT - 1
Indexes == 1 .. MaxIndex

BufferOf(i) == ((i - 1) \div BUFFER_SIZE) % BUFFER_COUNT
OffsetOf(i) == (i - 1) % BUFFER_SIZE

VARIABLES
    lastIndex,     \* last_index_
    pc,            \* where the thread of an index is
    proposals,     \* proposals_: the index in every slot, 0 for none
    appendCounts,  \* append_counts_
    commitCounts,  \* commit_counts_
    bitmap,        \* bitmap_: 0 unused, 1 full, 2 committed, 3 executed
    logBo,         \* log_bo_, on the device
    resultBo,      \* result_bo_, on the device
    resultMap,     \* result_bo_map_, as of the latest sync
    current,       \* current_buffer_index
    applier,       \* the thread EarlyApply, and the slot its kernel run is at
    executor,      \* the executor thread: about to test the buffer, or waiting
    lastExecuted,  \* last_executed_
    lastApplied,   \* last_applied_index
    answers,       \* the instances Execute returned results of, in order
    mishaps        \* history: which of the three accidents of timing happened

bufferVars == <<proposals, appendCounts, commitCounts, bitmap, current>>
deviceVars == <<logBo, resultBo, resultMap>>
executorVars == <<executor, lastExecuted, answers, mishaps>>
xrtVars == <<lastIndex, pc, bufferVars, deviceVars, applier, executorVars, lastApplied>>

TypeOK ==
    /\ lastIndex \in 0 .. MaxIndex
    /\ pc \in [Indexes -> {"none", "append", "count", "test", "flush", "commit",
                           "committed", "lock", "asleep", "done", "refused"}]
    /\ proposals \in [Buffers -> [Slots -> 0 .. MaxIndex]]
    /\ appendCounts \in [Buffers -> 0 .. MaxIndex]
    /\ commitCounts \in [Buffers -> 0 .. MaxIndex]
    /\ bitmap \in [Buffers -> 0 .. 3]
    /\ {logBo, resultBo, resultMap} \subseteq [Slots -> 0 .. MaxIndex]
    /\ current \in Buffers
    /\ applier \in [pc : {"outer", "asleep", "run", "sync"}, slot : 0 .. BUFFER_SIZE]
    /\ executor \in {"outer", "asleep"}
    /\ lastExecuted \in 0 .. MaxIndex
    /\ lastApplied \in Nat
    /\ answers \in Seq(0 .. MaxIndex)
    /\ mishaps \subseteq {"slow", "premature", "twice"}

\* The constructor leaves most of the device's buffers unset: 0 is whatever
\* is there.
NoInstances == [o \in Slots |-> 0]

Init ==
    /\ lastIndex = 0
    /\ pc = [i \in Indexes |-> "none"]
    /\ proposals = [b \in Buffers |-> NoInstances]
    /\ appendCounts = [b \in Buffers |-> 0]
    /\ commitCounts = [b \in Buffers |-> 0]
    /\ bitmap = [b \in Buffers |-> 0]
    /\ logBo = NoInstances /\ resultBo = NoInstances /\ resultMap = NoInstances
    /\ current = 0
    /\ applier = [pc |-> "outer", slot |-> 0]
    /\ executor = "outer"
    /\ lastExecuted = 0 /\ lastApplied = 0
    /\ answers = <<>>
    /\ mishaps = {}

-----------------------------------------------------------------------------
(* Replicate, on the thread of the session that sent the request.          *)

Goto(i, next) == pc' = [pc EXCEPT ![i] = next]

\* Slip: Read goes on when the handler returns, with no answer.
InHandler == {i \in 1 .. lastIndex : pc[i] \notin {"done", "refused"}}

\* A session reads its next request when the handler of the previous one has
\* returned and an answer was sent: by the executor, or by Read to a refusal.
Unanswered == InHandler \cup {i \in 1 .. lastIndex : pc[i] = "done" /\ i > lastExecuted}

AdvanceLastIndex ==
    /\ lastIndex < MaxIndex
    /\ Cardinality(Unanswered) < Clients
    /\ lastIndex' = lastIndex + 1
    /\ Goto(lastIndex + 1, "append")
    /\ UNCHANGED <<bufferVars, deviceVars, applier, executorVars, lastApplied>>

\* The proposal is stored, then counted, then the counter is read again.
AppendStore(i) ==
    /\ pc[i] = "append"
    /\ proposals' = [proposals EXCEPT ![BufferOf(i)][OffsetOf(i)] = i]
    /\ Goto(i, "count")
    /\ UNCHANGED <<lastIndex, appendCounts, commitCounts, bitmap, current>>
    /\ UNCHANGED <<deviceVars, applier, executorVars, lastApplied>>

AppendCount(i) ==
    /\ pc[i] = "count"
    /\ appendCounts' = [appendCounts EXCEPT ![BufferOf(i)] = @ + 1]
    /\ Goto(i, "test")
    /\ UNCHANGED <<lastIndex, proposals, commitCounts, bitmap, current>>
    /\ UNCHANGED <<deviceVars, applier, executorVars, lastApplied>>

AppendTest(i) ==
    /\ pc[i] = "test"
    /\ Goto(i, IF appendCounts[BufferOf(i)] = BUFFER_SIZE THEN "flush" ELSE "commit")
    /\ UNCHANGED <<lastIndex, bufferVars, deviceVars, applier, executorVars, lastApplied>>

\* Two threads may find the buffer full, and both flush it.  The sleepers on
\* cv_appliable_ and cv_committable_ are notified.
Flush(i) ==
    LET b == BufferOf(i) IN
    /\ pc[i] = "flush"
    /\ logBo' = proposals[b]
    /\ bitmap' = [bitmap EXCEPT ![b] = 1]
    /\ lastIndex' = IF i > lastIndex THEN i ELSE lastIndex
    /\ current' = b
    /\ applier' = [applier EXCEPT !.pc = IF @ = "asleep" THEN "outer" ELSE @]
    /\ pc' = [j \in Indexes |-> IF j = i THEN "commit"
                                ELSE IF pc[j] = "asleep" THEN "lock" ELSE pc[j]]
    /\ UNCHANGED <<proposals, appendCounts, commitCounts, resultBo, resultMap>>
    /\ UNCHANGED <<executorVars, lastApplied>>

Refused == {i \in Indexes : pc[i] = "refused"}

\* RunAcceptPhase without a majority, or, before Append, without the ballot.
GiveUp(i) ==
    /\ pc[i] \in {"append", "commit"}
    /\ Cardinality(Refused) < MaxRefused
    /\ Goto(i, "refused")
    /\ UNCHANGED <<lastIndex, bufferVars, deviceVars, applier, executorVars, lastApplied>>

CommitCount(i) ==
    /\ pc[i] = "commit"
    /\ commitCounts' = [commitCounts EXCEPT ![BufferOf(i)] = @ + 1]
    /\ Goto(i, "committed")
    /\ UNCHANGED <<lastIndex, proposals, appendCounts, bitmap, current>>
    /\ UNCHANGED <<deviceVars, applier, executorVars, lastApplied>>

\* Slip: the last commit of a buffer is not waited for.
AllButOneCommitted(b) == commitCounts[b] >= BUFFER_SIZE - 1

AllCommitted(b) == commitCounts[b] = BUFFER_SIZE

CommitTest(i) ==
    /\ pc[i] = "committed"
    /\ Goto(i, IF AllCommitted(BufferOf(i)) THEN "lock" ELSE "done")
    /\ UNCHANGED <<lastIndex, bufferVars, deviceVars, applier, executorVars, lastApplied>>

\* Slip: the counter is not reset.
NotReset(b) == commitCounts

Reset(b) == [commitCounts EXCEPT ![b] = 0]

\* Two threads may find the counter full: the second to come finds the buffer
\* committed, and sleeps.
CommitBuffer(i) ==
    LET b == BufferOf(i) IN
    /\ pc[i] = "lock"
    /\ IF bitmap[b] # 1
       THEN /\ Goto(i, "asleep")
            /\ mishaps' = mishaps \cup IF bitmap[b] = 2 \/ lastExecuted >= i THEN {"twice"} ELSE {}
            /\ UNCHANGED <<bitmap, commitCounts, executor>>
       ELSE /\ bitmap' = [bitmap EXCEPT ![b] = 2]
            /\ commitCounts' = Reset(b)
            /\ executor' = "outer"
            /\ Goto(i, "done")
            /\ UNCHANGED mishaps
    /\ UNCHANGED <<lastIndex, proposals, appendCounts, current, deviceVars>>
    /\ UNCHANGED <<applier, lastExecuted, answers, lastApplied>>

-----------------------------------------------------------------------------
(* EarlyApply.                                                             *)

\* Under mu_: wait for a full buffer, and take it.  The counter may be full
\* before the flush: then what is taken is not in log_bo_ yet.
ApplierTest ==
    /\ applier.pc = "outer"
    /\ IF appendCounts[current] = BUFFER_SIZE
       THEN /\ appendCounts' = [appendCounts EXCEPT ![current] = 0]
            /\ applier' = [pc |-> "run", slot |-> 0]
            /\ mishaps' = mishaps \cup IF logBo = proposals[current] THEN {} ELSE {"premature"}
       ELSE /\ applier' = [applier EXCEPT !.pc = "asleep"]
            /\ UNCHANGED <<appendCounts, mishaps>>
    /\ UNCHANGED <<lastIndex, pc, proposals, commitCounts, bitmap, current>>
    /\ UNCHANGED <<deviceVars, executor, lastExecuted, answers, lastApplied>>

\* The kernel goes through the buffer, which a flush may replace meanwhile.
ApplierRun ==
    /\ applier.pc = "run"
    /\ resultBo' = [resultBo EXCEPT ![applier.slot] = logBo[applier.slot]]
    /\ applier' = [pc |-> IF applier.slot = BUFFER_SIZE - 1 THEN "sync" ELSE "run",
                   slot |-> applier.slot + 1]
    /\ UNCHANGED <<lastIndex, pc, bufferVars, logBo, resultMap, executorVars, lastApplied>>

ApplierSync ==
    /\ applier.pc = "sync"
    /\ resultMap' = resultBo
    /\ lastApplied' = lastApplied + BUFFER_SIZE
    /\ applier' = [pc |-> "outer", slot |-> 0]
    /\ UNCHANGED <<lastIndex, pc, bufferVars, logBo, resultBo, executorVars>>

-----------------------------------------------------------------------------
(* Execute, on the executor thread, which then answers the client.         *)

NextBuffer == (lastExecuted \div BUFFER_SIZE) % BUFFER_COUNT

IsExecutable == bitmap[NextBuffer] = 2

\* Slip: off by one.
Behind == lastExecuted > lastApplied

NotApplied == lastExecuted >= lastApplied

ExecutorWait ==
    /\ executor = "outer"
    /\ ~ IsExecutable
    /\ executor' = "asleep"
    /\ UNCHANGED <<lastIndex, pc, bufferVars, deviceVars, applier, lastExecuted>>
    /\ UNCHANGED <<answers, mishaps, lastApplied>>

\* "slow execution": the kernel is run under mu_, after the run of EarlyApply
\* that the device may be busy with.
RunKernel ==
    IF NotApplied
    THEN /\ applier.pc = "run" => applier.slot = 0
         /\ resultBo' = logBo
         /\ resultMap' = logBo
         /\ lastApplied' = lastApplied + BUFFER_SIZE
         /\ mishaps' = mishaps \cup {"slow"}
    ELSE UNCHANGED <<resultBo, resultMap, lastApplied, mishaps>>

\* Slip: the buffer remains committed.
NotExecuted(b) == bitmap

Executed(b) == [bitmap EXCEPT ![b] = 3]

Execute ==
    LET offset == lastExecuted % BUFFER_SIZE IN
    /\ executor = "outer"
    /\ IsExecutable
    /\ RunKernel
    /\ bitmap' = IF offset = BUFFER_SIZE - 1 THEN Executed(NextBuffer) ELSE bitmap
    /\ lastExecuted' = lastExecuted + 1
    /\ answers' = Append(answers, resultMap'[offset])
    /\ UNCHANGED <<lastIndex, pc, proposals, appendCounts, commitCounts, current>>
    /\ UNCHANGED <<logBo, applier, executor>>

-----------------------------------------------------------------------------
Thread(i) ==
    \/ AppendStore(i)
    \/ AppendCount(i)
    \/ AppendTest(i)
    \/ Flush(i)
    \/ GiveUp(i)
    \/ CommitCount(i)
    \/ CommitTest(i)
    \/ CommitBuffer(i)

EarlyApply == ApplierTest \/ ApplierRun \/ ApplierSync

ExecutorThread == ExecutorWait \/ Execute

Next ==
    \/ AdvanceLastIndex
    \/ \E i \in Indexes : Thread(i)
    \/ EarlyApply
    \/ ExecutorThread

Spec == Init /\ [][Next]_xrtVars

\* The threads run.  Clients need not send anything more.
FairSpec ==
    /\ Spec
    /\ \A i \in Indexes : WF_xrtVars(Thread(i))
    /\ WF_xrtVars(EarlyApply)
    /\ WF_xrtVars(ExecutorThread)

-----------------------------------------------------------------------------
(* Properties.  Three accidents of timing harm the log, and mishaps records *)
(* them: "slow", Execute comes before EarlyApply and runs the kernel itself;*)
(* "premature", EarlyApply takes a full buffer before it is flushed;        *)
(* "twice", two threads find the counter of commits full.  A refused command*)
(* harms it too: its slot is never committed, and the log stops there until *)
(* a later round of the buffer makes up the count.                          *)

\* That takes more refusals than the other buffers have slots, because every
\* other session waits for an answer from the buffer that is short of a commit.
FewRefused == Cardinality(Refused) <= BUFFER_SIZE * (BUFFER_COUNT - 1)

\* Nothing is executed before Commit was called for it and for the rest of its
\* buffer, whoever else's commits were counted, and however late the thread is
\* that commits the buffer.  (So nobody is answered by a buffer short of clients.)
Begun == ((lastExecuted + BUFFER_SIZE - 1) \div BUFFER_SIZE) * BUFFER_SIZE

ExecutedIsCommitted ==
    FewRefused =>
        \A i \in 1 .. Begun : pc[i] \in {"committed", "lock", "asleep", "done"}

\* As long as EarlyApply takes each buffer after its flush, and before Execute
\* gets to it, and no command is refused, the k-th result is that of instance k,
\* although there is one log_bo_ and one result_bo_ for both buffers.
OwnResults ==
    mishaps \cap {"slow", "premature"} = {} /\ Refused = {}
        => \A k \in DOMAIN answers : answers[k] = k

\* A buffer that is committed stays committed until it is executed: no thread
\* that found it full earlier, and is late, flushes it once more.
CommittedBufferStays ==
    [][FewRefused => \A b \in Buffers : bitmap[b] = 2 => bitmap'[b] \in {2, 3}]_xrtVars

\* A proposal is overwritten only when it has been executed, or was refused.  The
\* code checks nothing: it is the number of unanswered requests that keeps this.
NothingOverwritten ==
    [][FewRefused =>
         \A b \in Buffers, o \in Slots :
            proposals'[b][o] # proposals[b][o]
                => proposals[b][o] <= lastExecuted \/ proposals[b][o] \in Refused]_xrtVars

\* When the last index of a buffer has been given out, all of the buffer gets
\* executed and the calls of all its sessions return, as long as none of the
\* accidents happens and no command is refused.  (A slow execution is one:
\* append_counts_ may stay full, and the buffer is then not found full again.)
BuffersExecute ==
    \A i \in Indexes :
        (i % BUFFER_SIZE = 0 /\ lastIndex >= i)
            ~> \/ lastExecuted >= i /\ \A j \in 1 .. i : pc[j] = "done"
               \/ mishaps # {}
               \/ Refused # {}

=============================================================================
