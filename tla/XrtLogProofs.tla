---------------------------- MODULE XrtLogProofs ----------------------------
(***************************************************************************)
(* Theorems about XrtLog, for any size of the buffers and any number of    *)
(* commands, with at most as many clients as a buffer has slots.           *)
(***************************************************************************)
EXTENDS XrtLog, FiniteSetTheorems, TLAPS

-----------------------------------------------------------------------------
(* Indexes come in rounds of a buffer; buffers take turns.                 *)

\* The indexes of round k.
Round(k) == (k * BUFFER_SIZE + 1) .. (k * BUFFER_SIZE + BUFFER_SIZE)

\* An index is its round and its offset in it.
LEMMA Division ==
    ASSUME NEW n \in Nat
    PROVE  /\ n \div BUFFER_SIZE \in Nat /\ n % BUFFER_SIZE \in 0 .. BUFFER_SIZE - 1
           /\ n = (n \div BUFFER_SIZE) * BUFFER_SIZE + (n % BUFFER_SIZE)
  BY XrtLogAssumption

\* A round ends before any later one begins.
LEMMA RoundsAdvance ==
    ASSUME NEW k \in Nat, NEW m \in Nat, k < m
    PROVE  k * BUFFER_SIZE + BUFFER_SIZE <= m * BUFFER_SIZE
  <1> DEFINE d == m - k - 1
  <1>1. d \in Nat /\ m = k + 1 + d /\ BUFFER_SIZE \in Nat
    BY XrtLogAssumption
  <1>2. d * BUFFER_SIZE \in Nat /\ k * BUFFER_SIZE \in Nat
    BY <1>1
  <1> HIDE DEF d
  <1>3. m * BUFFER_SIZE = k * BUFFER_SIZE + BUFFER_SIZE + d * BUFFER_SIZE
    BY <1>1
  <1> QED
    BY <1>1, <1>2, <1>3

\* Every index is in a round, which gives its buffer and slot.
LEMMA RoundOf ==
    ASSUME NEW i \in Nat \ {0}
    PROVE  \E k \in Nat : /\ i \in Round(k) /\ BufferOf(i) = k % 2
                          /\ OffsetOf(i) = i - 1 - k * BUFFER_SIZE
  <1> DEFINE k == (i - 1) \div BUFFER_SIZE
  <1>1. /\ k \in Nat /\ (i - 1) % BUFFER_SIZE \in 0 .. BUFFER_SIZE - 1
        /\ i - 1 = k * BUFFER_SIZE + ((i - 1) % BUFFER_SIZE)
    BY Division
  <1>2. BufferOf(i) = k % 2 /\ OffsetOf(i) = (i - 1) % BUFFER_SIZE
    BY DEF BufferOf, OffsetOf, BUFFER_COUNT
  <1> HIDE DEF k
  <1>3. k * BUFFER_SIZE \in Nat /\ BUFFER_SIZE \in Nat
    BY <1>1, XrtLogAssumption
  <1>4. i \in Round(k) /\ OffsetOf(i) = i - 1 - k * BUFFER_SIZE
    BY <1>1, <1>2, <1>3 DEF Round
  <1> QED
    BY <1>1, <1>2, <1>4

\* The indexes of a round belong to one buffer, slot after slot.
LEMMA InRound ==
    ASSUME NEW k \in Nat, NEW i \in Round(k)
    PROVE  /\ i \in Nat \ {0} /\ BufferOf(i) = k % 2 /\ BufferOf(i) \in Buffers
           /\ OffsetOf(i) = i - 1 - k * BUFFER_SIZE /\ OffsetOf(i) \in Slots
  <1>1. k * BUFFER_SIZE \in Nat /\ BUFFER_SIZE \in Nat \ {0}
    BY XrtLogAssumption
  <1>2. i \in Nat \ {0} /\ k * BUFFER_SIZE < i /\ i <= k * BUFFER_SIZE + BUFFER_SIZE
    BY <1>1 DEF Round
  <1>3. PICK m \in Nat : /\ i \in Round(m) /\ BufferOf(i) = m % 2
                         /\ OffsetOf(i) = i - 1 - m * BUFFER_SIZE
    BY <1>2, RoundOf
  <1>4. m * BUFFER_SIZE \in Nat /\ m * BUFFER_SIZE < i /\ i <= m * BUFFER_SIZE + BUFFER_SIZE
    BY <1>1, <1>3 DEF Round
  <1>5. ~ (k < m) /\ ~ (m < k)
    BY <1>1, <1>2, <1>4, RoundsAdvance
  <1>6. k = m
    BY <1>5
  <1>7. k % 2 \in {0, 1}
    OBVIOUS
  <1> QED
    BY <1>1, <1>2, <1>3, <1>6, <1>7 DEF Buffers, Slots, BUFFER_COUNT

\* Rounds of the same buffer are two apart.
LEMMA RoundsOfOneBuffer ==
    ASSUME NEW k \in Nat, NEW m \in Nat, k < m, k % 2 = m % 2
    PROVE  k * BUFFER_SIZE + 2 * BUFFER_SIZE <= m * BUFFER_SIZE
  <1>1. k + 1 < m /\ k + 1 \in Nat
    OBVIOUS
  <1>2. (k + 1) * BUFFER_SIZE + BUFFER_SIZE <= m * BUFFER_SIZE
    BY <1>1, RoundsAdvance
  <1>3. (k + 1) * BUFFER_SIZE = k * BUFFER_SIZE + BUFFER_SIZE
    BY XrtLogAssumption
  <1>4. k * BUFFER_SIZE \in Nat /\ m * BUFFER_SIZE \in Nat /\ BUFFER_SIZE \in Nat
    BY XrtLogAssumption
  <1> QED
    BY <1>2, <1>3, <1>4

\* What is in the buffer of round k, and not before it, is in it or two on ...
LEMMA InRoundOrLater ==
    ASSUME NEW k \in Nat, NEW i \in Nat \ {0}, BufferOf(i) = k % 2,
           i > k * BUFFER_SIZE, i <= k * BUFFER_SIZE + 2 * BUFFER_SIZE
    PROVE  i \in Round(k)
  <1>1. PICK m \in Nat : i \in Round(m) /\ BufferOf(i) = m % 2
    BY RoundOf
  <1>2. k * BUFFER_SIZE \in Nat /\ m * BUFFER_SIZE \in Nat /\ BUFFER_SIZE \in Nat \ {0}
    BY XrtLogAssumption
  <1>3. m * BUFFER_SIZE < i /\ i <= m * BUFFER_SIZE + BUFFER_SIZE
    BY <1>1, <1>2 DEF Round
  <1>4. ~ (k < m)
    BY <1>1, <1>2, <1>3, RoundsOfOneBuffer
  <1>5. ~ (m < k)
    BY <1>2, <1>3, RoundsAdvance
  <1> QED
    BY <1>1, <1>4, <1>5

\* ... and what is before it is two rounds before.
LEMMA TwoRoundsBefore ==
    ASSUME NEW k \in Nat, NEW i \in Nat \ {0}, BufferOf(i) = k % 2, i <= k * BUFFER_SIZE
    PROVE  /\ i + BUFFER_SIZE <= k * BUFFER_SIZE
           /\ \A j \in Round(k) : OffsetOf(i) = OffsetOf(j) => i + 2 * BUFFER_SIZE <= j
           /\ k - 1 \in Nat /\ \A j \in Round(k - 1) : i < j
  <1>1. PICK m \in Nat : /\ i \in Round(m) /\ BufferOf(i) = m % 2
                         /\ OffsetOf(i) = i - 1 - m * BUFFER_SIZE
    BY RoundOf
  <1>2. k * BUFFER_SIZE \in Nat /\ m * BUFFER_SIZE \in Nat /\ BUFFER_SIZE \in Nat \ {0}
    BY XrtLogAssumption
  <1>3. m * BUFFER_SIZE < i /\ i <= m * BUFFER_SIZE + BUFFER_SIZE
    BY <1>1, <1>2 DEF Round
  <1>4. m < k
    <2>1. ~ (k < m)
      BY <1>2, <1>3, RoundsAdvance
    <2> QED
      BY <1>2, <1>3, <2>1
  <1>5. m * BUFFER_SIZE + 2 * BUFFER_SIZE <= k * BUFFER_SIZE
    BY <1>1, <1>4, RoundsOfOneBuffer
  <1>6. i + BUFFER_SIZE <= k * BUFFER_SIZE
    BY <1>2, <1>3, <1>5
  <1>7. ASSUME NEW j \in Round(k), OffsetOf(i) = OffsetOf(j)
        PROVE  i + 2 * BUFFER_SIZE <= j
    <2>1. OffsetOf(j) = j - 1 - k * BUFFER_SIZE /\ j \in Nat
      BY InRound
    <2> QED
      BY <1>1, <1>2, <1>5, <1>7, <2>1
  <1>8. k - 1 \in Nat /\ (k - 1) * BUFFER_SIZE = k * BUFFER_SIZE - BUFFER_SIZE
    BY <1>2, <1>4
  <1>9. ASSUME NEW j \in Round(k - 1)
        PROVE  i < j
    BY <1>2, <1>6, <1>8 DEF Round
  <1> QED
    BY <1>6, <1>7, <1>8, <1>9

\* A round has as many indexes as a buffer has slots, each with its own slot.
LEMMA RoundSize ==
    ASSUME NEW k \in Nat
    PROVE  /\ IsFiniteSet(Round(k)) /\ Cardinality(Round(k)) = BUFFER_SIZE
           /\ \A i, j \in Round(k) : OffsetOf(i) = OffsetOf(j) => i = j
  <1>1. k * BUFFER_SIZE \in Nat /\ BUFFER_SIZE \in Nat \ {0}
    BY XrtLogAssumption
  <1>2. IsFiniteSet(Round(k)) /\ Cardinality(Round(k)) = BUFFER_SIZE
    BY <1>1, FS_Interval DEF Round
  <1>3. \A i \in Round(k) : i \in Nat /\ OffsetOf(i) = i - 1 - k * BUFFER_SIZE
    BY InRound
  <1> QED
    BY <1>1, <1>2, <1>3

-----------------------------------------------------------------------------
(* The invariant.  These parts of it hold however many are refused.        *)

Stages == {"none", "append", "count", "test", "flush", "commit",
           "committed", "lock", "asleep", "done", "refused"}

LogTypes ==
    /\ lastIndex \in 0 .. MaxIndex
    /\ pc \in [Indexes -> Stages]
    /\ proposals \in [Buffers -> [Slots -> 0 .. MaxIndex]]
    /\ appendCounts \in [Buffers -> Nat]
    /\ commitCounts \in [Buffers -> Nat]
    /\ bitmap \in [Buffers -> 0 .. 3]
    /\ current \in Buffers
    /\ lastExecuted \in Nat

\* An index has a thread when it has been given out.
GivenHaveThreads == \A i \in Indexes : pc[i] = "none" <=> i > lastIndex

FewUnanswered == IsFiniteSet(Unanswered) /\ Cardinality(Unanswered) <= Clients

Stored(i) == proposals[BufferOf(i)][OffsetOf(i)] = i

\* A slot holds an index that was given out, and belongs there.
SlotsHoldTheirs ==
    \A b \in Buffers, o \in Slots :
        LET i == proposals[b][o] IN
        i # 0 => i <= lastIndex /\ BufferOf(i) = b /\ OffsetOf(i) = o

NotStoredYet == \A i \in Indexes : pc[i] = "append" => ~ Stored(i)

Basics ==
    LogTypes /\ GivenHaveThreads /\ FewUnanswered /\ SlotsHoldTheirs /\ NotStoredYet

\* What the others see of a step of a thread.
Moved(p, q) ==
    \/ q = p
    \/ p = "none" /\ q = "append"
    \/ p = "append" /\ q \in {"count", "refused"}
    \/ p = "count" /\ q = "test"
    \/ p = "test" /\ q \in {"flush", "commit"}
    \/ p = "flush" /\ q = "commit"
    \/ p = "commit" /\ q \in {"committed", "refused"}
    \/ p = "committed" /\ q \in {"lock", "done"}
    \/ p = "lock" /\ q \in {"asleep", "done"}
    \/ p = "asleep" /\ q = "lock"

\* The steps that leave the buffers' counters and the threads alone.
OtherThreads == ApplierRun \/ ApplierSync \/ ExecutorWait

\* An index belongs to a buffer and a slot of it.
LEMMA IndexHasSlot ==
    ASSUME NEW i \in Indexes
    PROVE  i \in Nat \ {0} /\ BufferOf(i) \in Buffers /\ OffsetOf(i) \in Slots
  <1>1. i \in Nat \ {0}
    BY DEF Indexes
  <1>2. PICK k \in Nat : i \in Round(k)
    BY <1>1, RoundOf
  <1> QED
    BY <1>1, <1>2, InRound

\* CommitBuffer puts its thread to sleep, or it commits the buffer.
LEMMA CommitBufferDoes ==
    ASSUME LogTypes, NEW i \in Indexes, CommitBuffer(i)
    PROVE  /\ pc[i] = "lock"
           /\ UNCHANGED <<lastIndex, proposals, appendCounts, current, lastExecuted>>
           /\ \/ /\ bitmap[BufferOf(i)] # 1
                 /\ pc' = [pc EXCEPT ![i] = "asleep"]
                 /\ UNCHANGED <<bitmap, commitCounts>>
              \/ /\ bitmap[BufferOf(i)] = 1
                 /\ pc' = [pc EXCEPT ![i] = "done"]
                 /\ bitmap' = [bitmap EXCEPT ![BufferOf(i)] = 2]
                 /\ commitCounts' = [commitCounts EXCEPT ![BufferOf(i)] = 0]
  <1>1. CASE bitmap[BufferOf(i)] # 1
    BY <1>1 DEF CommitBuffer, Goto
  <1>2. CASE bitmap[BufferOf(i)] = 1
    BY <1>2 DEF CommitBuffer, Goto, Reset
  <1> QED
    BY <1>1, <1>2

\* ApplierTest may reset a full counter.
LEMMA ApplierTestDoes ==
    ASSUME LogTypes, ApplierTest
    PROVE  /\ UNCHANGED <<lastIndex, pc, proposals, commitCounts, bitmap, current, lastExecuted>>
           /\ \/ UNCHANGED appendCounts
              \/ /\ appendCounts[current] = BUFFER_SIZE
                 /\ appendCounts' = [appendCounts EXCEPT ![current] = 0]
  BY DEF ApplierTest

\* Execute goes on by one in a committed buffer, and leaves it at its end.
LEMMA ExecuteDoes ==
    ASSUME LogTypes, Execute
    PROVE  /\ bitmap[NextBuffer] = 2
           /\ UNCHANGED <<lastIndex, pc, proposals, appendCounts, commitCounts, current>>
           /\ lastExecuted' = lastExecuted + 1
           /\ \/ /\ lastExecuted % BUFFER_SIZE = BUFFER_SIZE - 1
                 /\ bitmap' = [bitmap EXCEPT ![NextBuffer] = 3]
              \/ /\ lastExecuted % BUFFER_SIZE # BUFFER_SIZE - 1
                 /\ UNCHANGED bitmap
  BY DEF Execute, Executed, IsExecutable

\* Flush makes the buffer full, and wakes the threads that wait for that.
LEMMA FlushDoes ==
    ASSUME LogTypes, GivenHaveThreads, NEW i \in Indexes, Flush(i)
    PROVE  /\ pc[i] = "flush"
           /\ bitmap' = [bitmap EXCEPT ![BufferOf(i)] = 1]
           /\ current' = BufferOf(i)
           /\ \A j \in Indexes : pc'[j] = IF j = i THEN "commit"
                                          ELSE IF pc[j] = "asleep" THEN "lock" ELSE pc[j]
           /\ UNCHANGED <<lastIndex, proposals, appendCounts, commitCounts, lastExecuted>>
  <1>1. i <= lastIndex /\ lastIndex \in Nat /\ i \in Nat
    BY DEF GivenHaveThreads, Flush, Indexes, LogTypes
  <1> QED
    BY <1>1 DEF Flush, executorVars, LogTypes

\* The variables keep their types.
LEMMA LogTypesStep ==
    ASSUME LogTypes, GivenHaveThreads, [Next]_xrtVars
    PROVE  LogTypes'
  <1> USE DEF LogTypes
  <1> USE DEF Stages
  <1>1. CASE AdvanceLastIndex
    BY <1>1, XrtLogAssumption DEF AdvanceLastIndex, Goto, Indexes, bufferVars, executorVars
  <1>2. ASSUME NEW i \in Indexes, Thread(i)
        PROVE  LogTypes'
    <2>0. i \in 1 .. MaxIndex /\ BufferOf(i) \in Buffers /\ OffsetOf(i) \in Slots
      BY IndexHasSlot DEF Indexes
    <2>1. CASE AppendStore(i)
      BY <2>0, <2>1 DEF AppendStore, Goto, executorVars
    <2>2. CASE AppendCount(i)
      BY <2>0, <2>2 DEF AppendCount, Goto, executorVars
    <2>3. CASE AppendTest(i)
      BY <2>0, <2>3 DEF AppendTest, Goto, executorVars, bufferVars
    <2>4. CASE Flush(i)
      BY <2>0, <2>4 DEF Flush, executorVars
    <2>5. CASE GiveUp(i)
      BY <2>0, <2>5 DEF GiveUp, Goto, executorVars, bufferVars
    <2>6. CASE CommitCount(i)
      BY <2>0, <2>6 DEF CommitCount, Goto, executorVars
    <2>7. CASE CommitTest(i)
      BY <2>0, <2>7 DEF CommitTest, Goto, executorVars, bufferVars
    <2>8. CASE CommitBuffer(i)
      <3>1. CASE bitmap[BufferOf(i)] # 1
        BY <2>0, <2>8, <3>1, CommitBufferDoes
      <3>2. CASE bitmap[BufferOf(i)] = 1
        <4>1. bitmap' = [bitmap EXCEPT ![BufferOf(i)] = 2] /\ pc' = [pc EXCEPT ![i] = "done"]
          BY <2>8, <3>2, CommitBufferDoes
        <4>2. commitCounts' = [commitCounts EXCEPT ![BufferOf(i)] = 0]
          BY <2>8, <3>2, CommitBufferDoes
        <4>3. UNCHANGED <<lastIndex, proposals, appendCounts, current, lastExecuted>>
          BY <2>8, CommitBufferDoes
        <4>4. bitmap' \in [Buffers -> 0 .. 3]
          <5>1. bitmap' = [bitmap EXCEPT ![BufferOf(i)] = 2]
            BY <4>1
          <5>2. bitmap \in [Buffers -> 0 .. 3] /\ 2 \in 0 .. 3
            OBVIOUS
          <5> HIDE DEF LogTypes
          <5> QED
            BY <5>1, <5>2
        <4>5. pc' \in [Indexes -> Stages]
          BY <4>1
        <4>6. commitCounts' \in [Buffers -> Nat]
          BY <4>2
        <4> QED
          BY <4>3, <4>4, <4>5, <4>6
      <3> QED
        BY <3>1, <3>2
    <2> QED
      BY <1>2, <2>1, <2>2, <2>3, <2>4, <2>5, <2>6, <2>7, <2>8 DEF Thread
  <1>3. CASE ApplierTest
    BY <1>3, ApplierTestDoes
  <1>4. CASE OtherThreads
    BY <1>4 DEF OtherThreads, ApplierRun, ApplierSync, ExecutorWait, bufferVars, executorVars
  <1>5. CASE Execute
    BY <1>5, ExecuteDoes
  <1>6. CASE UNCHANGED xrtVars
    BY <1>6 DEF xrtVars, bufferVars, executorVars
  <1> QED
    BY <1>1, <1>2, <1>3, <1>4, <1>5, <1>6 DEF Next, EarlyApply, ExecutorThread, OtherThreads

\* Of an index, a step takes the thread on, or nothing; of the counter of
\* indexes, it gives out the next one, or nothing.
LEMMA ThreadsMove ==
    ASSUME LogTypes, GivenHaveThreads, [Next]_xrtVars
    PROVE  /\ \A j \in Indexes : Moved(pc[j], pc'[j])
           /\ \/ lastIndex' = lastIndex /\ \A j \in Indexes : pc[j] = "none" <=> pc'[j] = "none"
              \/ /\ lastIndex < MaxIndex /\ lastIndex' = lastIndex + 1
                 /\ pc' = [pc EXCEPT ![lastIndex + 1] = "append"]
                 /\ Cardinality(Unanswered) < Clients
                 /\ UNCHANGED <<proposals, appendCounts, commitCounts, bitmap, lastExecuted>>
  <1> USE DEF LogTypes, Moved
  <1>1. CASE AdvanceLastIndex
    <2>1. /\ lastIndex < MaxIndex /\ lastIndex' = lastIndex + 1
          /\ pc' = [pc EXCEPT ![lastIndex + 1] = "append"]
          /\ Cardinality(Unanswered) < Clients
          /\ UNCHANGED <<proposals, appendCounts, commitCounts, bitmap, lastExecuted>>
      BY <1>1 DEF AdvanceLastIndex, Goto, bufferVars, executorVars
    <2>2. pc[lastIndex + 1] = "none"
      BY <2>1, XrtLogAssumption DEF GivenHaveThreads, Indexes
    <2> QED
      BY <2>1, <2>2
  <1>2. ASSUME NEW i \in Indexes, Thread(i)
        PROVE  /\ lastIndex' = lastIndex
               /\ \A j \in Indexes : Moved(pc[j], pc'[j])
               /\ \A j \in Indexes : pc[j] = "none" <=> pc'[j] = "none"
    <2>1. CASE AppendStore(i)
      BY <2>1 DEF AppendStore, Goto
    <2>2. CASE AppendCount(i)
      BY <2>2 DEF AppendCount, Goto
    <2>3. CASE AppendTest(i)
      BY <2>3 DEF AppendTest, Goto
    <2>4. CASE Flush(i)
      <3>1. i <= lastIndex /\ lastIndex \in Nat /\ i \in Nat
        BY <2>4 DEF GivenHaveThreads, Flush, Indexes
      <3> QED
        BY <2>4, <3>1 DEF Flush
    <2>5. CASE GiveUp(i)
      BY <2>5 DEF GiveUp, Goto
    <2>6. CASE CommitCount(i)
      BY <2>6 DEF CommitCount, Goto
    <2>7. CASE CommitTest(i)
      BY <2>7 DEF CommitTest, Goto
    <2>8. CASE CommitBuffer(i)
      BY <2>8 DEF CommitBuffer, Goto
    <2> QED
      BY <1>2, <2>1, <2>2, <2>3, <2>4, <2>5, <2>6, <2>7, <2>8 DEF Thread
  <1>3. CASE ApplierTest
    BY <1>3 DEF ApplierTest
  <1>4. CASE OtherThreads
    BY <1>4 DEF OtherThreads, ApplierRun, ApplierSync, ExecutorWait
  <1>5. CASE Execute
    BY <1>5 DEF Execute
  <1>6. CASE UNCHANGED xrtVars
    BY <1>6 DEF xrtVars
  <1> QED
    BY <1>1, <1>2, <1>3, <1>4, <1>5, <1>6 DEF Next, EarlyApply, ExecutorThread, OtherThreads

\* An index has a thread if AdvanceLastIndex has given it out, and only then.
LEMMA GivenHaveThreadsStep ==
    ASSUME LogTypes, GivenHaveThreads, [Next]_xrtVars
    PROVE  GivenHaveThreads'
  <1>1. CASE lastIndex' = lastIndex /\ \A j \in Indexes : pc[j] = "none" <=> pc'[j] = "none"
    BY <1>1 DEF GivenHaveThreads
  <1>2. CASE lastIndex' = lastIndex + 1 /\ pc' = [pc EXCEPT ![lastIndex + 1] = "append"]
    BY <1>2 DEF GivenHaveThreads, LogTypes, Indexes
  <1> QED
    BY <1>1, <1>2, ThreadsMove

\* Which step changes what.
LEMMA WhatChanges ==
    ASSUME LogTypes, GivenHaveThreads, [Next]_xrtVars
    PROVE  /\ UNCHANGED proposals \/ \E i \in Indexes : AppendStore(i)
           /\ UNCHANGED appendCounts \/ ApplierTest \/ \E i \in Indexes : AppendCount(i)
           /\ UNCHANGED commitCounts \/ \E i \in Indexes : CommitCount(i) \/ CommitBuffer(i)
           /\ UNCHANGED bitmap \/ Execute \/ \E i \in Indexes : Flush(i) \/ CommitBuffer(i)
           /\ UNCHANGED lastExecuted \/ Execute
           /\ UNCHANGED pc \/ AdvanceLastIndex \/ \E i \in Indexes : Thread(i)
  <1>1. CASE AdvanceLastIndex
    BY <1>1 DEF AdvanceLastIndex, bufferVars, executorVars
  <1>2. ASSUME NEW i \in Indexes, Thread(i)
        PROVE  /\ UNCHANGED proposals \/ AppendStore(i)
               /\ UNCHANGED appendCounts \/ AppendCount(i)
               /\ UNCHANGED commitCounts \/ CommitCount(i) \/ CommitBuffer(i)
               /\ UNCHANGED bitmap \/ Flush(i) \/ CommitBuffer(i)
               /\ UNCHANGED lastExecuted
    <2>1. CASE AppendStore(i)
      BY <2>1 DEF AppendStore, executorVars
    <2>2. CASE AppendCount(i)
      BY <2>2 DEF AppendCount, executorVars
    <2>3. CASE AppendTest(i)
      BY <2>3 DEF AppendTest, executorVars, bufferVars
    <2>4. CASE Flush(i)
      BY <2>4, FlushDoes
    <2>5. CASE GiveUp(i)
      BY <2>5 DEF GiveUp, executorVars, bufferVars
    <2>6. CASE CommitCount(i)
      BY <2>6 DEF CommitCount, executorVars
    <2>7. CASE CommitTest(i)
      BY <2>7 DEF CommitTest, executorVars, bufferVars
    <2>8. CASE CommitBuffer(i)
      BY <2>8, CommitBufferDoes
    <2> QED
      BY <1>2, <2>1, <2>2, <2>3, <2>4, <2>5, <2>6, <2>7, <2>8 DEF Thread
  <1>3. CASE ApplierTest
    BY <1>3, ApplierTestDoes
  <1>4. CASE OtherThreads
    BY <1>4 DEF OtherThreads, ApplierRun, ApplierSync, ExecutorWait, bufferVars, executorVars
  <1>5. CASE Execute
    BY <1>5, ExecuteDoes
  <1>6. CASE UNCHANGED xrtVars
    BY <1>6 DEF xrtVars, bufferVars, executorVars
  <1> QED
    BY <1>1, <1>2, <1>3, <1>4, <1>5, <1>6 DEF Next, EarlyApply, ExecutorThread, OtherThreads

\* Nobody has more requests unanswered after a step than it may send.
LEMMA FewUnansweredStep ==
    ASSUME LogTypes, GivenHaveThreads, FewUnanswered, [Next]_xrtVars
    PROVE  FewUnanswered'
  <1>1. \A j \in Indexes : Moved(pc[j], pc'[j])
    BY ThreadsMove
  <1>2. lastExecuted \in Nat /\ lastExecuted' \in Nat /\ lastExecuted' >= lastExecuted
    BY WhatChanges, ExecuteDoes DEF LogTypes
  <1>3. lastIndex \in Nat /\ lastIndex <= MaxIndex /\ MaxIndex \in Nat
    BY XrtLogAssumption DEF LogTypes
  <1>4. CASE lastIndex' = lastIndex /\ \A j \in Indexes : pc[j] = "none" <=> pc'[j] = "none"
    <2>1. ASSUME NEW j \in Unanswered'
          PROVE  j \in Unanswered
      <3>1. /\ j \in 1 .. lastIndex /\ j \in Indexes /\ pc'[j] # "refused"
            /\ pc'[j] = "done" => j > lastExecuted'
        BY <1>3, <1>4, <2>1 DEF Unanswered, InHandler, Indexes
      <3>2. Moved(pc[j], pc'[j]) /\ j \in Nat
        BY <1>1, <3>1 DEF Indexes
      <3>3. pc[j] # "refused" /\ (pc[j] = "done" => j > lastExecuted)
        BY <1>2, <3>1, <3>2 DEF Moved
      <3> QED
        BY <3>1, <3>3 DEF Unanswered, InHandler
    <2>2. Unanswered' \subseteq Unanswered
      BY <2>1
    <2>3. IsFiniteSet(Unanswered') /\ Cardinality(Unanswered') <= Cardinality(Unanswered)
      BY <2>2, FS_Subset DEF FewUnanswered
    <2>4. Cardinality(Unanswered') \in Nat /\ Cardinality(Unanswered) \in Nat
      BY <2>3, FS_CardinalityType DEF FewUnanswered
    <2> QED
      BY <2>3, <2>4, XrtLogAssumption DEF FewUnanswered
  <1>5. CASE /\ lastIndex < MaxIndex /\ lastIndex' = lastIndex + 1
             /\ pc' = [pc EXCEPT ![lastIndex + 1] = "append"]
             /\ Cardinality(Unanswered) < Clients /\ UNCHANGED lastExecuted
    <2>1. ASSUME NEW j \in Unanswered', j # lastIndex + 1
          PROVE  j \in Unanswered
      <3>1. j \in 1 .. lastIndex /\ j \in Indexes /\ pc'[j] = pc[j]
        BY <1>3, <1>5, <2>1 DEF Unanswered, InHandler, Indexes, LogTypes
      <3> QED
        BY <1>5, <2>1, <3>1 DEF Unanswered, InHandler
    <2>2. Unanswered' \subseteq Unanswered \cup {lastIndex + 1}
      BY <2>1
    <2>3. /\ IsFiniteSet(Unanswered \cup {lastIndex + 1})
          /\ Cardinality(Unanswered \cup {lastIndex + 1}) <= Cardinality(Unanswered) + 1
          /\ Cardinality(Unanswered) \in Nat
      BY FS_AddElement, FS_CardinalityType DEF FewUnanswered
    <2>4. /\ IsFiniteSet(Unanswered')
          /\ Cardinality(Unanswered') <= Cardinality(Unanswered \cup {lastIndex + 1})
      BY <2>2, <2>3, FS_Subset
    <2>5. /\ Cardinality(Unanswered') \in Nat
          /\ Cardinality(Unanswered \cup {lastIndex + 1}) \in Nat
      BY <2>3, <2>4, FS_CardinalityType
    <2> QED
      BY <1>5, <2>3, <2>4, <2>5, XrtLogAssumption DEF FewUnanswered
  <1> QED
    BY <1>4, <1>5, ThreadsMove

\* What AppendStore puts in a slot was given out, and belongs there.
LEMMA SlotsHoldTheirsStep ==
    ASSUME LogTypes, GivenHaveThreads, SlotsHoldTheirs, [Next]_xrtVars
    PROVE  SlotsHoldTheirs'
  <1>1. lastIndex \in Nat /\ lastIndex' \in Nat /\ lastIndex <= lastIndex'
    BY ThreadsMove DEF LogTypes
  <1>2. \A b \in Buffers, o \in Slots : proposals[b][o] \in Nat
    BY DEF LogTypes
  <1>3. CASE UNCHANGED proposals
    BY <1>1, <1>2, <1>3 DEF SlotsHoldTheirs
  <1>4. ASSUME NEW i \in Indexes, AppendStore(i)
        PROVE  SlotsHoldTheirs'
    <2>1. i \in Nat /\ BufferOf(i) \in Buffers /\ OffsetOf(i) \in Slots
      BY IndexHasSlot DEF Indexes
    <2>2. i <= lastIndex'
      BY <1>1, <1>4, <2>1 DEF AppendStore, GivenHaveThreads
    <2>3. ASSUME NEW b \in Buffers, NEW o \in Slots
          PROVE  proposals'[b][o] = IF b = BufferOf(i) /\ o = OffsetOf(i) THEN i
                                    ELSE proposals[b][o]
      BY <1>4, <2>1 DEF AppendStore, LogTypes
    <2> QED
      BY <1>1, <1>2, <2>1, <2>2, <2>3 DEF SlotsHoldTheirs
  <1> QED
    BY <1>3, <1>4, WhatChanges

\* A thread that has yet to store its index finds another one, or none, there.
LEMMA NotStoredYetStep ==
    ASSUME LogTypes, GivenHaveThreads, SlotsHoldTheirs, NotStoredYet, [Next]_xrtVars
    PROVE  NotStoredYet'
  <1> SUFFICES ASSUME NEW j \in Indexes, pc'[j] = "append"
               PROVE  proposals'[BufferOf(j)][OffsetOf(j)] # j
    BY DEF NotStoredYet, Stored
  <1>1. j \in Nat /\ j # 0 /\ BufferOf(j) \in Buffers /\ OffsetOf(j) \in Slots
    BY IndexHasSlot
  <1>2. pc[j] \in {"none", "append"}
    BY ThreadsMove DEF Moved
  <1>3. proposals[BufferOf(j)][OffsetOf(j)] # j
    <2>1. CASE pc[j] = "none"
      BY <1>1, <2>1 DEF GivenHaveThreads, SlotsHoldTheirs, LogTypes
    <2>2. CASE pc[j] = "append"
      BY <2>2 DEF NotStoredYet, Stored
    <2> QED
      BY <1>2, <2>1, <2>2
  <1>4. CASE UNCHANGED proposals
    BY <1>3, <1>4
  <1>5. ASSUME NEW i \in Indexes, AppendStore(i)
        PROVE  proposals'[BufferOf(j)][OffsetOf(j)] # j
    <2>1. pc'[i] = "count" /\ i # j
      BY <1>5 DEF AppendStore, Goto, LogTypes
    <2>2. BufferOf(i) \in Buffers /\ OffsetOf(i) \in Slots
      BY IndexHasSlot
    <2>3. proposals'[BufferOf(j)][OffsetOf(j)] \in {i, proposals[BufferOf(j)][OffsetOf(j)]}
      BY <1>1, <1>5, <2>2 DEF AppendStore, LogTypes
    <2> QED
      BY <1>3, <2>1, <2>3
  <1> QED
    BY <1>4, <1>5, WhatChanges

\* Every step keeps what holds however many are refused.
LEMMA BasicsStep ==
    ASSUME Basics, [Next]_xrtVars
    PROVE  Basics'
  BY LogTypesStep, GivenHaveThreadsStep, FewUnansweredStep, SlotsHoldTheirsStep,
     NotStoredYetStep DEF Basics

\* It holds of an empty log.
LEMMA BasicsInit ==
    ASSUME Init
    PROVE  Basics
  <1>1. LogTypes
    BY XrtLogAssumption DEF Init, LogTypes, Stages, NoInstances, Buffers, BUFFER_COUNT
  <1>2. GivenHaveThreads /\ NotStoredYet
    BY DEF Init, GivenHaveThreads, NotStoredYet, Indexes
  <1>3. SlotsHoldTheirs
    BY DEF Init, SlotsHoldTheirs, NoInstances
  <1>4. Unanswered = {}
    BY DEF Init, Unanswered, InHandler
  <1>5. FewUnanswered
    BY <1>4, FS_EmptySet, XrtLogAssumption DEF FewUnanswered
  <1> QED
    BY <1>1, <1>2, <1>3, <1>5 DEF Basics

-----------------------------------------------------------------------------
(* The rest of the invariant.  Every buffer has a round that is open: the  *)
(* one it takes proposals of, or those of before it are not all executed.  *)

FewClients == Clients <= BUFFER_SIZE

Committed == {"committed", "lock", "asleep", "done"}

Turn == lastExecuted \div BUFFER_SIZE

OpenRound(b) ==
    Turn + (IF b = Turn % 2 THEN 0 ELSE 1) + (IF bitmap[b] = 2 THEN 2 ELSE 0)

Base(b) == OpenRound(b) * BUFFER_SIZE

Open(b) == Round(OpenRound(b))

\* Before the open round of its buffer, an index has been committed.
RoundsBefore ==
    \A i \in Nat \ {0} :
        i <= Base(BufferOf(i)) => i <= lastIndex /\ pc[i] \in Committed

\* Commits are counted for the open round.
CommittedOf(b) == {i \in Open(b) : i <= lastIndex /\ pc[i] \in Committed}

CommitsCounted == \A b \in Buffers : commitCounts[b] = Cardinality(CommittedOf(b))

\* So are proposals, unless EarlyApply took the buffer before its flush.
StoredWhenAppended ==
    \A b \in Buffers : \A i \in Open(b) :
        i <= lastIndex /\ pc[i] \notin {"append", "refused"} => Stored(i)

Counted(b) == {i \in Open(b) : i <= lastIndex /\ Stored(i) /\ pc[i] # "count"}

AppendsCounted ==
    \A b \in Buffers :
        LET n == Cardinality(Counted(b)) IN
        \/ appendCounts[b] = n
        \/ appendCounts[b] >= n + BUFFER_SIZE
        \/ appendCounts[b] = 0 /\ n = BUFFER_SIZE

Full(b) == \A i \in Open(b) : i <= lastIndex /\ Stored(i) /\ pc[i] # "count"

\* A buffer that is flushed is full.
FlushedIsFull ==
    /\ \A i \in Indexes : pc[i] = "flush" => Full(BufferOf(i))
    /\ \A b \in Buffers : bitmap[b] = 1 => Full(b)

\* A thread that found all of a buffer committed was right, now or earlier.
LockedIsCommitted ==
    \A i \in Indexes :
        pc[i] \in {"lock", "asleep"} =>
            i <= Base(BufferOf(i)) \/ commitCounts[BufferOf(i)] = BUFFER_SIZE

\* While the thread of an index is at work, its session sends nothing, and so no
\* later round gets full that has none refused.
LateThreads ==
    \A i \in InHandler, k \in Nat :
        i <= k * BUFFER_SIZE =>
            \E m \in Round(k) : m > lastIndex \/ pc[m] = "refused"

\* The buffer that Execute is in the middle of is committed.
ExecutingCommitted == lastExecuted % BUFFER_SIZE > 0 => bitmap[Turn % 2] = 2

Rounds ==
    /\ RoundsBefore /\ CommitsCounted
    /\ StoredWhenAppended /\ AppendsCounted
    /\ FlushedIsFull /\ LockedIsCommitted
    /\ LateThreads /\ ExecutingCommitted

IInv == Basics /\ (FewRefused => Rounds)

-----------------------------------------------------------------------------
(* What the invariant implies of a state.                                  *)

\* Where execution is in its round.
LEMMA TurnFacts ==
    ASSUME LogTypes
    PROVE  /\ Turn \in Nat /\ BUFFER_SIZE \in Nat \ {0} /\ Turn * BUFFER_SIZE \in Nat
           /\ Turn * BUFFER_SIZE <= lastExecuted
           /\ lastExecuted < Turn * BUFFER_SIZE + BUFFER_SIZE
           /\ lastExecuted = Turn * BUFFER_SIZE + (lastExecuted % BUFFER_SIZE)
           /\ (Turn + 1) * BUFFER_SIZE = Turn * BUFFER_SIZE + BUFFER_SIZE
           /\ (Turn + 2) * BUFFER_SIZE = Turn * BUFFER_SIZE + 2 * BUFFER_SIZE
           /\ Turn % 2 \in Buffers /\ NextBuffer = Turn % 2
  <1>1. lastExecuted \in Nat /\ BUFFER_SIZE \in Nat \ {0}
    BY XrtLogAssumption DEF LogTypes
  <1>2. /\ Turn \in Nat /\ lastExecuted % BUFFER_SIZE \in 0 .. BUFFER_SIZE - 1
        /\ lastExecuted = Turn * BUFFER_SIZE + (lastExecuted % BUFFER_SIZE)
    BY <1>1, Division DEF Turn
  <1>3. NextBuffer = Turn % 2
    BY DEF NextBuffer, Turn, BUFFER_COUNT
  <1> HIDE DEF Turn
  <1>4. /\ Turn * BUFFER_SIZE \in Nat
        /\ (Turn + 1) * BUFFER_SIZE = Turn * BUFFER_SIZE + BUFFER_SIZE
        /\ (Turn + 2) * BUFFER_SIZE = Turn * BUFFER_SIZE + 2 * BUFFER_SIZE
    BY <1>1, <1>2
  <1>5. Turn % 2 \in Buffers
    BY <1>2 DEF Buffers, BUFFER_COUNT
  <1> QED
    BY <1>1, <1>2, <1>3, <1>4, <1>5

\* The open round of a buffer is one of its own, and none of it is executed.
LEMMA OpenFacts ==
    ASSUME LogTypes, ExecutingCommitted, NEW b \in Buffers
    PROVE  /\ OpenRound(b) \in Nat /\ OpenRound(b) % 2 = b
           /\ Base(b) \in Nat /\ lastExecuted <= Base(b)
           /\ bitmap[b] = 2 => lastExecuted + BUFFER_SIZE < Base(b)
  <1>1. Turn \in Nat /\ b \in {0, 1} /\ BUFFER_SIZE \in Nat \ {0}
    BY TurnFacts DEF Buffers, BUFFER_COUNT
  <1>2. OpenRound(b) \in Nat /\ OpenRound(b) % 2 = b
    BY <1>1 DEF OpenRound
  <1>3. Base(b) \in Nat
    BY <1>1, <1>2 DEF Base
  <1>4. Turn + 2 <= OpenRound(b) => (Turn + 2) * BUFFER_SIZE <= Base(b)
    BY <1>1, <1>2, RoundsAdvance, TurnFacts DEF Base
  <1>5. Turn < OpenRound(b) => (Turn + 1) * BUFFER_SIZE <= Base(b)
    BY <1>1, <1>2, RoundsAdvance, TurnFacts DEF Base
  <1>6. bitmap[b] = 2 => Turn + 2 <= OpenRound(b)
    BY <1>1 DEF OpenRound
  <1>7. bitmap[b] = 2 => lastExecuted + BUFFER_SIZE < Base(b)
    BY <1>1, <1>3, <1>4, <1>6, TurnFacts DEF LogTypes
  <1>8. CASE Turn < OpenRound(b)
    BY <1>1, <1>2, <1>3, <1>5, <1>7, <1>8, TurnFacts DEF LogTypes
  <1>9. CASE ~ (Turn < OpenRound(b))
    <2>1. OpenRound(b) = Turn /\ b = Turn % 2 /\ bitmap[b] # 2
      BY <1>1, <1>9 DEF OpenRound
    <2>2. ~ (lastExecuted % BUFFER_SIZE > 0)
      BY <2>1 DEF ExecutingCommitted
    <2>3. lastExecuted = Turn * BUFFER_SIZE
      <3>1. lastExecuted % BUFFER_SIZE \in 0 .. BUFFER_SIZE - 1
        BY Division DEF LogTypes
      <3> QED
        BY <1>1, <2>2, <3>1, TurnFacts DEF LogTypes
    <2> QED
      BY <1>2, <1>3, <1>7, <2>1, <2>3 DEF Base
  <1> QED
    BY <1>2, <1>3, <1>7, <1>8, <1>9

\* Requests without an answer, and refused ones, are at most two buffers.
LEMMA Outstanding ==
    ASSUME Basics, FewRefused, FewClients, NEW S, S \subseteq Unanswered \cup Refused
    PROVE  IsFiniteSet(S) /\ Cardinality(S) \in Nat /\ Cardinality(S) <= 2 * BUFFER_SIZE
  <1>1. BUFFER_SIZE \in Nat /\ Clients \in Nat /\ MaxIndex \in Nat /\ Clients <= BUFFER_SIZE
    BY XrtLogAssumption DEF FewClients
  <1>2. IsFiniteSet(Indexes) /\ Refused \subseteq Indexes
    BY <1>1, FS_Interval DEF Indexes, Refused
  <1>3. IsFiniteSet(Refused) /\ Cardinality(Refused) \in Nat
    BY <1>2, FS_Subset, FS_CardinalityType
  <1>4. Cardinality(Refused) <= BUFFER_SIZE
    BY <1>1 DEF FewRefused, BUFFER_COUNT
  <1>5. /\ IsFiniteSet(Unanswered) /\ Cardinality(Unanswered) \in Nat
        /\ Cardinality(Unanswered) <= Clients
    BY FS_CardinalityType DEF Basics, FewUnanswered
  <1>6. /\ IsFiniteSet(Unanswered \cup Refused) /\ IsFiniteSet(Unanswered \cap Refused)
        /\ Cardinality(Unanswered \cup Refused) =
              Cardinality(Unanswered) + Cardinality(Refused) - Cardinality(Unanswered \cap Refused)
    BY <1>3, <1>5, FS_Union, FS_Intersection
  <1>7. /\ Cardinality(Unanswered \cap Refused) \in Nat
        /\ Cardinality(Unanswered \cup Refused) \in Nat
    BY <1>6, FS_CardinalityType
  <1>8. IsFiniteSet(S) /\ Cardinality(S) <= Cardinality(Unanswered \cup Refused)
    BY <1>6, FS_Subset
  <1>9. Cardinality(S) \in Nat
    BY <1>8, FS_CardinalityType
  <1> QED
    BY <1>1, <1>3, <1>4, <1>5, <1>6, <1>7, <1>8, <1>9

\* What was given out and is not executed is unanswered or refused.
LEMMA NotExecutedIsOutstanding ==
    ASSUME Basics, NEW i \in Indexes, i <= lastIndex, i > lastExecuted
    PROVE  i \in Unanswered \cup Refused
  BY DEF Unanswered, InHandler, Refused, Indexes, Basics, LogTypes

\* So indexes are never more than two buffers ahead of execution.
LEMMA TwoBuffersAhead ==
    ASSUME Basics, FewRefused, FewClients
    PROVE  lastIndex <= lastExecuted + 2 * BUFFER_SIZE
  <1>1. /\ lastIndex \in Nat /\ lastExecuted \in Nat /\ BUFFER_SIZE \in Nat
        /\ MaxIndex \in Nat /\ lastIndex <= MaxIndex
    BY XrtLogAssumption DEF Basics, LogTypes
  <1> DEFINE S == (lastExecuted + 1) .. lastIndex
  <1>2. S \subseteq Unanswered \cup Refused
    BY <1>1, NotExecutedIsOutstanding DEF Indexes
  <1>3. Cardinality(S) <= 2 * BUFFER_SIZE
    BY <1>2, Outstanding
  <1>4. CASE lastExecuted < lastIndex
    <2>1. Cardinality(S) = lastIndex - lastExecuted
      BY <1>1, <1>4, FS_Interval
    <2> QED
      BY <1>1, <1>3, <2>1
  <1> QED
    BY <1>1, <1>4

\* An index given out is before the open round of its buffer, or in it ...
LEMMA WhereGiven ==
    ASSUME Basics, FewRefused, FewClients, ExecutingCommitted,
           NEW i \in Indexes, i <= lastIndex, ~ (i <= Base(BufferOf(i)))
    PROVE  i \in Open(BufferOf(i))
  <1> DEFINE b == BufferOf(i)
  <1>1. i \in Nat \ {0} /\ b \in Buffers /\ LogTypes
    BY IndexHasSlot DEF Basics
  <1>2. OpenRound(b) \in Nat /\ b = OpenRound(b) % 2 /\ Base(b) \in Nat /\ lastExecuted <= Base(b)
    BY <1>1, OpenFacts
  <1>3. i <= Base(b) + 2 * BUFFER_SIZE
    BY <1>1, <1>2, TwoBuffersAhead, XrtLogAssumption DEF LogTypes
  <1> QED
    BY <1>1, <1>2, <1>3, InRoundOrLater DEF Base, Open

\* ... and if it is not committed it is in it.
LEMMA UncommittedIsOpen ==
    ASSUME Basics, FewRefused, FewClients, Rounds, NEW i \in Indexes,
           pc[i] # "none", pc[i] \notin Committed
    PROVE  i <= lastIndex /\ i \in Open(BufferOf(i))
  <1>1. i \in Nat \ {0} /\ i <= lastIndex
    BY IndexHasSlot DEF Basics, GivenHaveThreads, LogTypes
  <1>2. ~ (i <= Base(BufferOf(i)))
    BY <1>1 DEF Rounds, RoundsBefore
  <1> QED
    BY <1>1, <1>2, WhereGiven DEF Rounds

\* A committed buffer is not full again.
LEMMA CommittedIsNotFull ==
    ASSUME Basics, FewRefused, FewClients, Rounds, NEW b \in Buffers, bitmap[b] = 2
    PROVE  ~ Full(b)
  <1>1. /\ OpenRound(b) \in Nat /\ Base(b) \in Nat
        /\ lastExecuted + BUFFER_SIZE < Base(b)
    BY OpenFacts DEF Basics, Rounds
  <1>2. lastIndex < Base(b) + BUFFER_SIZE
    BY <1>1, TwoBuffersAhead, XrtLogAssumption DEF Basics, LogTypes
  <1>3. Base(b) + BUFFER_SIZE \in Open(b)
    BY <1>1, XrtLogAssumption DEF Base, Open, Round
  <1> QED
    BY <1>1, <1>2, <1>3, XrtLogAssumption DEF Full, Basics, LogTypes

\* A round that is given out and all committed is counted so.
LEMMA CountedIsCommitted ==
    ASSUME LogTypes, ExecutingCommitted, CommitsCounted, NEW b \in Buffers,
           commitCounts[b] = BUFFER_SIZE
    PROVE  \A m \in Open(b) : m <= lastIndex /\ pc[m] \in Committed
  <1>1. IsFiniteSet(Open(b)) /\ Cardinality(Open(b)) = BUFFER_SIZE
    BY OpenFacts, RoundSize DEF Open
  <1>2. CommittedOf(b) \subseteq Open(b) /\ Cardinality(CommittedOf(b)) = BUFFER_SIZE
    BY DEF CommittedOf, CommitsCounted
  <1>3. CommittedOf(b) = Open(b)
    BY <1>1, <1>2, FS_Subset
  <1> QED
    BY <1>3 DEF CommittedOf

\* A thread that gets the lock and finds the buffer full is right to commit it: if
\* it were late, and the buffer full once more, then two rounds and the thread's
\* own request were outstanding.
LEMMA LockedIsRight ==
    ASSUME Basics, FewRefused, FewClients, Rounds, NEW i \in Indexes,
           pc[i] = "lock", bitmap[BufferOf(i)] = 1
    PROVE  \A m \in Open(BufferOf(i)) : m <= lastIndex /\ pc[m] \in Committed
  <1> DEFINE b == BufferOf(i)
             r == OpenRound(b)
  <1>1. i \in Nat \ {0} /\ b \in Buffers /\ LogTypes /\ i <= lastIndex
    BY IndexHasSlot DEF Basics, GivenHaveThreads, LogTypes
  <1>2. /\ r \in Nat /\ r % 2 = b /\ Base(b) = r * BUFFER_SIZE /\ Base(b) \in Nat
        /\ BUFFER_SIZE \in Nat \ {0}
    BY <1>1, OpenFacts, XrtLogAssumption DEF Base, Rounds
  <1>3. Full(b)
    BY <1>1 DEF Rounds, FlushedIsFull
  <1>4. CASE i <= Base(b)
    <2> HIDE DEF r, b
    <2>1. /\ r - 1 \in Nat /\ i + BUFFER_SIZE <= Base(b)
          /\ (r - 1) * BUFFER_SIZE = Base(b) - BUFFER_SIZE
      <3>1. b = r % 2 /\ i <= r * BUFFER_SIZE /\ r \in Nat
        BY <1>2, <1>4
      <3>2. r - 1 \in Nat /\ i + BUFFER_SIZE <= r * BUFFER_SIZE
        BY <1>1, <3>1, TwoRoundsBefore DEF b
      <3>3. (r - 1) * BUFFER_SIZE = r * BUFFER_SIZE - BUFFER_SIZE
        BY <1>2, <3>2
      <3> QED
        BY <1>2, <3>2, <3>3
    <2>2. \A m \in Open(b) : m <= lastIndex
      BY <1>3 DEF Full
    <2>3. Base(b) + BUFFER_SIZE <= lastIndex /\ lastIndex \in Nat /\ lastIndex <= MaxIndex
      BY <1>1, <1>2, <2>2, XrtLogAssumption DEF Open, Round, r, LogTypes
    <2>4. PICK m \in Round(r - 1) : m > lastIndex \/ pc[m] = "refused"
      <3>1. i \in InHandler
        BY <1>1 DEF InHandler
      <3> QED
        BY <1>1, <1>2, <2>1, <3>1 DEF Rounds, LateThreads
    <2>5. m \in Nat \ {0} /\ m <= Base(b) /\ m > Base(b) - BUFFER_SIZE
      BY <1>2, <2>1 DEF Round
    <2>6. m <= lastIndex /\ pc[m] = "refused"
      BY <1>2, <2>3, <2>4, <2>5
    <2>7. BufferOf(m) = (r - 1) % 2 /\ BufferOf(m) \in Buffers
      BY <2>1, InRound
    <2> DEFINE c == BufferOf(m)
    <2>8. /\ OpenRound(c) \in Nat /\ Base(c) \in Nat /\ lastExecuted <= Base(c)
          /\ Base(c) = OpenRound(c) * BUFFER_SIZE
      BY <1>1, <2>7, OpenFacts DEF Rounds, Base
    <2>9. ~ (m <= Base(c))
      BY <2>5, <2>6 DEF Rounds, RoundsBefore, Committed
    <2> HIDE DEF c
    <2>10. ~ (r - 1 < OpenRound(c))
      <3>1. r - 1 < OpenRound(c) => (r - 1) * BUFFER_SIZE + BUFFER_SIZE <= Base(c)
        BY <2>1, <2>8, RoundsAdvance
      <3> QED
        BY <1>2, <2>1, <2>5, <2>8, <2>9, <3>1
    <2>11. Base(c) <= Base(b) - BUFFER_SIZE
      <3>1. OpenRound(c) < r
        BY <1>2, <2>8, <2>10
      <3>2. Base(c) + BUFFER_SIZE <= Base(b)
        BY <1>2, <2>8, <3>1, RoundsAdvance
      <3> QED
        BY <1>2, <2>8, <3>2
    <2> DEFINE S == (Base(b) - BUFFER_SIZE + 1) .. (Base(b) + BUFFER_SIZE)
    <2>12. S \subseteq Unanswered \cup Refused
      <3> SUFFICES ASSUME NEW n \in S
                   PROVE  n \in Unanswered \cup Refused
        OBVIOUS
      <3>1. n \in Nat /\ n <= lastIndex /\ n > lastExecuted /\ n \in Indexes
        BY <1>1, <1>2, <2>1, <2>3, <2>8, <2>11, XrtLogAssumption DEF Indexes, LogTypes
      <3> QED
        BY <3>1, NotExecutedIsOutstanding
    <2>13. i \in Unanswered \cup Refused /\ i \notin S
      BY <1>1, <1>2, <2>1 DEF Unanswered, InHandler
    <2>14. IsFiniteSet(S) /\ Cardinality(S) = 2 * BUFFER_SIZE
      <3>1. Base(b) - BUFFER_SIZE + 1 \in Int /\ Base(b) + BUFFER_SIZE \in Int
        BY <1>2
      <3>2. ~ (Base(b) - BUFFER_SIZE + 1 > Base(b) + BUFFER_SIZE)
        BY <1>2
      <3>3. IsFiniteSet(S)
        BY <3>1, FS_Interval
      <3>4. Cardinality(S) = (Base(b) + BUFFER_SIZE) - (Base(b) - BUFFER_SIZE + 1) + 1
        BY <3>1, <3>2, FS_Interval
      <3> QED
        BY <1>2, <3>3, <3>4
    <2>15. Cardinality(S \cup {i}) = 2 * BUFFER_SIZE + 1
      BY <2>13, <2>14, FS_AddElement
    <2>16. Cardinality(S \cup {i}) <= 2 * BUFFER_SIZE
      BY <2>12, <2>13, Outstanding
    <2> QED
      BY <1>2, <2>15, <2>16
  <1>5. CASE ~ (i <= Base(b))
    BY <1>1, <1>5, CountedIsCommitted DEF Rounds, LockedIsCommitted
  <1> QED
    BY <1>4, <1>5

-----------------------------------------------------------------------------
(* What a step does to the rounds.                                         *)

\* A committed buffer is not flushed.
LEMMA FlushedIsNotCommitted ==
    ASSUME Basics, FewRefused, FewClients, Rounds, NEW i \in Indexes, pc[i] = "flush"
    PROVE  bitmap[BufferOf(i)] # 2
  BY IndexHasSlot, CommittedIsNotFull DEF Rounds, FlushedIsFull

\* What a step does to the state of a buffer.
LEMMA BitmapMoves ==
    ASSUME Basics, FewRefused, FewClients, Rounds, [Next]_xrtVars, NEW b \in Buffers
    PROVE  \/ bitmap'[b] = bitmap[b]
           \/ bitmap[b] # 2 /\ bitmap'[b] = 1 /\ \E i \in Indexes : pc[i] = "flush" /\ BufferOf(i) = b
           \/ bitmap[b] = 1 /\ bitmap'[b] = 2 /\ \E i \in Indexes : CommitBuffer(i) /\ BufferOf(i) = b
           \/ /\ bitmap[b] = 2 /\ bitmap'[b] = 3 /\ Execute
              /\ b = NextBuffer /\ lastExecuted % BUFFER_SIZE = BUFFER_SIZE - 1
  <1>1. LogTypes /\ GivenHaveThreads
    BY DEF Basics
  <1>2. ASSUME NEW i \in Indexes, Flush(i)
        PROVE  \/ bitmap'[b] = bitmap[b]
               \/ bitmap[b] # 2 /\ bitmap'[b] = 1 /\ pc[i] = "flush" /\ BufferOf(i) = b
    <2>1. pc[i] = "flush" /\ bitmap' = [bitmap EXCEPT ![BufferOf(i)] = 1]
      BY <1>1, <1>2, FlushDoes
    <2>2. bitmap[BufferOf(i)] # 2
      BY <2>1, FlushedIsNotCommitted
    <2> QED
      BY <1>1, <2>1, <2>2 DEF LogTypes
  <1>3. ASSUME NEW i \in Indexes, CommitBuffer(i)
        PROVE  \/ bitmap'[b] = bitmap[b]
               \/ bitmap[b] = 1 /\ bitmap'[b] = 2 /\ BufferOf(i) = b
    BY <1>1, <1>3, CommitBufferDoes DEF LogTypes
  <1>4. CASE Execute
    BY <1>1, <1>4, ExecuteDoes DEF LogTypes
  <1> QED
    BY <1>1, <1>2, <1>3, <1>4, WhatChanges

\* The round that a number is in.
LEMMA TurnOf ==
    ASSUME NEW k \in Nat, NEW n \in Nat, k * BUFFER_SIZE <= n, n < k * BUFFER_SIZE + BUFFER_SIZE
    PROVE  n \div BUFFER_SIZE = k /\ n % BUFFER_SIZE = n - k * BUFFER_SIZE
  <1> DEFINE m == n \div BUFFER_SIZE
  <1>1. /\ m \in Nat /\ n % BUFFER_SIZE \in 0 .. BUFFER_SIZE - 1
        /\ n = m * BUFFER_SIZE + (n % BUFFER_SIZE)
    BY Division
  <1> HIDE DEF m
  <1>2. BUFFER_SIZE \in Nat \ {0} /\ k * BUFFER_SIZE \in Nat /\ m * BUFFER_SIZE \in Nat
    BY <1>1, XrtLogAssumption
  <1>3. ~ (k < m) /\ ~ (m < k)
    BY <1>1, <1>2, RoundsAdvance
  <1>4. m = k
    BY <1>1, <1>3
  <1> QED
    BY <1>1, <1>2, <1>4 DEF m

\* Execute goes on in its round, or at its end to the next.
LEMMA ExecuteTurns ==
    ASSUME LogTypes, Execute
    PROVE  \/ /\ lastExecuted % BUFFER_SIZE = BUFFER_SIZE - 1
              /\ Turn' = Turn + 1 /\ lastExecuted' % BUFFER_SIZE = 0
           \/ /\ lastExecuted % BUFFER_SIZE # BUFFER_SIZE - 1
              /\ Turn' = Turn
  <1>1. lastExecuted' = lastExecuted + 1 /\ lastExecuted' \in Nat
    BY ExecuteDoes DEF LogTypes
  <1>2. /\ Turn \in Nat /\ BUFFER_SIZE \in Nat \ {0} /\ Turn * BUFFER_SIZE \in Nat
        /\ lastExecuted = Turn * BUFFER_SIZE + (lastExecuted % BUFFER_SIZE)
        /\ lastExecuted < Turn * BUFFER_SIZE + BUFFER_SIZE
        /\ (Turn + 1) * BUFFER_SIZE = Turn * BUFFER_SIZE + BUFFER_SIZE
    BY TurnFacts
  <1>3. lastExecuted % BUFFER_SIZE \in Nat /\ lastExecuted \in Nat
    BY Division DEF LogTypes
  <1>4. CASE lastExecuted % BUFFER_SIZE = BUFFER_SIZE - 1
    <2>1. lastExecuted' = (Turn + 1) * BUFFER_SIZE
      BY <1>1, <1>2, <1>4
    <2>2. lastExecuted' \div BUFFER_SIZE = Turn + 1 /\ lastExecuted' % BUFFER_SIZE = 0
      BY <1>1, <1>2, <2>1, TurnOf
    <2> QED
      BY <1>4, <2>2 DEF Turn
  <1>5. CASE lastExecuted % BUFFER_SIZE # BUFFER_SIZE - 1
    <2>1. lastExecuted' < Turn * BUFFER_SIZE + BUFFER_SIZE /\ Turn * BUFFER_SIZE <= lastExecuted'
      BY <1>1, <1>2, <1>3, <1>5
    <2>2. lastExecuted' \div BUFFER_SIZE = Turn
      BY <1>1, <1>2, <2>1, TurnOf
    <2> QED
      BY <1>5, <2>2 DEF Turn
  <1> QED
    BY <1>4, <1>5

\* The step that commits a buffer.
Commits(b) == bitmap[b] = 1 /\ \E i \in Indexes : CommitBuffer(i) /\ BufferOf(i) = b

\* Any other leaves the open round of the buffer the same.
LEMMA RoundKept ==
    ASSUME Basics, FewRefused, FewClients, Rounds, [Next]_xrtVars, NEW b \in Buffers, ~ Commits(b)
    PROVE  OpenRound(b)' = OpenRound(b)
  <1>1. LogTypes /\ GivenHaveThreads /\ Turn \in Nat /\ b \in {0, 1}
    BY TurnFacts DEF Basics, Buffers, BUFFER_COUNT
  <1>2. CASE Execute
    <2>1. NextBuffer = Turn % 2
      BY <1>1, TurnFacts
    <2>2. /\ bitmap[Turn % 2] = 2
          /\ \/ /\ lastExecuted % BUFFER_SIZE = BUFFER_SIZE - 1
                /\ bitmap'[b] = IF b = Turn % 2 THEN 3 ELSE bitmap[b]
             \/ /\ lastExecuted % BUFFER_SIZE # BUFFER_SIZE - 1
                /\ bitmap'[b] = bitmap[b]
      BY <1>1, <1>2, <2>1, ExecuteDoes DEF LogTypes
    <2>3. CASE Turn' = Turn + 1 /\ lastExecuted % BUFFER_SIZE = BUFFER_SIZE - 1
      BY <1>1, <2>2, <2>3 DEF OpenRound
    <2>4. CASE Turn' = Turn /\ lastExecuted % BUFFER_SIZE # BUFFER_SIZE - 1
      BY <1>1, <2>2, <2>4 DEF OpenRound
    <2> QED
      BY <1>1, <1>2, <2>3, <2>4, ExecuteTurns
  <1>3. CASE ~ Execute
    <2>1. UNCHANGED lastExecuted
      BY <1>1, <1>3, WhatChanges
    <2>2. bitmap'[b] = bitmap[b] \/ (bitmap[b] # 2 /\ bitmap'[b] = 1)
      BY <1>3, BitmapMoves DEF Commits
    <2> QED
      BY <2>1, <2>2 DEF OpenRound, Turn
  <1> QED
    BY <1>2, <1>3

\* When a buffer is committed, all of its open round is, and the round after the
\* next opens for it; none of that has been given out.
LEMMA RoundOpens ==
    ASSUME Basics, FewRefused, FewClients, Rounds, NEW b \in Buffers, Commits(b)
    PROVE  /\ OpenRound(b)' = OpenRound(b) + 2
           /\ Base(b)' = Base(b) + 2 * BUFFER_SIZE
           /\ bitmap'[b] = 2 /\ commitCounts'[b] = 0 /\ appendCounts' = appendCounts
           /\ \A m \in Open(b) : m <= lastIndex /\ pc[m] \in Committed
           /\ lastIndex' = lastIndex /\ lastIndex <= Base(b)'
           /\ \A m \in Open(b)' : ~ (m <= lastIndex')
  <1>1. PICK i \in Indexes : CommitBuffer(i) /\ BufferOf(i) = b
    BY DEF Commits
  <1>2. bitmap[b] = 1 /\ LogTypes
    BY DEF Commits, Basics
  <1>3. /\ pc[i] = "lock" /\ lastIndex' = lastIndex /\ lastExecuted' = lastExecuted
        /\ bitmap' = [bitmap EXCEPT ![b] = 2]
        /\ commitCounts' = [commitCounts EXCEPT ![b] = 0]
        /\ appendCounts' = appendCounts
    BY <1>1, <1>2, CommitBufferDoes
  <1>4. bitmap'[b] = 2 /\ commitCounts'[b] = 0
    BY <1>2, <1>3 DEF LogTypes
  <1>5. \A m \in Open(b) : m <= lastIndex /\ pc[m] \in Committed
    BY <1>1, <1>2, <1>3, LockedIsRight
  <1>6. OpenRound(b) \in Nat /\ Base(b) \in Nat /\ lastExecuted <= Base(b) /\ BUFFER_SIZE \in Nat
    BY <1>2, OpenFacts, XrtLogAssumption DEF Rounds
  <1>7. OpenRound(b)' = OpenRound(b) + 2
    BY <1>2, <1>3, <1>4, TurnFacts DEF OpenRound, Turn
  <1>8. Base(b)' = Base(b) + 2 * BUFFER_SIZE
    BY <1>6, <1>7 DEF Base
  <1>9. lastIndex <= Base(b)'
    BY <1>2, <1>6, <1>8, TwoBuffersAhead DEF LogTypes
  <1>10. \A m \in Open(b)' : ~ (m <= lastIndex')
    BY <1>2, <1>3, <1>6, <1>8, <1>9 DEF Open, Base, Round, LogTypes
  <1> QED
    BY <1>3, <1>4, <1>5, <1>7, <1>8, <1>9, <1>10

\* The step that moves a thread is the thread's, or wakes it.
LEMMA ThreadMoved ==
    ASSUME LogTypes, GivenHaveThreads, [Next]_xrtVars, NEW m \in Indexes,
           pc'[m] # pc[m], pc[m] # "none", pc[m] # "asleep"
    PROVE  Thread(m)
  <1>1. CASE AdvanceLastIndex
    BY <1>1 DEF AdvanceLastIndex, Goto, GivenHaveThreads, LogTypes, Indexes
  <1>2. ASSUME NEW i \in Indexes, Thread(i), i # m
        PROVE  FALSE
    <2>1. CASE AppendStore(i)
      BY <1>2, <2>1 DEF AppendStore, Goto, LogTypes
    <2>2. CASE AppendCount(i)
      BY <1>2, <2>2 DEF AppendCount, Goto, LogTypes
    <2>3. CASE AppendTest(i)
      BY <1>2, <2>3 DEF AppendTest, Goto, LogTypes
    <2>4. CASE Flush(i)
      BY <1>2, <2>4, FlushDoes
    <2>5. CASE GiveUp(i)
      BY <1>2, <2>5 DEF GiveUp, Goto, LogTypes
    <2>6. CASE CommitCount(i)
      BY <1>2, <2>6 DEF CommitCount, Goto, LogTypes
    <2>7. CASE CommitTest(i)
      BY <1>2, <2>7 DEF CommitTest, Goto, LogTypes
    <2>8. CASE CommitBuffer(i)
      BY <1>2, <2>8, CommitBufferDoes DEF LogTypes
    <2> QED
      BY <1>2, <2>1, <2>2, <2>3, <2>4, <2>5, <2>6, <2>7, <2>8 DEF Thread
  <1> QED
    BY <1>1, <1>2, WhatChanges

\* So a thread leaves these stages by these actions.
LEMMA LeavesBy ==
    ASSUME LogTypes, GivenHaveThreads, [Next]_xrtVars, NEW m \in Indexes, pc'[m] # pc[m]
    PROVE  /\ pc[m] = "append" => AppendStore(m) \/ pc'[m] = "refused"
           /\ pc[m] = "count" => AppendCount(m)
           /\ pc[m] = "test" => AppendTest(m)
           /\ pc[m] = "commit" => CommitCount(m) \/ pc'[m] = "refused"
           /\ pc[m] = "committed" => CommitTest(m)
  <1>1. pc[m] \in {"append", "count", "test", "commit", "committed"} => Thread(m)
    BY ThreadMoved
  <1>2. GiveUp(m) => pc'[m] = "refused"
    BY DEF GiveUp, Goto, LogTypes
  <1> QED
    BY <1>1, <1>2 DEF Thread, AppendStore, AppendCount, AppendTest, Flush, GiveUp,
                      CommitCount, CommitTest, CommitBuffer

\* Indexes are not taken back.
LEMMA IndexesAreKept ==
    ASSUME LogTypes, GivenHaveThreads, [Next]_xrtVars
    PROVE  /\ lastIndex \in Nat /\ lastIndex' \in Nat /\ lastIndex <= lastIndex'
           /\ lastIndex' <= MaxIndex /\ MaxIndex \in Nat
           /\ \A m \in Indexes : m <= lastIndex' /\ m > lastIndex => pc'[m] = "append"
  <1>1. lastIndex \in Nat /\ lastIndex <= MaxIndex /\ MaxIndex \in Nat
    BY XrtLogAssumption DEF LogTypes
  <1>2. CASE lastIndex' = lastIndex
    BY <1>1, <1>2 DEF Indexes
  <1>3. CASE /\ lastIndex < MaxIndex /\ lastIndex' = lastIndex + 1
             /\ pc' = [pc EXCEPT ![lastIndex + 1] = "append"]
    BY <1>1, <1>3 DEF Indexes, LogTypes
  <1> QED
    BY <1>2, <1>3, ThreadsMove

\* What is in a round of a buffer belongs to it.
LEMMA OpenIndexes ==
    ASSUME LogTypes, ExecutingCommitted, NEW b \in Buffers, NEW m \in Open(b), m <= lastIndex
    PROVE  m \in Indexes /\ m \in Nat \ {0} /\ BufferOf(m) = b /\ OffsetOf(m) \in Slots
  <1>1. OpenRound(b) \in Nat /\ OpenRound(b) % 2 = b
    BY OpenFacts
  <1>2. m \in Nat \ {0} /\ BufferOf(m) = b /\ OffsetOf(m) \in Slots
    BY <1>1, InRound DEF Open
  <1> QED
    BY <1>2, XrtLogAssumption DEF Indexes, LogTypes

\* A buffer goes on to its next round only when all of this one is committed.
LEMMA RoundsBeforeStep ==
    ASSUME Basics, FewRefused, FewClients, Rounds, [Next]_xrtVars
    PROVE  RoundsBefore'
  <1> SUFFICES ASSUME NEW i \in Nat \ {0}, i <= Base(BufferOf(i))'
               PROVE  i <= lastIndex' /\ pc'[i] \in Committed
    BY DEF RoundsBefore
  <1> DEFINE b == BufferOf(i)
  <1>1. LogTypes /\ GivenHaveThreads /\ ExecutingCommitted
    BY DEF Basics, Rounds
  <1>2. b \in Buffers
    BY RoundOf, InRound
  <1>3. i <= lastIndex /\ pc[i] \in Committed
    <2>1. CASE ~ Commits(b)
      <3>1. Base(b)' = Base(b)
        BY <1>2, <2>1, RoundKept DEF Base
      <3> QED
        BY <3>1 DEF Rounds, RoundsBefore
    <2>2. CASE Commits(b)
      <3>1. /\ Base(b)' = Base(b) + 2 * BUFFER_SIZE
            /\ \A m \in Open(b) : m <= lastIndex /\ pc[m] \in Committed
        BY <1>2, <2>2, RoundOpens
      <3>2. CASE i <= Base(b)
        BY <3>2 DEF Rounds, RoundsBefore
      <3>3. CASE ~ (i <= Base(b))
        <4>1. OpenRound(b) \in Nat /\ b = OpenRound(b) % 2 /\ Base(b) \in Nat
          BY <1>1, <1>2, OpenFacts
        <4>2. i \in Open(b)
          BY <3>1, <3>3, <4>1, InRoundOrLater DEF Base, Open
        <4> QED
          BY <3>1, <4>2
      <3> QED
        BY <3>2, <3>3
    <2> QED
      BY <2>1, <2>2
  <1>4. i \in Indexes /\ i <= lastIndex'
    BY <1>1, <1>3, IndexesAreKept DEF Indexes
  <1>5. Moved(pc[i], pc'[i])
    BY <1>1, <1>4, ThreadsMove
  <1> QED
    BY <1>3, <1>4, <1>5 DEF Moved, Committed

\* Commit counts for the open round of its buffer, and resets the count when it
\* closes the round.
LEMMA CommitsCountedStep ==
    ASSUME Basics, FewRefused, FewClients, Rounds, [Next]_xrtVars
    PROVE  CommitsCounted'
  <1> SUFFICES ASSUME NEW b \in Buffers
               PROVE  commitCounts'[b] = Cardinality(CommittedOf(b)')
    BY DEF CommitsCounted
  <1>1. LogTypes /\ GivenHaveThreads /\ ExecutingCommitted
    BY DEF Basics, Rounds
  <1>2. CASE Commits(b)
    <2>1. CommittedOf(b)' = {} /\ commitCounts'[b] = 0
      BY <1>2, RoundOpens DEF CommittedOf
    <2> QED
      BY <2>1, FS_EmptySet
  <1>3. CASE ~ Commits(b)
    <2>1. Open(b)' = Open(b)
      BY <1>3, RoundKept DEF Open
    <2>2. ASSUME NEW m \in Open(b), m <= lastIndex, pc[m] \in Committed
          PROVE  m <= lastIndex' /\ pc'[m] \in Committed
      <3>1. m \in Indexes /\ m \in Nat
        BY <1>1, <2>2, OpenIndexes
      <3>2. m <= lastIndex' /\ Moved(pc[m], pc'[m])
        BY <1>1, <2>2, <3>1, IndexesAreKept, ThreadsMove
      <3> QED
        BY <2>2, <3>2 DEF Moved, Committed
    <2>3. ASSUME NEW m \in Open(b), m <= lastIndex', pc'[m] \in Committed,
                 ~ (m <= lastIndex /\ pc[m] \in Committed)
          PROVE  CommitCount(m) /\ BufferOf(m) = b /\ m \in Indexes
      <3>1. OpenRound(b) \in Nat /\ OpenRound(b) % 2 = b
        BY <1>1, OpenFacts
      <3>2. m \in Nat \ {0} /\ BufferOf(m) = b /\ m \in Indexes
        BY <1>1, <2>3, <3>1, InRound, IndexesAreKept DEF Open, Indexes
      <3>3. m <= lastIndex /\ pc[m] \notin Committed
        BY <1>1, <2>3, <3>2, IndexesAreKept DEF Committed
      <3>4. pc[m] = "commit"
        BY <1>1, <2>3, <3>2, <3>3, ThreadsMove DEF Moved, Committed
      <3> QED
        BY <1>1, <2>3, <3>2, <3>4, LeavesBy DEF Committed
    <2>4. CASE \E i \in Indexes : CommitCount(i) /\ BufferOf(i) = b
      <3>1. PICK i \in Indexes : CommitCount(i) /\ BufferOf(i) = b
        BY <2>4
      <3>2. /\ pc[i] = "commit" /\ pc'[i] = "committed" /\ lastIndex' = lastIndex
            /\ commitCounts'[b] = commitCounts[b] + 1
            /\ \A m \in Indexes : m # i => pc'[m] = pc[m]
        BY <1>1, <3>1 DEF CommitCount, Goto, LogTypes
      <3>3. i <= lastIndex /\ i \in Open(b) /\ pc[i] \notin Committed
        BY <3>1, <3>2, UncommittedIsOpen DEF Committed
      <3>4. ASSUME NEW m \in Open(b), m <= lastIndex', pc'[m] \in Committed, m # i
            PROVE  m <= lastIndex /\ pc[m] \in Committed
        <4>1. m \in Indexes
          BY <1>1, <3>2, <3>4, OpenIndexes
        <4> QED
          BY <3>2, <3>4, <4>1
      <3>5. CommittedOf(b)' = CommittedOf(b) \cup {i} /\ i \notin CommittedOf(b)
        BY <2>1, <2>2, <3>2, <3>3, <3>4 DEF CommittedOf, Committed
      <3>6. IsFiniteSet(CommittedOf(b))
        BY <1>1, OpenFacts, RoundSize, FS_Subset DEF CommittedOf, Open
      <3>7. Cardinality(CommittedOf(b)') = Cardinality(CommittedOf(b)) + 1
        BY <3>5, <3>6, FS_AddElement
      <3> QED
        BY <3>2, <3>7 DEF Rounds, CommitsCounted
    <2>5. CASE ~ \E i \in Indexes : CommitCount(i) /\ BufferOf(i) = b
      <3>1. CommittedOf(b)' = CommittedOf(b)
        BY <2>1, <2>2, <2>3, <2>5 DEF CommittedOf
      <3>2. ASSUME NEW i \in Indexes, CommitCount(i)
            PROVE  commitCounts'[b] = commitCounts[b]
        BY <1>1, <2>5, <3>2 DEF CommitCount, LogTypes
      <3>3. ASSUME NEW i \in Indexes, CommitBuffer(i)
            PROVE  commitCounts'[b] = commitCounts[b]
        <4>1. BufferOf(i) # b \/ bitmap[b] # 1
          BY <1>3, <3>3 DEF Commits
        <4> QED
          BY <1>1, <3>3, <4>1, CommitBufferDoes DEF LogTypes
      <3>4. commitCounts'[b] = commitCounts[b]
        BY <1>1, <3>2, <3>3, WhatChanges
      <3> QED
        BY <3>1, <3>4 DEF Rounds, CommitsCounted
    <2> QED
      BY <2>4, <2>5
  <1> QED
    BY <1>2, <1>3

\* Nobody else stores in the slot of an index of an open round.
LEMMA StoredKept ==
    ASSUME Basics, FewRefused, FewClients, Rounds, [Next]_xrtVars,
           NEW b \in Buffers, NEW m \in Open(b), m <= lastIndex, Stored(m)
    PROVE  Stored(m)'
  <1>1. LogTypes /\ GivenHaveThreads /\ ExecutingCommitted
    BY DEF Basics, Rounds
  <1>2. m \in Indexes /\ BufferOf(m) = b /\ OffsetOf(m) \in Slots
    BY <1>1, OpenIndexes
  <1>3. CASE UNCHANGED proposals
    BY <1>3 DEF Stored
  <1>4. ASSUME NEW i \in Indexes, AppendStore(i)
        PROVE  Stored(m)'
    <2>1. /\ pc[i] = "append"
          /\ proposals' = [proposals EXCEPT ![BufferOf(i)][OffsetOf(i)] = i]
      BY <1>4 DEF AppendStore
    <2>2. i \in Open(BufferOf(i)) /\ BufferOf(i) \in Buffers /\ OffsetOf(i) \in Slots
      BY <2>1, UncommittedIsOpen, IndexHasSlot DEF Committed
    <2>3. BufferOf(i) = b /\ OffsetOf(i) = OffsetOf(m) => i = m
      BY <1>1, <2>2, OpenFacts, RoundSize DEF Open
    <2>4. proposals'[b][OffsetOf(m)] = IF BufferOf(i) = b /\ OffsetOf(i) = OffsetOf(m) THEN i
                                       ELSE proposals[b][OffsetOf(m)]
      BY <1>1, <1>2, <2>1, <2>2 DEF LogTypes
    <2> QED
      BY <1>2, <2>3, <2>4 DEF Stored
  <1> QED
    BY <1>1, <1>3, <1>4, WhatChanges

\* AppendStore stores its index.
LEMMA AppendStoreStores ==
    ASSUME LogTypes, NEW m \in Indexes, AppendStore(m)
    PROVE  Stored(m)' /\ pc'[m] = "count"
  BY IndexHasSlot DEF AppendStore, Goto, LogTypes, Stored

\* No step takes a proposal of an open round out of its slot.
LEMMA StoredWhenAppendedStep ==
    ASSUME Basics, FewRefused, FewClients, Rounds, [Next]_xrtVars
    PROVE  StoredWhenAppended'
  <1> SUFFICES ASSUME NEW b \in Buffers, NEW m \in Open(b)',
                      m <= lastIndex', pc'[m] \notin {"append", "refused"}
               PROVE  Stored(m)'
    BY DEF StoredWhenAppended
  <1>1. LogTypes /\ GivenHaveThreads /\ ExecutingCommitted
    BY DEF Basics, Rounds
  <1>2. ~ Commits(b)
    BY RoundOpens
  <1>3. m \in Open(b)
    BY <1>2, RoundKept DEF Open
  <1>4. m \in Nat \ {0} /\ m \in Indexes
    BY <1>1, <1>3, OpenFacts, InRound, IndexesAreKept DEF Open, Indexes
  <1>5. m <= lastIndex
    BY <1>1, <1>4, IndexesAreKept
  <1>6. Moved(pc[m], pc'[m])
    BY <1>1, <1>4, ThreadsMove
  <1>7. CASE pc[m] = "append"
    BY <1>1, <1>4, <1>7, LeavesBy, AppendStoreStores
  <1>8. CASE pc[m] # "append"
    <2>1. Stored(m)
      BY <1>3, <1>5, <1>6, <1>8 DEF Rounds, StoredWhenAppended, Moved
    <2> QED
      BY <1>3, <1>5, <2>1, StoredKept
  <1> QED
    BY <1>7, <1>8

\* What is counted in an open round stays so ...
LEMMA CountedKept ==
    ASSUME Basics, FewRefused, FewClients, Rounds, [Next]_xrtVars,
           NEW b \in Buffers, NEW m \in Open(b),
           m <= lastIndex, Stored(m), pc[m] # "count"
    PROVE  m <= lastIndex' /\ Stored(m)' /\ pc'[m] # "count"
  <1>1. LogTypes /\ GivenHaveThreads /\ ExecutingCommitted /\ NotStoredYet
    BY DEF Basics, Rounds
  <1>2. m \in Indexes /\ m \in Nat
    BY <1>1, OpenIndexes
  <1>3. m <= lastIndex' /\ Moved(pc[m], pc'[m])
    BY <1>1, <1>2, IndexesAreKept, ThreadsMove
  <1>4. pc[m] # "append"
    BY <1>1, <1>2 DEF NotStoredYet
  <1> QED
    BY <1>3, <1>4, StoredKept DEF Moved

\* ... and only AppendCount adds to it.
LEMMA CountedByAppendCount ==
    ASSUME Basics, [Next]_xrtVars, NEW m \in Nat \ {0},
           m <= lastIndex', Stored(m)', pc'[m] # "count",
           ~ (m <= lastIndex /\ Stored(m) /\ pc[m] # "count")
    PROVE  AppendCount(m) /\ m \in Indexes
  <1>1. LogTypes /\ GivenHaveThreads /\ NotStoredYet'
    BY BasicsStep DEF Basics
  <1>2. m \in Indexes
    BY <1>1, IndexesAreKept DEF Indexes
  <1> DEFINE b == BufferOf(m)
  <1>3. b \in Buffers /\ OffsetOf(m) \in Slots
    BY <1>2, IndexHasSlot
  <1>4. pc'[m] # "append"
    BY <1>1, <1>2 DEF NotStoredYet
  <1>5. m <= lastIndex
    BY <1>1, <1>2, <1>4, IndexesAreKept
  <1>6. CASE pc[m] = "count"
    BY <1>1, <1>2, <1>6, LeavesBy
  <1>7. CASE pc[m] # "count"
    <2>1. ~ Stored(m)
      BY <1>5, <1>7
    <2>2. PICK i \in Indexes : AppendStore(i)
      BY <1>1, <2>1, WhatChanges DEF Stored
    <2>3. proposals' = [proposals EXCEPT ![BufferOf(i)][OffsetOf(i)] = i]
      BY <2>2 DEF AppendStore
    <2>4. proposals'[b][OffsetOf(m)] = m /\ proposals[b][OffsetOf(m)] # m
      BY <2>1 DEF Stored
    <2> HIDE DEF b
    <2>5. i = m
      BY <1>1, <1>3, <2>2, <2>3, <2>4, IndexHasSlot DEF LogTypes
    <2> QED
      BY <1>1, <2>2, <2>5, AppendStoreStores
  <1> QED
    BY <1>2, <1>6, <1>7

\* A buffer has counted all of its slots exactly if it is full.
LEMMA CountedIsFinite ==
    ASSUME LogTypes, ExecutingCommitted, NEW b \in Buffers
    PROVE  /\ IsFiniteSet(Counted(b)) /\ Cardinality(Counted(b)) \in 0 .. BUFFER_SIZE
           /\ Cardinality(Counted(b)) = BUFFER_SIZE <=> Full(b)
  <1>1. IsFiniteSet(Open(b)) /\ Cardinality(Open(b)) = BUFFER_SIZE
    BY OpenFacts, RoundSize DEF Open
  <1>2. Counted(b) \subseteq Open(b)
    BY DEF Counted
  <1>3. /\ IsFiniteSet(Counted(b)) /\ Cardinality(Counted(b)) <= BUFFER_SIZE
        /\ Cardinality(Counted(b)) = BUFFER_SIZE => Counted(b) = Open(b)
    BY <1>1, <1>2, FS_Subset
  <1>4. Cardinality(Counted(b)) \in Nat
    BY <1>3, FS_CardinalityType
  <1>5. Full(b) <=> Counted(b) = Open(b)
    BY DEF Counted, Full
  <1> QED
    BY <1>1, <1>3, <1>4, <1>5, XrtLogAssumption

\* The counter of proposals is right, or EarlyApply has reset it on a full buffer,
\* or it is too high by a whole buffer at least.
LEMMA AppendsCountedStep ==
    ASSUME Basics, FewRefused, FewClients, Rounds, [Next]_xrtVars
    PROVE  AppendsCounted'
  <1> DEFINE n(b) == Cardinality(Counted(b))
             Right(count, size) == \/ count = size
                                   \/ count >= size + BUFFER_SIZE
                                   \/ count = 0 /\ size = BUFFER_SIZE
  <1> SUFFICES ASSUME NEW b \in Buffers
               PROVE  Right(appendCounts'[b], Cardinality(Counted(b)'))
    BY DEF AppendsCounted
  <1>1. LogTypes /\ GivenHaveThreads /\ ExecutingCommitted
    BY DEF Basics, Rounds
  <1>2. /\ BUFFER_SIZE \in Nat \ {0} /\ appendCounts[b] \in Nat
        /\ n(b) \in 0 .. BUFFER_SIZE /\ Right(appendCounts[b], n(b))
    BY <1>1, CountedIsFinite, XrtLogAssumption DEF Rounds, AppendsCounted, LogTypes
  <1>3. CASE Commits(b)
    <2>1. Counted(b)' = {} /\ appendCounts'[b] = appendCounts[b]
      BY <1>3, RoundOpens DEF Counted
    <2>2. Cardinality(Counted(b)') = 0
      BY <2>1, FS_EmptySet
    <2>3. Full(b)
      BY <1>3 DEF Commits, Rounds, FlushedIsFull
    <2>4. n(b) = BUFFER_SIZE
      BY <1>1, <2>3, CountedIsFinite
    <2> QED
      BY <1>2, <2>1, <2>2, <2>4
  <1>4. CASE ~ Commits(b)
    <2>1. Open(b)' = Open(b)
      BY <1>4, RoundKept DEF Open
    <2>2. Counted(b) \subseteq Counted(b)'
      BY <2>1, CountedKept DEF Counted
    <2>3. CASE \E i \in Indexes : AppendCount(i) /\ BufferOf(i) = b
      <3>1. PICK i \in Indexes : AppendCount(i) /\ BufferOf(i) = b
        BY <2>3
      <3>2. /\ pc[i] = "count" /\ appendCounts'[b] = appendCounts[b] + 1
            /\ lastIndex' = lastIndex /\ proposals' = proposals
            /\ pc' = [pc EXCEPT ![i] = "test"]
        BY <1>1, <3>1 DEF AppendCount, Goto, LogTypes
      <3>3. i <= lastIndex /\ i \in Open(b) /\ Stored(i)
        BY <3>1, <3>2, UncommittedIsOpen DEF Committed, Rounds, StoredWhenAppended
      <3>4. i \in Counted(b)' /\ i \notin Counted(b)
        BY <1>1, <2>1, <3>2, <3>3 DEF Counted, Stored, LogTypes
      <3>5. ASSUME NEW m \in Counted(b)', m # i
            PROVE  m \in Counted(b)
        <4>1. m \in Open(b) /\ m <= lastIndex /\ Stored(m)
          BY <2>1, <3>2, <3>5 DEF Counted, Stored
        <4>2. m \in Indexes
          BY <1>1, <4>1, OpenIndexes
        <4> QED
          BY <1>1, <3>2, <3>5, <4>1, <4>2 DEF Counted, LogTypes
      <3>6. Counted(b)' = Counted(b) \cup {i}
        BY <2>2, <3>4, <3>5
      <3>7. Cardinality(Counted(b)') = n(b) + 1
        BY <1>1, <3>4, <3>6, CountedIsFinite, FS_AddElement
      <3>8. n(b) # BUFFER_SIZE
        BY <1>1, <3>2, <3>3, CountedIsFinite DEF Full
      <3> HIDE DEF n
      <3> QED
        BY <1>2, <3>2, <3>7, <3>8
    <2>4. CASE ~ \E i \in Indexes : AppendCount(i) /\ BufferOf(i) = b
      <3>1. Counted(b)' = Counted(b)
        <4>1. ASSUME NEW m \in Counted(b)', m \notin Counted(b)
              PROVE  FALSE
          <5>1. m \in Open(b) /\ m \in Nat \ {0} /\ BufferOf(m) = b
            BY <1>1, <2>1, <4>1, OpenFacts, InRound DEF Counted, Open
          <5> QED
            BY <2>1, <2>4, <4>1, <5>1, CountedByAppendCount DEF Counted
        <4> QED
          BY <2>2, <4>1
      <3>2. ASSUME NEW i \in Indexes, AppendCount(i)
            PROVE  appendCounts'[b] = appendCounts[b]
        BY <1>1, <2>4, <3>2 DEF AppendCount, LogTypes
      <3>3. ApplierTest => \/ appendCounts'[b] = appendCounts[b]
                           \/ appendCounts[b] = BUFFER_SIZE /\ appendCounts'[b] = 0
        BY <1>1, ApplierTestDoes DEF LogTypes
      <3>4. \/ appendCounts'[b] = appendCounts[b]
            \/ appendCounts[b] = BUFFER_SIZE /\ appendCounts'[b] = 0
        BY <1>1, <3>2, <3>3, WhatChanges
      <3>5. Cardinality(Counted(b)') = n(b)
        BY <3>1
      <3> HIDE DEF n
      <3> QED
        BY <1>2, <3>4, <3>5
    <2> QED
      BY <2>3, <2>4
  <1> QED
    BY <1>3, <1>4

\* A thread that flushes found the counter full, and so the buffer is.
LEMMA FlushedIsFullStep ==
    ASSUME Basics, FewRefused, FewClients, Rounds, [Next]_xrtVars
    PROVE  FlushedIsFull'
  <1>1. LogTypes /\ GivenHaveThreads /\ ExecutingCommitted
    BY DEF Basics, Rounds
  <1>2. ASSUME NEW b \in Buffers, Full(b), ~ Commits(b)
        PROVE  Full(b)'
    <2>1. Open(b)' = Open(b)
      BY <1>2, RoundKept DEF Open
    <2> QED
      BY <1>2, <2>1, CountedKept DEF Full
  <1>3. ASSUME NEW i \in Indexes, pc'[i] = "flush"
        PROVE  Full(BufferOf(i))'
    <2> DEFINE b == BufferOf(i)
    <2>1. b \in Buffers /\ pc[i] \in {"test", "flush"}
      BY <1>1, <1>3, IndexHasSlot, ThreadsMove DEF Moved
    <2>2. i <= lastIndex /\ i \in Open(b)
      BY <2>1, UncommittedIsOpen DEF Committed
    <2>3. ~ Commits(b)
      BY <2>1, <2>2, RoundOpens DEF Committed
    <2>4. CASE pc[i] = "flush"
      BY <1>2, <2>1, <2>3, <2>4 DEF Rounds, FlushedIsFull
    <2>5. CASE pc[i] = "test"
      <3>1. AppendTest(i)
        BY <1>1, <1>3, <2>5, LeavesBy
      <3>2. appendCounts[b] = BUFFER_SIZE
        BY <1>1, <1>3, <3>1 DEF AppendTest, Goto, LogTypes
      <3>3. i \in Counted(b)
        BY <2>1, <2>2, <2>5 DEF Counted, Rounds, StoredWhenAppended
      <3> DEFINE n == Cardinality(Counted(b))
      <3>4. n # 0
        BY <1>1, <2>1, <3>3, CountedIsFinite, FS_EmptySet
      <3>5. /\ n \in 0 .. BUFFER_SIZE /\ BUFFER_SIZE \in Nat \ {0}
            /\ n = BUFFER_SIZE <=> Full(b)
        BY <1>1, <2>1, CountedIsFinite, XrtLogAssumption
      <3>6. \/ appendCounts[b] = n
            \/ appendCounts[b] >= n + BUFFER_SIZE
            \/ appendCounts[b] = 0 /\ n = BUFFER_SIZE
        BY <2>1 DEF Rounds, AppendsCounted
      <3> HIDE DEF n
      <3>7. n = BUFFER_SIZE
        BY <3>2, <3>4, <3>5, <3>6
      <3> QED
        BY <1>2, <2>1, <2>3, <3>5, <3>7
    <2> QED
      BY <2>1, <2>4, <2>5
  <1>4. ASSUME NEW b \in Buffers, bitmap'[b] = 1
        PROVE  Full(b)'
    <2>1. ~ Commits(b)
      BY <1>4, RoundOpens
    <2>2. Full(b)
      BY <1>4, BitmapMoves DEF Rounds, FlushedIsFull
    <2> QED
      BY <1>2, <2>1, <2>2
  <1> QED
    BY <1>3, <1>4 DEF FlushedIsFull

\* A thread that waits for the lock found the counter of commits full.
LEMMA LockedIsCommittedStep ==
    ASSUME Basics, FewRefused, FewClients, Rounds, [Next]_xrtVars
    PROVE  LockedIsCommitted'
  <1> SUFFICES ASSUME NEW i \in Indexes, pc'[i] \in {"lock", "asleep"}
               PROVE  \/ i <= Base(BufferOf(i))'
                      \/ commitCounts'[BufferOf(i)] = BUFFER_SIZE
    BY DEF LockedIsCommitted
  <1> DEFINE b == BufferOf(i)
  <1>1. LogTypes /\ GivenHaveThreads /\ ExecutingCommitted /\ CommitsCounted
    BY DEF Basics, Rounds
  <1>2. b \in Buffers /\ i \in Nat
    BY IndexHasSlot
  <1>3. pc[i] \in {"committed", "lock", "asleep"}
    BY <1>1, ThreadsMove DEF Moved
  <1>4. CASE Commits(b)
    <2>1. i <= lastIndex
      BY <1>1, <1>2, <1>3 DEF GivenHaveThreads, LogTypes
    <2>2. /\ lastIndex <= Base(b)' /\ Base(b)' = Base(b) + 2 * BUFFER_SIZE
          /\ Base(b) \in Nat /\ BUFFER_SIZE \in Nat /\ lastIndex \in Nat
      BY <1>1, <1>2, <1>4, RoundOpens, OpenFacts, XrtLogAssumption DEF LogTypes
    <2>3. i <= Base(b)'
      BY <1>2, <2>1, <2>2
    <2> QED
      BY <2>3
  <1>5. CASE ~ Commits(b)
    <2>1. Base(b)' = Base(b)
      BY <1>2, <1>5, RoundKept DEF Base
    <2>2. CASE pc[i] \in {"lock", "asleep"} /\ ~ (i <= Base(b))
      <3>1. commitCounts[b] = BUFFER_SIZE
        BY <2>2 DEF Rounds, LockedIsCommitted
      <3>2. \A m \in Open(b) : pc[m] \in Committed
        BY <1>1, <1>2, <3>1, CountedIsCommitted
      <3>3. ASSUME NEW j \in Indexes, CommitCount(j)
            PROVE  commitCounts'[b] = commitCounts[b]
        <4>1. pc[j] = "commit"
          BY <3>3 DEF CommitCount
        <4>2. BufferOf(j) # b
          BY <3>2, <4>1, UncommittedIsOpen DEF Committed
        <4> QED
          BY <1>1, <3>3, <4>2 DEF CommitCount, LogTypes
      <3>4. ASSUME NEW j \in Indexes, CommitBuffer(j)
            PROVE  commitCounts'[b] = commitCounts[b]
        <4>1. BufferOf(j) # b \/ bitmap[b] # 1
          BY <1>5, <3>4 DEF Commits
        <4>2. CASE bitmap[BufferOf(j)] # 1
          BY <1>1, <3>4, <4>2, CommitBufferDoes
        <4>3. CASE bitmap[BufferOf(j)] = 1
          <5>1. commitCounts' = [commitCounts EXCEPT ![BufferOf(j)] = 0] /\ BufferOf(j) # b
            BY <1>1, <3>4, <4>1, <4>3, CommitBufferDoes
          <5> HIDE DEF b
          <5> QED
            BY <1>1, <1>2, <5>1 DEF LogTypes
        <4> QED
          BY <4>2, <4>3
      <3>5. commitCounts'[b] = commitCounts[b]
        BY <1>1, <3>3, <3>4, WhatChanges
      <3> QED
        BY <3>1, <3>5
    <2>3. CASE pc[i] = "committed"
      <3>1. CommitTest(i)
        BY <1>1, <2>3, LeavesBy
      <3>2. commitCounts[b] = BUFFER_SIZE /\ UNCHANGED commitCounts
        BY <1>1, <3>1 DEF CommitTest, AllCommitted, Goto, LogTypes, bufferVars
      <3> QED
        BY <3>2
    <2> QED
      BY <1>3, <2>1, <2>2, <2>3
  <1> QED
    BY <1>4, <1>5

\* The session of a thread at work sends nothing: the last index of a later round
\* is not given out while the rest of that round, unless refused, is unanswered.
LEMMA LateThreadsStep ==
    ASSUME Basics, FewRefused, FewClients, Rounds, [Next]_xrtVars
    PROVE  LateThreads'
  <1> SUFFICES ASSUME NEW i \in InHandler', NEW k \in Nat, i <= k * BUFFER_SIZE
               PROVE  \E m \in Round(k) : m > lastIndex' \/ pc'[m] = "refused"
    BY DEF LateThreads
  <1>1. LogTypes /\ GivenHaveThreads /\ ExecutingCommitted /\ FewUnanswered
    BY DEF Basics, Rounds
  <1>2. /\ lastIndex \in Nat /\ lastIndex' \in Nat /\ lastIndex <= lastIndex'
        /\ lastIndex' <= MaxIndex /\ MaxIndex \in Nat
        /\ BUFFER_SIZE \in Nat \ {0} /\ k * BUFFER_SIZE \in Nat
        /\ Clients \in Nat /\ Clients <= BUFFER_SIZE
    BY <1>1, IndexesAreKept, XrtLogAssumption DEF FewClients
  <1>3. i \in 1 .. lastIndex' /\ i \in Indexes /\ i \in Nat /\ pc'[i] \notin {"done", "refused"}
    BY <1>2 DEF InHandler, Indexes
  <1>4. \A m \in Round(k) : m \in Nat \ {0} /\ m > k * BUFFER_SIZE /\ m <= k * BUFFER_SIZE + BUFFER_SIZE
    BY <1>2 DEF Round
  <1>5. CASE i > lastIndex
    <2>1. lastIndex' = lastIndex + 1 /\ i = lastIndex'
      BY <1>1, <1>2, <1>3, <1>5, ThreadsMove
    <2>2. k * BUFFER_SIZE + 1 \in Round(k)
      BY <1>2 DEF Round
    <2> QED
      BY <1>2, <1>3, <2>1, <2>2
  <1>6. CASE ~ (i > lastIndex)
    <2>1. i \in InHandler
      BY <1>1, <1>2, <1>3, <1>6, ThreadsMove DEF InHandler, Moved
    <2>2. PICK m \in Round(k) : m > lastIndex \/ pc[m] = "refused"
      BY <2>1 DEF Rounds, LateThreads
    <2>3. ASSUME NEW n \in Round(k), n <= MaxIndex, pc[n] = "refused"
          PROVE  pc'[n] = "refused"
      BY <1>1, <1>4, <2>3, ThreadsMove DEF Moved, Indexes
    <2>4. CASE m > lastIndex'
      BY <2>4
    <2>5. CASE ~ (m > lastIndex') /\ ~ (m > lastIndex)
      <3>1. m <= MaxIndex
        BY <1>2, <1>4, <2>5
      <3> QED
        BY <2>2, <2>3, <2>5, <3>1
    <2>6. CASE ~ (m > lastIndex') /\ m > lastIndex
      <3>1. /\ lastIndex' = lastIndex + 1 /\ m = lastIndex + 1 /\ m <= MaxIndex
            /\ Cardinality(Unanswered) < Clients
        <4>1. lastIndex' # lastIndex
          BY <1>2, <1>4, <2>6
        <4>2. lastIndex' = lastIndex + 1 /\ Cardinality(Unanswered) < Clients
          BY <1>1, <4>1, ThreadsMove
        <4> QED
          BY <1>2, <1>4, <2>6, <4>2
      <3> DEFINE last == k * BUFFER_SIZE + BUFFER_SIZE
      <3>2. last \in Round(k) /\ m <= last
        BY <1>2, <1>4 DEF Round
      <3>3. CASE m < last
        BY <1>2, <1>4, <3>1, <3>2, <3>3
      <3>4. CASE m = last
        <4>1. CASE \E n \in Round(k) : n <= lastIndex /\ pc[n] = "refused"
          BY <1>2, <1>4, <2>3, <4>1
        <4>2. CASE ~ \E n \in Round(k) : n <= lastIndex /\ pc[n] = "refused"
          <5> DEFINE b == BufferOf(m)
          <5>1. b \in Buffers /\ b = k % 2 /\ m \in Nat \ {0}
            BY InRound
          <5>2. /\ OpenRound(b) \in Nat /\ Base(b) \in Nat /\ lastExecuted <= Base(b)
                /\ Base(b) = OpenRound(b) * BUFFER_SIZE /\ lastExecuted \in Nat
            BY <1>1, <5>1, OpenFacts DEF Base, LogTypes
          <5>3. ~ (m <= Base(b))
            BY <1>2, <3>1, <5>1 DEF Rounds, RoundsBefore
          <5> HIDE DEF b
          <5>4. lastExecuted <= k * BUFFER_SIZE
            <6>1. ~ (k < OpenRound(b))
              BY <1>2, <3>4, <5>2, <5>3, RoundsAdvance
            <6>2. OpenRound(b) = k \/ Base(b) + BUFFER_SIZE <= k * BUFFER_SIZE
              BY <5>2, <6>1, RoundsAdvance
            <6> QED
              BY <1>2, <5>2, <6>2
          <5> DEFINE T == (k * BUFFER_SIZE + 1) .. (k * BUFFER_SIZE + BUFFER_SIZE - 1)
          <5>5. ASSUME NEW n \in T
                PROVE  n \in Unanswered
            <6>1. n \in Round(k) /\ n \in Nat /\ n > lastExecuted /\ n \in 1 .. lastIndex
              BY <1>2, <3>1, <3>4, <5>2, <5>4 DEF Round
            <6>2. pc[n] # "refused"
              BY <4>2, <6>1
            <6> QED
              BY <6>1, <6>2 DEF Unanswered, InHandler
          <5>6. IsFiniteSet(T) /\ Cardinality(T) = BUFFER_SIZE - 1
            <6>1. k * BUFFER_SIZE + 1 \in Int /\ k * BUFFER_SIZE + BUFFER_SIZE - 1 \in Int
              BY <1>2
            <6>2. IsFiniteSet(T)
              BY <6>1, FS_Interval
            <6>3. CASE BUFFER_SIZE = 1
              <7>1. k * BUFFER_SIZE + 1 > k * BUFFER_SIZE + BUFFER_SIZE - 1
                BY <1>2, <6>3
              <7>2. Cardinality(T) = 0
                BY <6>1, <7>1, FS_Interval
              <7> QED
                BY <1>2, <6>2, <6>3, <7>2
            <6>4. CASE BUFFER_SIZE # 1
              <7>1. ~ (k * BUFFER_SIZE + 1 > k * BUFFER_SIZE + BUFFER_SIZE - 1)
                BY <1>2, <6>4
              <7>2. Cardinality(T) = (k * BUFFER_SIZE + BUFFER_SIZE - 1) - (k * BUFFER_SIZE + 1) + 1
                BY <6>1, <7>1, FS_Interval
              <7> QED
                BY <1>2, <6>2, <7>2
            <6> QED
              BY <6>2, <6>3, <6>4
          <5>7. i \notin T /\ i \in Unanswered
            BY <1>2, <1>3, <2>1 DEF Unanswered
          <5> HIDE DEF T
          <5>8. IsFiniteSet(T \cup {i}) /\ Cardinality(T \cup {i}) = BUFFER_SIZE
            BY <1>2, <5>6, <5>7, FS_AddElement
          <5>9. T \cup {i} \subseteq Unanswered
            BY <5>5, <5>7
          <5>10. BUFFER_SIZE <= Cardinality(Unanswered) /\ Cardinality(Unanswered) \in Nat
            BY <1>1, <5>8, <5>9, FS_Subset, FS_CardinalityType DEF FewUnanswered
          <5> QED
            BY <1>2, <3>1, <5>10
        <4> QED
          BY <4>1, <4>2
      <3> QED
        BY <1>4, <3>2, <3>3, <3>4
    <2> QED
      BY <2>4, <2>5, <2>6
  <1> QED
    BY <1>5, <1>6

\* Execute is in the middle of a buffer only if it found it committed.
LEMMA ExecutingCommittedStep ==
    ASSUME Basics, FewRefused, FewClients, Rounds, [Next]_xrtVars
    PROVE  ExecutingCommitted'
  <1>1. LogTypes /\ GivenHaveThreads /\ ExecutingCommitted /\ LogTypes'
    BY BasicsStep DEF Basics, Rounds
  <1>2. Turn % 2 \in Buffers /\ NextBuffer = Turn % 2
    BY <1>1, TurnFacts
  <1>3. CASE Execute
    <2>1. CASE lastExecuted % BUFFER_SIZE = BUFFER_SIZE - 1
      BY <1>1, <1>3, <2>1, ExecuteTurns DEF ExecutingCommitted
    <2>2. CASE lastExecuted % BUFFER_SIZE # BUFFER_SIZE - 1
      BY <1>1, <1>2, <1>3, <2>2, ExecuteTurns, ExecuteDoes DEF ExecutingCommitted
    <2> QED
      BY <2>1, <2>2
  <1>4. CASE ~ Execute
    <2>1. lastExecuted' = lastExecuted /\ Turn' = Turn
      BY <1>1, <1>4, WhatChanges DEF Turn
    <2>2. bitmap[Turn % 2] = 2 => bitmap'[Turn % 2] = 2
      BY <1>2, <1>4, BitmapMoves
    <2> QED
      BY <1>1, <2>1, <2>2 DEF ExecutingCommitted
  <1> QED
    BY <1>3, <1>4

-----------------------------------------------------------------------------
(* The invariant, and what follows.                                        *)

\* A refused command stays refused.
LEMMA FewRefusedBefore ==
    ASSUME LogTypes, GivenHaveThreads, [Next]_xrtVars, FewRefused'
    PROVE  FewRefused
  <1>1. Refused \subseteq Refused'
    BY ThreadsMove DEF Refused, Moved
  <1>2. IsFiniteSet(Indexes) /\ Refused' \subseteq Indexes
    BY XrtLogAssumption, FS_Interval DEF Indexes, Refused
  <1>3. IsFiniteSet(Refused') /\ IsFiniteSet(Refused)
    BY <1>1, <1>2, FS_Subset
  <1>4. Cardinality(Refused) <= Cardinality(Refused')
    BY <1>1, <1>3, FS_Subset
  <1>5. Cardinality(Refused) \in Nat /\ Cardinality(Refused') \in Nat
    BY <1>3, FS_CardinalityType
  <1> QED
    BY <1>4, <1>5, XrtLogAssumption DEF FewRefused, BUFFER_COUNT

\* An empty log satisfies the invariant.
LEMMA IInvInit ==
    ASSUME Init
    PROVE  IInv
  <1>1. Basics /\ LogTypes
    BY BasicsInit DEF Basics
  <1>2. /\ lastIndex = 0 /\ lastExecuted = 0
        /\ \A b \in Buffers : bitmap[b] = 0 /\ appendCounts[b] = 0 /\ commitCounts[b] = 0
    BY DEF Init
  <1>3. \A i \in Indexes : pc[i] = "none"
    BY DEF Init
  <1>4. BUFFER_SIZE \in Nat \ {0} /\ 0 * BUFFER_SIZE = 0 /\ 1 * BUFFER_SIZE = BUFFER_SIZE
    BY XrtLogAssumption
  <1>5. Turn = 0 /\ lastExecuted % BUFFER_SIZE = 0
    BY <1>2, <1>4, TurnOf DEF Turn
  <1>6. ExecutingCommitted
    BY <1>5 DEF ExecutingCommitted
  <1>7. \A b \in Buffers : OpenRound(b) = b
    BY <1>2, <1>5 DEF OpenRound, Buffers, BUFFER_COUNT
  <1>8. RoundsBefore
    <2> SUFFICES ASSUME NEW i \in Nat \ {0}, i <= Base(BufferOf(i))
                 PROVE  FALSE
      BY DEF RoundsBefore
    <2>1. BufferOf(i) \in Buffers
      BY RoundOf, InRound
    <2>2. BufferOf(i) = 1 /\ i <= BUFFER_SIZE
      BY <1>4, <1>7, <2>1 DEF Base, Buffers, BUFFER_COUNT
    <2>3. i \in Round(0)
      BY <1>4, <2>2 DEF Round
    <2>4. BufferOf(i) = 0 % 2
      BY <2>3, InRound
    <2> QED
      BY <2>2, <2>4
  <1>9. \A b \in Buffers : \A m \in Open(b) : ~ (m <= lastIndex)
    BY <1>1, <1>2, <1>6, OpenFacts, InRound DEF Open
  <1>10. CommitsCounted
    <2>1. \A b \in Buffers : CommittedOf(b) = {}
      BY <1>9 DEF CommittedOf
    <2> QED
      BY <1>2, <2>1, FS_EmptySet DEF CommitsCounted
  <1>11. AppendsCounted
    <2>1. \A b \in Buffers : Counted(b) = {}
      BY <1>9 DEF Counted
    <2> QED
      BY <1>2, <2>1, FS_EmptySet DEF AppendsCounted
  <1>12. StoredWhenAppended
    BY <1>9 DEF StoredWhenAppended
  <1>13. FlushedIsFull /\ LockedIsCommitted
    BY <1>2, <1>3 DEF FlushedIsFull, LockedIsCommitted
  <1>14. LateThreads
    BY <1>2 DEF LateThreads, InHandler
  <1> QED
    BY <1>1, <1>6, <1>8, <1>10, <1>11, <1>12, <1>13, <1>14 DEF IInv, Rounds

\* Every step keeps the invariant.
LEMMA IInvStep ==
    ASSUME FewClients, IInv, [Next]_xrtVars
    PROVE  IInv'
  <1>1. Basics /\ Basics' /\ LogTypes /\ GivenHaveThreads
    BY BasicsStep DEF IInv, Basics
  <1>2. ASSUME FewRefused'
        PROVE  Rounds'
    <2>1. FewRefused /\ Rounds
      BY <1>1, <1>2, FewRefusedBefore DEF IInv
    <2>2. RoundsBefore' /\ CommitsCounted'
      BY <1>1, <2>1, RoundsBeforeStep, CommitsCountedStep
    <2>3. StoredWhenAppended' /\ AppendsCounted'
      BY <1>1, <2>1, StoredWhenAppendedStep, AppendsCountedStep
    <2>4. FlushedIsFull' /\ LockedIsCommitted'
      BY <1>1, <2>1, FlushedIsFullStep, LockedIsCommittedStep
    <2>5. LateThreads' /\ ExecutingCommitted'
      BY <1>1, <2>1, LateThreadsStep, ExecutingCommittedStep
    <2> QED
      BY <2>2, <2>3, <2>4, <2>5 DEF Rounds
  <1> QED
    BY <1>1, <1>2 DEF IInv

\* IInv is an invariant of the log.
LEMMA Invariant ==
    ASSUME FewClients
    PROVE  Spec => []IInv
  <1>1. Init => IInv
    BY IInvInit
  <1>2. IInv /\ [Next]_xrtVars => IInv'
    BY IInvStep
  <1> QED
    BY <1>1, <1>2, PTL DEF Spec

\* What Execute has begun is before the open rounds.
LEMMA BegunIsBefore ==
    ASSUME LogTypes, ExecutingCommitted, NEW i \in Nat \ {0}, i <= Begun
    PROVE  i <= Base(BufferOf(i))
  <1> DEFINE b == BufferOf(i)
             rest == lastExecuted % BUFFER_SIZE
  <1>1. b \in Buffers
    BY RoundOf, InRound
  <1>2. /\ Turn \in Nat /\ BUFFER_SIZE \in Nat \ {0} /\ Turn * BUFFER_SIZE \in Nat
        /\ lastExecuted \in Nat /\ lastExecuted = Turn * BUFFER_SIZE + rest
        /\ (Turn + 1) * BUFFER_SIZE = Turn * BUFFER_SIZE + BUFFER_SIZE
    BY TurnFacts DEF LogTypes
  <1>3. rest \in 0 .. BUFFER_SIZE - 1
    BY Division DEF LogTypes
  <1>4. OpenRound(b) \in Nat /\ Base(b) \in Nat /\ lastExecuted <= Base(b)
    BY <1>1, OpenFacts
  <1>5. CASE rest = 0
    <2> HIDE DEF rest
    <2>1. (lastExecuted + BUFFER_SIZE - 1) \div BUFFER_SIZE = Turn
      <3>1. /\ lastExecuted + BUFFER_SIZE - 1 \in Nat
            /\ Turn * BUFFER_SIZE <= lastExecuted + BUFFER_SIZE - 1
            /\ lastExecuted + BUFFER_SIZE - 1 < Turn * BUFFER_SIZE + BUFFER_SIZE
        BY <1>2, <1>5
      <3> QED
        BY <1>2, <3>1, TurnOf
    <2>2. Begun = lastExecuted
      BY <1>2, <1>5, <2>1 DEF Begun
    <2> QED
      BY <1>2, <1>4, <2>2
  <1>6. CASE rest # 0
    <2>1. Turn < OpenRound(b)
      <3>1. bitmap[Turn % 2] = 2
        BY <1>3, <1>6 DEF ExecutingCommitted
      <3> QED
        BY <1>2, <3>1 DEF OpenRound
    <2> HIDE DEF rest
    <2>2. (lastExecuted + BUFFER_SIZE - 1) \div BUFFER_SIZE = Turn + 1
      <3>1. /\ lastExecuted + BUFFER_SIZE - 1 \in Nat
            /\ (Turn + 1) * BUFFER_SIZE <= lastExecuted + BUFFER_SIZE - 1
            /\ lastExecuted + BUFFER_SIZE - 1 < (Turn + 1) * BUFFER_SIZE + BUFFER_SIZE
            /\ Turn + 1 \in Nat
        BY <1>2, <1>3, <1>6
      <3> QED
        BY <3>1, TurnOf
    <2>3. Begun = Turn * BUFFER_SIZE + BUFFER_SIZE
      BY <1>2, <2>2 DEF Begun
    <2>4. Turn * BUFFER_SIZE + BUFFER_SIZE <= Base(b)
      BY <1>2, <1>4, <2>1, RoundsAdvance DEF Base
    <2> QED
      BY <1>2, <1>4, <2>3, <2>4
  <1> QED
    BY <1>5, <1>6

\* Execute is called for no command before Commit was, for it and its buffer.
THEOREM NoneExecutedEarly ==
    ASSUME Clients <= BUFFER_SIZE
    PROVE  Spec => []ExecutedIsCommitted
  <1>1. IInv => ExecutedIsCommitted
    <2> SUFFICES ASSUME IInv, FewRefused, NEW i \in 1 .. Begun
                 PROVE  pc[i] \in {"committed", "lock", "asleep", "done"}
      BY DEF ExecutedIsCommitted
    <2>1. LogTypes /\ Rounds
      BY DEF IInv, Basics
    <2>2. Begun \in Int
      <3>1. lastExecuted + BUFFER_SIZE - 1 \in Nat /\ BUFFER_SIZE \in Nat \ {0}
        BY <2>1, XrtLogAssumption DEF LogTypes
      <3>2. (lastExecuted + BUFFER_SIZE - 1) \div BUFFER_SIZE \in Nat
        BY <3>1, Division
      <3> QED
        BY <3>1, <3>2 DEF Begun
    <2>3. i \in Nat \ {0} /\ i <= Begun
      BY <2>2
    <2>4. i <= Base(BufferOf(i))
      BY <2>1, <2>3, BegunIsBefore DEF Rounds
    <2> QED
      BY <2>1, <2>3, <2>4 DEF Rounds, RoundsBefore, Committed
  <1>2. Spec => []IInv
    BY Invariant DEF FewClients
  <1> QED
    BY <1>1, <1>2, PTL

\* No thread that is late flushes a committed buffer once more.
THEOREM NoLateFlush ==
    ASSUME Clients <= BUFFER_SIZE
    PROVE  Spec => CommittedBufferStays
  <1>1. IInv /\ [Next]_xrtVars =>
          [FewRefused => \A b \in Buffers : bitmap[b] = 2 => bitmap'[b] \in {2, 3}]_xrtVars
    <2> SUFFICES ASSUME IInv, [Next]_xrtVars, FewRefused, NEW b \in Buffers, bitmap[b] = 2
                 PROVE  bitmap'[b] \in {2, 3}
      OBVIOUS
    <2> QED
      BY BitmapMoves DEF IInv, FewClients
  <1>2. Spec => []IInv
    BY Invariant DEF FewClients
  <1> QED
    BY <1>1, <1>2, PTL DEF Spec, CommittedBufferStays

\* The proposal that AppendStore overwrites is executed, or was refused.
THEOREM NoneLost ==
    ASSUME Clients <= BUFFER_SIZE
    PROVE  Spec => NothingOverwritten
  <1> DEFINE Kept == FewRefused =>
                        \A b \in Buffers, o \in Slots :
                            proposals'[b][o] # proposals[b][o]
                                => proposals[b][o] <= lastExecuted \/ proposals[b][o] \in Refused
  <1>1. IInv /\ [Next]_xrtVars => [Kept]_xrtVars
    <2> SUFFICES ASSUME IInv, [Next]_xrtVars, FewRefused, NEW b \in Buffers, NEW o \in Slots,
                        proposals'[b][o] # proposals[b][o]
                 PROVE  proposals[b][o] <= lastExecuted
      OBVIOUS
    <2>1. /\ Basics /\ LogTypes /\ GivenHaveThreads /\ SlotsHoldTheirs
          /\ Rounds /\ ExecutingCommitted /\ FewClients
      BY DEF IInv, Basics, Rounds, FewClients
    <2>2. PICK i \in Indexes : AppendStore(i)
      BY <2>1, WhatChanges
    <2>3. /\ pc[i] = "append" /\ BufferOf(i) \in Buffers /\ OffsetOf(i) \in Slots
          /\ proposals' = [proposals EXCEPT ![BufferOf(i)][OffsetOf(i)] = i]
      BY <2>2, IndexHasSlot DEF AppendStore
    <2>4. b = BufferOf(i) /\ o = OffsetOf(i)
      BY <2>1, <2>3 DEF LogTypes
    <2>5. i \in Open(b) /\ i <= lastIndex /\ i \in Nat
      BY <2>1, <2>3, <2>4, UncommittedIsOpen, IndexHasSlot DEF Committed
    <2> DEFINE j == proposals[b][o]
    <2>6. /\ j \in 0 .. MaxIndex /\ lastExecuted \in Nat /\ BUFFER_SIZE \in Nat
          /\ lastIndex \in Nat /\ MaxIndex \in Nat
      BY <2>1, XrtLogAssumption DEF LogTypes
    <2>7. CASE j = 0
      BY <2>6, <2>7
    <2>8. CASE j # 0
      <3>1. j <= lastIndex /\ BufferOf(j) = b /\ OffsetOf(j) = o
        BY <2>8 DEF SlotsHoldTheirs, Basics, IInv
      <3> HIDE DEF j
      <3>2. j \in Indexes /\ j \in Nat \ {0} /\ j # i
        <4>1. proposals'[b][o] = i
          BY <2>1, <2>3, <2>4 DEF LogTypes
        <4> QED
          BY <2>6, <2>8, <4>1 DEF Indexes, j
      <3>3. OpenRound(b) \in Nat /\ OpenRound(b) % 2 = b /\ Base(b) = OpenRound(b) * BUFFER_SIZE
        BY <2>1, OpenFacts DEF Base
      <3>4. j \notin Open(b)
        BY <2>4, <2>5, <3>1, <3>2, <3>3, RoundSize DEF Open
      <3>5. j <= Base(b)
        BY <2>1, <3>1, <3>2, <3>4, WhereGiven
      <3>6. j + 2 * BUFFER_SIZE <= i
        BY <2>4, <2>5, <3>1, <3>2, <3>3, <3>5, TwoRoundsBefore DEF Open
      <3>7. lastIndex <= lastExecuted + 2 * BUFFER_SIZE
        BY <2>1, TwoBuffersAhead
      <3>8. j <= lastExecuted
        BY <2>5, <2>6, <3>2, <3>6, <3>7
      <3> QED
        BY <3>8 DEF j
    <2> QED
      BY <2>7, <2>8
  <1>2. Spec => []IInv
    BY Invariant DEF FewClients
  <1> QED
    BY <1>1, <1>2, PTL DEF Spec, NothingOverwritten

-----------------------------------------------------------------------------
(* The device: EarlyApply, the kernel and the results.                     *)

DeviceTypes ==
    /\ logBo \in [Slots -> 0 .. MaxIndex]
    /\ resultBo \in [Slots -> 0 .. MaxIndex]
    /\ resultMap \in [Slots -> 0 .. MaxIndex]
    /\ applier \in [pc : {"outer", "asleep", "run", "sync"}, slot : 0 .. BUFFER_SIZE]
    /\ applier.pc = "run" => applier.slot < BUFFER_SIZE
    /\ applier.pc = "sync" => applier.slot = BUFFER_SIZE
    /\ lastApplied \in Nat
    /\ executor \in {"outer", "asleep"}
    /\ answers \in Seq(0 .. MaxIndex)
    /\ mishaps \subseteq {"slow", "premature", "twice"}

Working == applier.pc \in {"run", "sync"}

\* What the steps do that are neither the executor's nor EarlyApply's.
LEMMA SessionsLeaveDevice ==
    ASSUME [Next]_xrtVars, ~ EarlyApply, ~ Execute
    PROVE  /\ UNCHANGED <<resultBo, resultMap, lastApplied, answers, lastExecuted>>
           /\ UNCHANGED <<logBo, applier>> \/ \E i \in Indexes : Flush(i)
           /\ mishaps' \in {mishaps, mishaps \cup {"twice"}}
           /\ executor' \in {executor, "outer", "asleep"}
  <1>1. CASE AdvanceLastIndex
    BY <1>1 DEF AdvanceLastIndex, deviceVars, executorVars
  <1>2. ASSUME NEW i \in Indexes, Thread(i)
        PROVE  /\ UNCHANGED <<resultBo, resultMap, lastApplied, answers, lastExecuted>>
               /\ UNCHANGED <<logBo, applier>> \/ Flush(i)
               /\ mishaps' \in {mishaps, mishaps \cup {"twice"}}
               /\ executor' \in {executor, "outer", "asleep"}
    <2>1. CASE AppendStore(i)
      BY <2>1 DEF AppendStore, deviceVars, executorVars
    <2>2. CASE AppendCount(i)
      BY <2>2 DEF AppendCount, deviceVars, executorVars
    <2>3. CASE AppendTest(i)
      BY <2>3 DEF AppendTest, deviceVars, executorVars
    <2>4. CASE Flush(i)
      BY <2>4 DEF Flush, executorVars
    <2>5. CASE GiveUp(i)
      BY <2>5 DEF GiveUp, deviceVars, executorVars
    <2>6. CASE CommitCount(i)
      BY <2>6 DEF CommitCount, deviceVars, executorVars
    <2>7. CASE CommitTest(i)
      BY <2>7 DEF CommitTest, deviceVars, executorVars
    <2>8. CASE CommitBuffer(i)
      <3>1. mishaps' \in {mishaps, mishaps \cup {"twice"}} /\ executor' \in {executor, "outer"}
        <4>1. CASE bitmap[BufferOf(i)] # 1
          BY <2>8, <4>1 DEF CommitBuffer
        <4>2. CASE bitmap[BufferOf(i)] = 1
          BY <2>8, <4>2 DEF CommitBuffer
        <4> QED
          BY <4>1, <4>2
      <3> QED
        BY <2>8, <3>1 DEF CommitBuffer, deviceVars
    <2> QED
      BY <1>2, <2>1, <2>2, <2>3, <2>4, <2>5, <2>6, <2>7, <2>8 DEF Thread
  <1>3. CASE ExecutorWait
    BY <1>3 DEF ExecutorWait, deviceVars
  <1>4. CASE UNCHANGED xrtVars
    BY <1>4 DEF xrtVars, deviceVars, executorVars
  <1> QED
    BY <1>1, <1>2, <1>3, <1>4 DEF Next, ExecutorThread

\* Flush puts the buffer on the device, and does not disturb a run.
LEMMA FlushToDevice ==
    ASSUME DeviceTypes, NEW i \in Indexes, Flush(i)
    PROVE  /\ logBo' = proposals[BufferOf(i)]
           /\ (Working' <=> Working) /\ (Working => applier' = applier)
           /\ applier' \in {applier, [pc |-> "outer", slot |-> applier.slot]}
  <1>0. logBo' = proposals[BufferOf(i)]
    BY DEF Flush
  <1>1. applier = [pc |-> applier.pc, slot |-> applier.slot]
    BY DEF DeviceTypes
  <1>2. CASE applier.pc = "asleep"
    <2>1. applier' = [applier EXCEPT !.pc = "outer"]
      BY <1>2 DEF Flush
    <2>2. applier' = [pc |-> "outer", slot |-> applier.slot]
      BY <1>1, <2>1
    <2>3. ~ Working /\ ~ Working'
      BY <1>2, <2>2 DEF Working
    <2> QED
      BY <1>0, <2>2, <2>3
  <1>3. CASE applier.pc # "asleep"
    <2>1. applier' = [applier EXCEPT !.pc = applier.pc]
      BY <1>3 DEF Flush
    <2>2. applier' = applier
      BY <1>1, <2>1
    <2> QED
      BY <1>0, <2>2 DEF Working
  <1> QED
    BY <1>2, <1>3

\* EarlyApply takes the buffer last flushed if it is counted full, else it sleeps.
LEMMA ApplierTestOnDevice ==
    ASSUME DeviceTypes, ApplierTest
    PROVE  /\ UNCHANGED <<logBo, resultBo, resultMap, lastApplied, answers, lastExecuted, executor>>
           /\ applier.pc = "outer"
           /\ \/ /\ appendCounts[current] = BUFFER_SIZE
                 /\ appendCounts' = [appendCounts EXCEPT ![current] = 0]
                 /\ applier' = [pc |-> "run", slot |-> 0]
                 /\ mishaps' = mishaps \cup IF logBo = proposals[current] THEN {} ELSE {"premature"}
              \/ /\ UNCHANGED <<appendCounts, mishaps>>
                 /\ applier' = [pc |-> "asleep", slot |-> applier.slot]
  <1>1. applier = [pc |-> applier.pc, slot |-> applier.slot]
    BY DEF DeviceTypes
  <1>2. CASE appendCounts[current] = BUFFER_SIZE
    BY <1>2 DEF ApplierTest, deviceVars
  <1>3. CASE appendCounts[current] # BUFFER_SIZE
    <2>1. applier' = [applier EXCEPT !.pc = "asleep"]
      BY <1>3 DEF ApplierTest
    <2>2. applier' = [pc |-> "asleep", slot |-> applier.slot]
      BY <1>1, <2>1
    <2> QED
      BY <1>3, <2>2 DEF ApplierTest, deviceVars
  <1> QED
    BY <1>2, <1>3

\* Execute takes the result that is there, or what it makes the kernel give it.
LEMMA ExecuteOnDevice ==
    ASSUME Execute
    PROVE  /\ UNCHANGED <<logBo, applier, executor>>
           /\ \/ /\ lastExecuted < lastApplied \/ ~ (lastExecuted >= lastApplied)
                 /\ UNCHANGED <<resultBo, resultMap, lastApplied, mishaps>>
              \/ /\ resultBo' = logBo /\ resultMap' = logBo
                 /\ lastApplied' = lastApplied + BUFFER_SIZE
                 /\ mishaps' = mishaps \cup {"slow"}
           /\ lastExecuted' = lastExecuted + 1
           /\ answers' = Append(answers, resultMap'[lastExecuted % BUFFER_SIZE])
  BY DEF Execute, RunKernel, NotApplied

\* Every step leaves the device's buffers and EarlyApply of their types.
LEMMA DeviceTypesStep ==
    ASSUME LogTypes, GivenHaveThreads, DeviceTypes, [Next]_xrtVars
    PROVE  DeviceTypes'
  <1>0. BUFFER_SIZE \in Nat \ {0} /\ MaxIndex \in Nat
    BY XrtLogAssumption
  <1>1. CASE ApplierTest
    <2>1. UNCHANGED <<logBo, resultBo, resultMap, lastApplied, answers, executor>>
      BY <1>1, ApplierTestOnDevice
    <2>2. mishaps' \subseteq {"slow", "premature", "twice"}
      BY <1>1, ApplierTestOnDevice DEF DeviceTypes
    <2>3. applier' \in {[pc |-> "run", slot |-> 0], [pc |-> "asleep", slot |-> applier.slot]}
      BY <1>1, ApplierTestOnDevice
    <2>4. applier.slot \in 0 .. BUFFER_SIZE
      BY DEF DeviceTypes
    <2> QED
      BY <1>0, <2>1, <2>2, <2>3, <2>4 DEF DeviceTypes
  <1>2. CASE ApplierRun
    <2>1. applier.slot \in 0 .. BUFFER_SIZE - 1 /\ applier.slot \in Slots
      BY <1>0, <1>2 DEF ApplierRun, DeviceTypes, Slots
    <2>2. resultBo' \in [Slots -> 0 .. MaxIndex]
      BY <1>2, <2>1 DEF ApplierRun, DeviceTypes
    <2>3. applier' = [pc |-> IF applier.slot = BUFFER_SIZE - 1 THEN "sync" ELSE "run",
                      slot |-> applier.slot + 1]
      BY <1>2 DEF ApplierRun
    <2>4. UNCHANGED <<logBo, resultMap, lastApplied, answers, executor, mishaps>>
      BY <1>2 DEF ApplierRun, executorVars
    <2>5. CASE applier.slot = BUFFER_SIZE - 1
      <3>1. applier' = [pc |-> "sync", slot |-> BUFFER_SIZE]
        BY <1>0, <2>3, <2>5
      <3> QED
        BY <1>0, <2>2, <2>4, <3>1 DEF DeviceTypes
    <2>6. CASE applier.slot # BUFFER_SIZE - 1
      <3>1. applier' = [pc |-> "run", slot |-> applier.slot + 1]
        BY <2>3, <2>6
      <3>2. applier.slot + 1 \in 0 .. BUFFER_SIZE /\ applier.slot + 1 < BUFFER_SIZE
        BY <1>0, <2>1, <2>6
      <3> QED
        BY <2>2, <2>4, <3>1, <3>2 DEF DeviceTypes
    <2> QED
      BY <2>5, <2>6
  <1>3. CASE ApplierSync
    BY <1>0, <1>3 DEF ApplierSync, DeviceTypes, executorVars
  <1>4. CASE Execute
    <2>1. UNCHANGED <<logBo, applier, executor>>
      BY <1>4, ExecuteOnDevice
    <2>2. /\ resultBo' \in [Slots -> 0 .. MaxIndex] /\ resultMap' \in [Slots -> 0 .. MaxIndex]
          /\ lastApplied' \in Nat /\ mishaps' \subseteq {"slow", "premature", "twice"}
      <3>1. CASE UNCHANGED <<resultBo, resultMap, lastApplied, mishaps>>
        BY <3>1 DEF DeviceTypes
      <3>2. CASE /\ resultBo' = logBo /\ resultMap' = logBo
                 /\ lastApplied' = lastApplied + BUFFER_SIZE
                 /\ mishaps' = mishaps \cup {"slow"}
        BY <1>0, <3>2 DEF DeviceTypes
      <3> QED
        BY <1>4, <3>1, <3>2, ExecuteOnDevice
    <2>3. lastExecuted % BUFFER_SIZE \in Slots
      BY Division DEF LogTypes, Slots
    <2>4. answers' \in Seq(0 .. MaxIndex)
      <3> DEFINE result == resultMap'[lastExecuted % BUFFER_SIZE]
      <3>1. result \in 0 .. MaxIndex
        BY <2>2, <2>3
      <3>2. answers' = Append(answers, result) /\ answers \in Seq(0 .. MaxIndex)
        BY <1>4, ExecuteOnDevice DEF DeviceTypes
      <3> HIDE DEF result
      <3> QED
        BY <3>1, <3>2
    <2> QED
      BY <2>1, <2>2, <2>4 DEF DeviceTypes
  <1>5. CASE ~ EarlyApply /\ ~ Execute
    <2>1. /\ UNCHANGED <<resultBo, resultMap, lastApplied, answers, lastExecuted>>
          /\ UNCHANGED <<logBo, applier>> \/ \E i \in Indexes : Flush(i)
          /\ mishaps' \in {mishaps, mishaps \cup {"twice"}}
          /\ executor' \in {executor, "outer", "asleep"}
      BY <1>5, SessionsLeaveDevice
    <2>2. mishaps' \subseteq {"slow", "premature", "twice"} /\ executor' \in {"outer", "asleep"}
      BY <2>1 DEF DeviceTypes
    <2>3. CASE UNCHANGED <<logBo, applier>>
      BY <2>1, <2>2, <2>3 DEF DeviceTypes
    <2>4. ASSUME NEW i \in Indexes, Flush(i)
          PROVE  DeviceTypes'
      <3>1. logBo' \in [Slots -> 0 .. MaxIndex]
        BY <2>4, FlushToDevice, IndexHasSlot DEF LogTypes
      <3>2. applier' \in {applier, [pc |-> "outer", slot |-> applier.slot]}
        BY <2>4, FlushToDevice
      <3>3. applier.slot \in 0 .. BUFFER_SIZE
        BY DEF DeviceTypes
      <3> QED
        BY <2>1, <2>2, <3>1, <3>2, <3>3 DEF DeviceTypes
    <2> QED
      BY <2>1, <2>3, <2>4
  <1> QED
    BY <1>1, <1>2, <1>3, <1>4, <1>5 DEF EarlyApply

-----------------------------------------------------------------------------
(* Types.  The counters are at most MaxIndex.                              *)

CountedEver == {i \in Indexes : pc[i] \notin {"none", "append", "count"}}

CountedOnce == \A b \in Buffers : appendCounts[b] <= Cardinality(CountedEver)

RefusedBounded == Cardinality(Refused) <= MaxRefused

\* No index is counted twice.
LEMMA CountedOnceStep ==
    ASSUME LogTypes, GivenHaveThreads, CountedOnce, [Next]_xrtVars
    PROVE  CountedOnce'
  <1> DEFINE E == CountedEver
  <1>1. IsFiniteSet(Indexes) /\ E \subseteq Indexes /\ E' \subseteq Indexes
    BY XrtLogAssumption, FS_Interval DEF Indexes, CountedEver
  <1>2. E \subseteq E'
    BY ThreadsMove DEF CountedEver, Moved
  <1>3. IsFiniteSet(E) /\ IsFiniteSet(E') /\ Cardinality(E) <= Cardinality(E')
    BY <1>1, <1>2, FS_Subset
  <1>4. Cardinality(E) \in Nat /\ Cardinality(E') \in Nat
    BY <1>3, FS_CardinalityType
  <1> SUFFICES ASSUME NEW b \in Buffers
               PROVE  appendCounts'[b] <= Cardinality(E')
    BY DEF CountedOnce
  <1>5. appendCounts[b] \in Nat /\ appendCounts[b] <= Cardinality(E)
    BY DEF LogTypes, CountedOnce
  <1>6. CASE UNCHANGED appendCounts
    BY <1>3, <1>4, <1>5, <1>6
  <1>7. CASE ApplierTest
    <2>1. appendCounts'[b] = appendCounts[b] \/ appendCounts'[b] = 0
      BY <1>7, ApplierTestDoes DEF LogTypes
    <2> QED
      BY <1>3, <1>4, <1>5, <2>1
  <1>8. ASSUME NEW i \in Indexes, AppendCount(i)
        PROVE  appendCounts'[b] <= Cardinality(E')
    <2>1. pc[i] = "count" /\ pc'[i] = "test" /\ appendCounts'[b] \in {appendCounts[b], appendCounts[b] + 1}
      BY <1>8 DEF AppendCount, Goto, LogTypes
    <2>2. i \in E' /\ i \notin E
      BY <2>1 DEF CountedEver
    <2>3. E \cup {i} \subseteq E'
      BY <1>2, <2>2
    <2>4. Cardinality(E \cup {i}) = Cardinality(E) + 1
      BY <1>3, <2>2, FS_AddElement
    <2>5. Cardinality(E \cup {i}) <= Cardinality(E')
      BY <1>3, <2>3, FS_Subset
    <2> HIDE DEF E
    <2> QED
      BY <1>4, <1>5, <2>1, <2>4, <2>5
  <1> QED
    BY <1>6, <1>7, <1>8, WhatChanges

\* No more are refused than the bound allows.
LEMMA RefusedBoundedStep ==
    ASSUME LogTypes, GivenHaveThreads, RefusedBounded, [Next]_xrtVars
    PROVE  RefusedBounded'
  <1>1. Refused \subseteq Refused'
    BY ThreadsMove DEF Refused, Moved
  <1>2. CASE Refused' = Refused
    BY <1>2 DEF RefusedBounded
  <1>3. CASE Refused' # Refused
    <2>1. PICK m \in Indexes : pc'[m] = "refused" /\ pc[m] # "refused"
      BY <1>1, <1>3 DEF Refused
    <2>2. pc[m] \in {"append", "commit"}
      BY <2>1, ThreadsMove DEF Moved
    <2>3. Thread(m)
      BY <2>1, <2>2, ThreadMoved
    <2>4. GiveUp(m)
      <3>1. ~ AppendStore(m) /\ ~ CommitCount(m)
        BY <2>1 DEF AppendStore, CommitCount, Goto, LogTypes
      <3>2. ~ AppendCount(m) /\ ~ AppendTest(m) /\ ~ Flush(m) /\ ~ CommitTest(m) /\ ~ CommitBuffer(m)
        BY <2>2 DEF AppendCount, AppendTest, Flush, CommitTest, CommitBuffer
      <3> QED
        BY <2>3, <3>1, <3>2 DEF Thread
    <2>5. Cardinality(Refused) < MaxRefused /\ pc' = [pc EXCEPT ![m] = "refused"]
      BY <2>4 DEF GiveUp, Goto
    <2>6. Refused' = Refused \cup {m} /\ m \notin Refused
      BY <2>1, <2>5 DEF Refused, LogTypes
    <2>7. IsFiniteSet(Refused)
      <3>1. IsFiniteSet(Indexes)
        BY XrtLogAssumption, FS_Interval DEF Indexes
      <3>2. Refused \subseteq Indexes
        BY DEF Refused
      <3> QED
        BY <3>1, <3>2, FS_Subset
    <2>8. Cardinality(Refused') = Cardinality(Refused) + 1 /\ Cardinality(Refused) \in Nat
      BY <2>6, <2>7, FS_AddElement, FS_CardinalityType
    <2> QED
      BY <2>5, <2>8, XrtLogAssumption DEF RefusedBounded
  <1> QED
    BY <1>2, <1>3

\* What has been executed has been given out.
LEMMA ExecutedIsGiven ==
    ASSUME LogTypes, Rounds
    PROVE  lastExecuted <= lastIndex
  <1>1. CASE lastExecuted = 0
    BY <1>1 DEF LogTypes
  <1>2. CASE lastExecuted # 0
    <2>1. lastExecuted \in Nat \ {0} /\ BufferOf(lastExecuted) \in Buffers
      BY <1>2, RoundOf, InRound DEF LogTypes
    <2>2. lastExecuted <= Base(BufferOf(lastExecuted))
      BY <2>1, OpenFacts DEF Rounds
    <2> QED
      BY <2>1, <2>2 DEF Rounds, RoundsBefore
  <1> QED
    BY <1>1, <1>2

\* Every variable keeps its type, if no more commands are refused than a buffer has
\* slots: in particular no counter counts a command twice.
THEOREM XrtLogTypeCorrect ==
    ASSUME Clients <= BUFFER_SIZE, MaxRefused <= BUFFER_SIZE
    PROVE  Spec => []TypeOK
  <1> DEFINE TypeInv == Basics /\ DeviceTypes /\ CountedOnce /\ RefusedBounded
  <1>1. Init => TypeInv
    <2> SUFFICES ASSUME Init
                 PROVE  TypeInv
      OBVIOUS
    <2>1. Basics /\ LogTypes
      BY BasicsInit DEF Basics
    <2>2. NoInstances \in [Slots -> 0 .. MaxIndex] /\ BUFFER_SIZE \in Nat \ {0}
      BY XrtLogAssumption DEF NoInstances
    <2>3. DeviceTypes
      BY <2>2 DEF Init, DeviceTypes
    <2>4. CountedEver = {} /\ Refused = {}
      BY DEF Init, CountedEver, Refused
    <2>5. CountedOnce /\ RefusedBounded
      BY <2>4, FS_EmptySet, XrtLogAssumption DEF Init, CountedOnce, RefusedBounded
    <2> QED
      BY <2>1, <2>3, <2>5
  <1>2. TypeInv /\ [Next]_xrtVars => TypeInv'
    BY BasicsStep, DeviceTypesStep, CountedOnceStep, RefusedBoundedStep DEF Basics
  <1>3. TypeInv /\ IInv => TypeOK
    <2> SUFFICES ASSUME TypeInv, IInv
                 PROVE  TypeOK
      OBVIOUS
    <2>1. IsFiniteSet(Indexes) /\ Cardinality(Indexes) = MaxIndex /\ MaxIndex \in Nat
      BY XrtLogAssumption, FS_Interval DEF Indexes
    <2>2. ASSUME NEW S, S \subseteq Indexes
          PROVE  Cardinality(S) <= MaxIndex /\ Cardinality(S) \in Nat
      BY <2>1, <2>2, FS_Subset, FS_CardinalityType
    <2>3. Cardinality(Refused) <= BUFFER_SIZE
      BY <2>2, XrtLogAssumption DEF RefusedBounded, Refused
    <2>4. FewRefused
      BY <2>3, XrtLogAssumption DEF FewRefused, BUFFER_COUNT
    <2>5. LogTypes /\ Rounds /\ ExecutingCommitted
      BY <2>4 DEF IInv, Basics, Rounds
    <2>6. lastExecuted \in 0 .. MaxIndex
      <3>1. lastExecuted <= lastIndex
        BY <2>5, ExecutedIsGiven
      <3> QED
        BY <2>1, <2>5, <3>1 DEF LogTypes
    <2>7. appendCounts \in [Buffers -> 0 .. MaxIndex]
      <3>1. ASSUME NEW b \in Buffers
            PROVE  appendCounts[b] \in 0 .. MaxIndex
        <4>1. Cardinality(CountedEver) <= MaxIndex /\ Cardinality(CountedEver) \in Nat
          BY <2>2 DEF CountedEver
        <4>2. appendCounts[b] <= Cardinality(CountedEver) /\ appendCounts[b] \in Nat
          BY <2>5 DEF CountedOnce, LogTypes
        <4> QED
          BY <2>1, <4>1, <4>2
      <3> QED
        BY <2>5, <3>1 DEF LogTypes
    <2>8. commitCounts \in [Buffers -> 0 .. MaxIndex]
      <3>1. \A b \in Buffers : CommittedOf(b) \subseteq Indexes
        BY <2>5, OpenIndexes DEF CommittedOf
      <3>2. \A b \in Buffers : commitCounts[b] \in 0 .. MaxIndex
        BY <2>2, <2>5, <3>1 DEF Rounds, CommitsCounted, LogTypes
      <3> QED
        BY <2>5, <3>2 DEF LogTypes
    <2> QED
      BY <2>5, <2>6, <2>7, <2>8 DEF TypeOK, LogTypes, DeviceTypes, Stages
  <1>4. Spec => []IInv
    BY Invariant DEF FewClients
  <1> QED
    BY <1>1, <1>2, <1>3, <1>4, PTL DEF Spec

-----------------------------------------------------------------------------
(* Results.  With no command refused a session's next round waits for the   *)
(* answers of this one; so the device works on the round that is executed.  *)

Clean == mishaps \cap {"slow", "premature"} = {} /\ Refused = {}

Appended(r) == {i \in Round(r) : i <= lastIndex /\ Stored(i) /\ pc[i] # "count"}

AllAppended(r) == \A i \in Round(r) : i <= lastIndex /\ Stored(i) /\ pc[i] # "count"

\* The results of round r.
Values(r) == [o \in Slots |-> r * BUFFER_SIZE + o + 1]

\* The rounds EarlyApply has done, and those it has taken.
Synced == lastApplied \div BUFFER_SIZE

Taken == IF Working THEN Synced + 1 ELSE Synced

\* EarlyApply is at most the round ahead of Execute that Execute is in.
InTurn ==
    /\ lastApplied = Synced * BUFFER_SIZE
    /\ Synced \in {Turn, Turn + 1} /\ Taken \in {Turn, Turn + 1}
    /\ Synced = Turn => lastExecuted = Turn * BUFFER_SIZE

TakenIsAppended == Taken = Turn + 1 => AllAppended(Turn)

ExactCounts ==
    \A r \in {Taken, Taken + 1} : appendCounts[r % 2] = Cardinality(Appended(r))

KernelAtWork ==
    Working => /\ logBo = Values(Synced)
               /\ \A o \in Slots : o < applier.slot => resultBo[o] = Values(Synced)[o]

ResultsAreThere == Synced = Turn + 1 => resultMap = Values(Turn)

AnswersAreOwn ==
    Len(answers) = lastExecuted /\ \A k \in DOMAIN answers : answers[k] = k

Delivery ==
    /\ InTurn /\ TakenIsAppended /\ ExactCounts
    /\ KernelAtWork /\ ResultsAreThere /\ AnswersAreOwn

\* What is assumed of a state while no command is refused.
Calm == /\ Basics /\ DeviceTypes /\ Rounds
        /\ FewRefused /\ FewClients /\ Refused = {}

\* Indexes are then at most one buffer ahead of execution.
LEMMA OneBufferAhead ==
    ASSUME Calm
    PROVE  /\ lastIndex \in Nat /\ lastIndex <= lastExecuted + BUFFER_SIZE
           /\ lastIndex < Turn * BUFFER_SIZE + 2 * BUFFER_SIZE
  <1>1. /\ lastIndex \in Nat /\ lastExecuted \in Nat /\ BUFFER_SIZE \in Nat
        /\ MaxIndex \in Nat /\ lastIndex <= MaxIndex
        /\ Clients \in Nat /\ Clients <= BUFFER_SIZE
    BY XrtLogAssumption DEF Calm, Basics, LogTypes, FewClients
  <1>2. Turn * BUFFER_SIZE \in Nat /\ lastExecuted < Turn * BUFFER_SIZE + BUFFER_SIZE
    BY TurnFacts DEF Calm, Basics
  <1> DEFINE S == (lastExecuted + 1) .. lastIndex
  <1>3. S \subseteq Unanswered
    BY <1>1, NotExecutedIsOutstanding DEF Indexes, Calm
  <1>4. /\ IsFiniteSet(Unanswered) /\ Cardinality(Unanswered) <= Clients
        /\ Cardinality(Unanswered) \in Nat
    BY FS_CardinalityType DEF Calm, Basics, FewUnanswered
  <1>5. Cardinality(S) <= Cardinality(Unanswered)
    BY <1>3, <1>4, FS_Subset
  <1>6. lastIndex <= lastExecuted + BUFFER_SIZE
    <2>1. CASE lastExecuted < lastIndex
      <3>1. Cardinality(S) = lastIndex - lastExecuted
        BY <1>1, <2>1, FS_Interval
      <3> QED
        BY <1>1, <1>4, <1>5, <3>1
    <2> QED
      BY <1>1, <2>1
  <1> QED
    BY <1>1, <1>2, <1>6

\* No round is full after the one Execute is in.
LEMMA NoneFullAhead ==
    ASSUME Calm, NEW r \in Nat, AllAppended(r)
    PROVE  r <= Turn
  <1>1. /\ Turn \in Nat /\ BUFFER_SIZE \in Nat \ {0} /\ Turn * BUFFER_SIZE \in Nat
        /\ r * BUFFER_SIZE \in Nat
    BY TurnFacts DEF Calm, Basics
  <1>2. r * BUFFER_SIZE + BUFFER_SIZE <= lastIndex
    BY <1>1 DEF AllAppended, Round
  <1>3. Turn < r => Turn * BUFFER_SIZE + BUFFER_SIZE <= r * BUFFER_SIZE
    BY <1>1, RoundsAdvance
  <1> QED
    BY <1>1, <1>2, <1>3, OneBufferAhead

\* An index given out and not committed is in that round or the next.
LEMMA LiveRound ==
    ASSUME Calm, NEW i \in Indexes, pc[i] # "none", pc[i] \notin Committed
    PROVE  /\ i \in Round(Turn) \cup Round(Turn + 1) /\ i <= lastIndex /\ i > lastExecuted
           /\ BufferOf(i) = Turn % 2 => i \in Round(Turn)
           /\ BufferOf(i) = (Turn + 1) % 2 => i \in Round(Turn + 1)
  <1>1. /\ Turn \in Nat /\ BUFFER_SIZE \in Nat \ {0} /\ Turn * BUFFER_SIZE \in Nat
        /\ (Turn + 1) * BUFFER_SIZE = Turn * BUFFER_SIZE + BUFFER_SIZE
        /\ Turn * BUFFER_SIZE <= lastExecuted /\ lastExecuted \in Nat
    BY TurnFacts DEF Calm, Basics, LogTypes
  <1>2. i \in Nat \ {0} /\ BufferOf(i) \in Buffers
    BY IndexHasSlot
  <1>3. i <= lastIndex /\ i \in Open(BufferOf(i))
    BY UncommittedIsOpen DEF Calm
  <1>4. i > lastExecuted
    <2> DEFINE b == BufferOf(i)
    <2>1. /\ Base(b) \in Nat /\ lastExecuted <= Base(b) /\ OpenRound(b) \in Nat
          /\ Base(b) = OpenRound(b) * BUFFER_SIZE
      BY <1>2, OpenFacts DEF Calm, Basics, Rounds, Base
    <2>2. i \in Round(OpenRound(b))
      BY <1>3 DEF Open
    <2> HIDE DEF b
    <2> QED
      BY <1>1, <1>2, <2>1, <2>2 DEF Round
  <1>5. i \in Round(Turn) \cup Round(Turn + 1)
    BY <1>1, <1>2, <1>3, <1>4, OneBufferAhead DEF Round
  <1>6. /\ i \in Round(Turn) => BufferOf(i) = Turn % 2
        /\ i \in Round(Turn + 1) => BufferOf(i) = (Turn + 1) % 2
    BY <1>1, InRound
  <1>7. Turn % 2 # (Turn + 1) % 2
    BY <1>1
  <1> QED
    BY <1>3, <1>4, <1>5, <1>6, <1>7

\* So a buffer is flushed for that round.
LEMMA FlushedInTurn ==
    ASSUME Calm, NEW i \in Indexes, pc[i] = "flush"
    PROVE  i \in Round(Turn)
  <1>1. /\ Turn \in Nat /\ BUFFER_SIZE \in Nat \ {0} /\ Turn * BUFFER_SIZE \in Nat
        /\ (Turn + 1) * BUFFER_SIZE = Turn * BUFFER_SIZE + BUFFER_SIZE
    BY TurnFacts DEF Calm, Basics
  <1>2. i \in Round(Turn) \cup Round(Turn + 1)
    BY LiveRound DEF Committed
  <1>3. i \in Open(BufferOf(i)) /\ Full(BufferOf(i)) /\ i \in Nat
    BY UncommittedIsOpen, IndexHasSlot DEF Calm, Committed, Rounds, FlushedIsFull
  <1>4. /\ OpenRound(BufferOf(i)) \in Nat
        /\ Base(BufferOf(i)) = OpenRound(BufferOf(i)) * BUFFER_SIZE /\ Base(BufferOf(i)) \in Nat
    BY IndexHasSlot, OpenFacts DEF Calm, Basics, Rounds, Base
  <1>5. CASE i \in Round(Turn + 1)
    <2>1. OffsetOf(i) = i - 1 - (Turn + 1) * BUFFER_SIZE
      BY <1>1, <1>5, InRound
    <2>2. OffsetOf(i) = i - 1 - Base(BufferOf(i))
      BY <1>3, <1>4, InRound DEF Open
    <2>3. Base(BufferOf(i)) = Turn * BUFFER_SIZE + BUFFER_SIZE
      BY <1>1, <1>3, <1>4, <2>1, <2>2
    <2>4. Base(BufferOf(i)) + BUFFER_SIZE \in Open(BufferOf(i))
      BY <1>1, <1>4 DEF Open, Round
    <2>5. Base(BufferOf(i)) + BUFFER_SIZE <= lastIndex
      BY <1>3, <2>4 DEF Full
    <2> QED
      BY <1>1, <2>3, <2>5, OneBufferAhead
  <1> QED
    BY <1>2, <1>5

\* What is appended stays appended, in that round and later ones.
LEMMA AppendedStays ==
    ASSUME Calm, [Next]_xrtVars, NEW r \in Nat, Turn <= r, NEW m \in Round(r),
           m <= lastIndex, Stored(m), pc[m] # "count"
    PROVE  m <= lastIndex' /\ Stored(m)' /\ pc'[m] # "count"
  <1>1. LogTypes /\ GivenHaveThreads /\ NotStoredYet /\ BUFFER_SIZE \in Nat \ {0}
    BY XrtLogAssumption DEF Calm, Basics
  <1>2. /\ Turn \in Nat /\ Turn * BUFFER_SIZE \in Nat
        /\ (Turn + 2) * BUFFER_SIZE = Turn * BUFFER_SIZE + 2 * BUFFER_SIZE
    BY <1>1, TurnFacts
  <1>3. m \in Nat \ {0} /\ BufferOf(m) = r % 2 /\ BufferOf(m) \in Buffers /\ OffsetOf(m) \in Slots
    BY InRound
  <1>4. m \in Indexes
    BY <1>1, <1>3, XrtLogAssumption DEF LogTypes, Indexes
  <1>5. m <= lastIndex' /\ Moved(pc[m], pc'[m])
    BY <1>1, <1>3, <1>4, IndexesAreKept, ThreadsMove
  <1>6. pc[m] # "append"
    BY <1>1, <1>4 DEF NotStoredYet
  <1>7. r \in {Turn, Turn + 1}
    <2>1. r * BUFFER_SIZE \in Nat /\ r * BUFFER_SIZE < m
      BY <1>1, <1>3 DEF Round
    <2>2. Turn + 2 < r => (Turn + 2) * BUFFER_SIZE + BUFFER_SIZE <= r * BUFFER_SIZE
      BY <1>2, RoundsAdvance
    <2>3. ~ (Turn + 2 <= r)
      BY <1>1, <1>2, <1>3, <2>1, <2>2, OneBufferAhead
    <2> QED
      BY <1>2, <2>3
  <1>8. Stored(m)'
    <2>1. CASE UNCHANGED proposals
      BY <2>1 DEF Stored
    <2>2. ASSUME NEW i \in Indexes, AppendStore(i)
          PROVE  Stored(m)'
      <3>1. pc[i] = "append" /\ proposals' = [proposals EXCEPT ![BufferOf(i)][OffsetOf(i)] = i]
        BY <2>2 DEF AppendStore
      <3>2. BufferOf(i) = r % 2 => i \in Round(r)
        BY <1>7, <3>1, LiveRound DEF Committed
      <3>3. BufferOf(i) = BufferOf(m) /\ OffsetOf(i) = OffsetOf(m) => i = m
        BY <1>3, <3>2, RoundSize
      <3> DEFINE b == BufferOf(m)
                 o == OffsetOf(m)
      <3>4. b \in Buffers /\ o \in Slots /\ BufferOf(i) \in Buffers /\ OffsetOf(i) \in Slots
        BY <1>3, IndexHasSlot
      <3>5. proposals[b][o] = m /\ (BufferOf(i) = b /\ OffsetOf(i) = o => i = m)
        BY <3>3 DEF Stored
      <3> HIDE DEF b, o
      <3>6. proposals'[b][o] = m
        BY <1>1, <3>1, <3>4, <3>5 DEF LogTypes
      <3> QED
        BY <3>6 DEF Stored, b, o
    <2> QED
      BY <1>1, <2>1, <2>2, WhatChanges
  <1> QED
    BY <1>5, <1>6, <1>8 DEF Moved

\* All of a round is appended exactly if as many are as a buffer has slots.
LEMMA AppendedIsFinite ==
    ASSUME NEW r \in Nat
    PROVE  /\ IsFiniteSet(Appended(r)) /\ Cardinality(Appended(r)) \in 0 .. BUFFER_SIZE
           /\ Cardinality(Appended(r)) = BUFFER_SIZE <=> AllAppended(r)
  <1>1. IsFiniteSet(Round(r)) /\ Cardinality(Round(r)) = BUFFER_SIZE
    BY RoundSize
  <1>2. Appended(r) \subseteq Round(r)
    BY DEF Appended
  <1>3. /\ IsFiniteSet(Appended(r)) /\ Cardinality(Appended(r)) <= BUFFER_SIZE
        /\ Cardinality(Appended(r)) = BUFFER_SIZE => Appended(r) = Round(r)
    BY <1>1, <1>2, FS_Subset
  <1>4. Cardinality(Appended(r)) \in Nat
    BY <1>3, FS_CardinalityType
  <1>5. AllAppended(r) <=> Appended(r) = Round(r)
    BY DEF Appended, AllAppended
  <1> QED
    BY <1>1, <1>3, <1>4, <1>5, XrtLogAssumption

\* The counters count two rounds: the first not taken and the one after it.
LEMMA ExactCountStep ==
    ASSUME Calm, [Next]_xrtVars, ExactCounts, TakenIsAppended, Taken \in {Turn, Turn + 1},
           NEW r \in {Taken, Taken + 1},
           ApplierTest => appendCounts'[r % 2] = appendCounts[r % 2]
    PROVE  appendCounts'[r % 2] = Cardinality(Appended(r)')
  <1>1. LogTypes /\ GivenHaveThreads /\ BUFFER_SIZE \in Nat \ {0}
    BY XrtLogAssumption DEF Calm, Basics
  <1>2. Turn \in Nat /\ r \in Nat /\ Turn <= r /\ r % 2 \in Buffers
    BY <1>1, TurnFacts DEF Buffers, BUFFER_COUNT
  <1>3. \A m \in Round(r) : m \in Nat \ {0} /\ BufferOf(m) = r % 2
    BY <1>2, InRound
  <1>4. ASSUME NEW m \in Appended(r)
        PROVE  m \in Appended(r)'
    BY <1>2, <1>4, AppendedStays DEF Appended
  <1>5. ASSUME NEW m \in Appended(r)', m \notin Appended(r)
        PROVE  AppendCount(m) /\ m \in Indexes /\ BufferOf(m) = r % 2
    <2>1. m \in Round(r) /\ m \in Nat \ {0} /\ BufferOf(m) = r % 2
      BY <1>3, <1>5 DEF Appended
    <2> QED
      BY <1>5, <2>1, CountedByAppendCount DEF Appended, Calm
  <1>6. appendCounts[r % 2] = Cardinality(Appended(r))
    BY DEF ExactCounts
  <1>7. CASE \E i \in Indexes : AppendCount(i) /\ BufferOf(i) = r % 2
    <2>1. PICK i \in Indexes : AppendCount(i) /\ BufferOf(i) = r % 2
      BY <1>7
    <2>2. /\ pc[i] = "count" /\ pc' = [pc EXCEPT ![i] = "test"]
          /\ lastIndex' = lastIndex /\ proposals' = proposals
          /\ appendCounts'[r % 2] = appendCounts[r % 2] + 1
      BY <1>1, <1>2, <2>1 DEF AppendCount, Goto, LogTypes
    <2>3. /\ i <= lastIndex /\ i \in Round(Turn) \cup Round(Turn + 1)
          /\ BufferOf(i) = Turn % 2 => i \in Round(Turn)
          /\ BufferOf(i) = (Turn + 1) % 2 => i \in Round(Turn + 1)
      BY <2>2, LiveRound DEF Committed
    <2>4. i \in Round(r)
      <3>1. CASE Taken = Turn
        BY <1>2, <2>1, <2>3, <3>1
      <3>2. CASE Taken = Turn + 1
        <4>1. i \notin Round(Turn)
          BY <2>2, <3>2 DEF TakenIsAppended, AllAppended
        <4>2. BufferOf(i) = (Turn + 1) % 2 /\ i \in Round(Turn + 1)
          BY <1>2, <2>3, <4>1, InRound
        <4>3. (Turn + 1) % 2 # (Turn + 2) % 2
          BY <1>2
        <4>4. r = Turn + 1
          BY <1>2, <2>1, <3>2, <4>2, <4>3
        <4> QED
          BY <4>2, <4>4
      <3> QED
        BY <3>1, <3>2
    <2>5. Stored(i)
      BY <2>1, <2>2, UncommittedIsOpen, IndexHasSlot DEF Calm, Rounds, StoredWhenAppended, Committed
    <2>6. i \in Appended(r)' /\ i \notin Appended(r)
      BY <1>1, <2>2, <2>3, <2>4, <2>5 DEF Appended, Stored, LogTypes
    <2>7. ASSUME NEW m \in Appended(r)', m # i
          PROVE  m \in Appended(r)
      <3>1. m \in Round(r) /\ m <= lastIndex /\ Stored(m) /\ pc'[m] # "count" /\ m \in Indexes
        BY <1>1, <1>3, <2>2, <2>7, XrtLogAssumption DEF Appended, Stored, LogTypes, Indexes
      <3> QED
        BY <1>1, <2>2, <2>7, <3>1 DEF Appended, LogTypes
    <2>8. Appended(r)' = Appended(r) \cup {i}
      BY <1>4, <2>6, <2>7
    <2>9. Cardinality(Appended(r)') = Cardinality(Appended(r)) + 1
      BY <1>2, <2>6, <2>8, AppendedIsFinite, FS_AddElement
    <2> QED
      BY <1>6, <2>2, <2>9
  <1>8. CASE ~ \E i \in Indexes : AppendCount(i) /\ BufferOf(i) = r % 2
    <2>1. Appended(r)' = Appended(r)
      BY <1>4, <1>5, <1>8
    <2>2. ASSUME NEW i \in Indexes, AppendCount(i)
          PROVE  appendCounts'[r % 2] = appendCounts[r % 2]
      <3>1. BufferOf(i) # r % 2 /\ appendCounts' = [appendCounts EXCEPT ![BufferOf(i)] = @ + 1]
        BY <1>8, <2>2 DEF AppendCount
      <3> QED
        BY <1>1, <1>2, <3>1 DEF LogTypes
    <2>3. appendCounts'[r % 2] = appendCounts[r % 2]
      BY <1>1, <2>2, WhatChanges
    <2> QED
      BY <1>6, <2>1, <2>3
  <1> QED
    BY <1>7, <1>8

\* A round that is all appended is what its buffer holds.
LEMMA AppendedValues ==
    ASSUME LogTypes, NEW r \in Nat, AllAppended(r)
    PROVE  proposals[r % 2] = Values(r)
  <1>1. BUFFER_SIZE \in Nat \ {0} /\ r * BUFFER_SIZE \in Nat /\ r % 2 \in Buffers
    BY XrtLogAssumption DEF Buffers, BUFFER_COUNT
  <1>2. ASSUME NEW o \in Slots
        PROVE  proposals[r % 2][o] = r * BUFFER_SIZE + o + 1
    <2> DEFINE i == r * BUFFER_SIZE + o + 1
    <2>1. i \in Round(r) /\ o \in Int
      BY <1>1 DEF Slots, Round
    <2>2. BufferOf(i) = r % 2 /\ OffsetOf(i) = i - 1 - r * BUFFER_SIZE
      BY <2>1, InRound
    <2>3. OffsetOf(i) = o
      BY <1>1, <2>1, <2>2
    <2> QED
      BY <2>1, <2>2, <2>3 DEF AllAppended, Stored
  <1>3. proposals[r % 2] \in [Slots -> 0 .. MaxIndex]
    BY <1>1 DEF LogTypes
  <1> QED
    BY <1>2, <1>3 DEF Values

\* An accident of timing, and a refusal, stay on record.
LEMMA CleanBefore ==
    ASSUME LogTypes, GivenHaveThreads, DeviceTypes, [Next]_xrtVars, Clean'
    PROVE  Clean
  <1>1. mishaps \subseteq mishaps'
    <2>1. CASE ApplierTest
      BY <2>1, ApplierTestOnDevice
    <2>2. CASE ApplierRun \/ ApplierSync
      BY <2>2 DEF ApplierRun, ApplierSync, executorVars
    <2>3. CASE Execute
      BY <2>3, ExecuteOnDevice
    <2>4. CASE ~ EarlyApply /\ ~ Execute
      BY <2>4, SessionsLeaveDevice
    <2> QED
      BY <2>1, <2>2, <2>3, <2>4 DEF EarlyApply
  <1>2. Refused \subseteq Refused'
    BY ThreadsMove DEF Refused, Moved
  <1> QED
    BY <1>1, <1>2 DEF Clean

\* Steps of neither EarlyApply nor Execute.
LEMMA DeliveryQuiet ==
    ASSUME Calm, Delivery, [Next]_xrtVars, ~ EarlyApply, ~ Execute
    PROVE  Delivery'
  <1>1. /\ UNCHANGED <<resultBo, resultMap, lastApplied, answers, lastExecuted>>
        /\ UNCHANGED <<logBo, applier>> \/ \E i \in Indexes : Flush(i)
    BY SessionsLeaveDevice
  <1>2. /\ LogTypes /\ GivenHaveThreads /\ DeviceTypes /\ Turn \in Nat
        /\ InTurn /\ TakenIsAppended /\ ExactCounts /\ Taken \in {Turn, Turn + 1}
    BY TurnFacts DEF Calm, Basics, Delivery, InTurn
  <1>3. Turn' = Turn /\ Synced' = Synced
    BY <1>1 DEF Turn, Synced
  <1>4. (Working' <=> Working) /\ (Working => applier' = applier)
    BY <1>1, <1>2, FlushToDevice DEF Working
  <1>5. Taken' = Taken
    BY <1>3, <1>4 DEF Taken
  <1>6. InTurn'
    BY <1>1, <1>2, <1>3, <1>5 DEF InTurn
  <1>7. TakenIsAppended'
    BY <1>2, <1>3, <1>5, AppendedStays DEF TakenIsAppended, AllAppended
  <1>8. ExactCounts'
    BY <1>2, <1>5, ExactCountStep DEF ExactCounts, EarlyApply
  <1>9. KernelAtWork'
    <2> SUFFICES ASSUME Working
                 PROVE  /\ logBo' = Values(Synced)
                        /\ \A o \in Slots : o < applier.slot => resultBo[o] = Values(Synced)[o]
      BY <1>1, <1>3, <1>4 DEF KernelAtWork, Values
    <2>1. logBo = Values(Synced) /\ \A o \in Slots : o < applier.slot => resultBo[o] = Values(Synced)[o]
      BY DEF Delivery, KernelAtWork
    <2>2. ASSUME NEW i \in Indexes, Flush(i)
          PROVE  logBo' = Values(Synced)
      <3>1. Taken = Turn + 1 /\ Synced = Turn
        BY <1>2 DEF InTurn, Taken
      <3>2. i \in Round(Turn)
        BY <2>2, FlushedInTurn DEF Flush
      <3>3. BufferOf(i) = Turn % 2
        BY <1>2, <3>2, InRound
      <3>4. logBo' = proposals[Turn % 2]
        BY <1>2, <2>2, <3>3, FlushToDevice
      <3> QED
        BY <1>2, <3>1, <3>4, AppendedValues DEF TakenIsAppended
    <2> QED
      BY <1>1, <2>1, <2>2
  <1>10. ResultsAreThere'
    BY <1>1, <1>3 DEF Delivery, ResultsAreThere, Values
  <1>11. AnswersAreOwn'
    BY <1>1 DEF Delivery, AnswersAreOwn
  <1> QED
    BY <1>6, <1>7, <1>8, <1>9, <1>10, <1>11 DEF Delivery

\* EarlyApply takes the round that Execute is in, if it takes any.
LEMMA DeliveryTest ==
    ASSUME Calm, Delivery, [Next]_xrtVars, ApplierTest, Clean'
    PROVE  Delivery'
  <1>1. /\ UNCHANGED <<logBo, resultBo, resultMap, lastApplied, answers, lastExecuted>>
        /\ applier.pc = "outer"
        /\ UNCHANGED <<lastIndex, pc, proposals>>
    BY ApplierTestOnDevice, ApplierTestDoes DEF Calm, Basics
  <1>2. /\ LogTypes /\ GivenHaveThreads /\ DeviceTypes /\ Turn \in Nat
        /\ InTurn /\ TakenIsAppended /\ ExactCounts /\ Taken \in {Turn, Turn + 1}
        /\ BUFFER_SIZE \in Nat \ {0}
    BY TurnFacts DEF Calm, Basics, Delivery, InTurn
  <1>3. Turn' = Turn /\ Synced' = Synced /\ ~ Working /\ Taken = Synced
    BY <1>1 DEF Turn, Synced, Working, Taken
  <1>4. ResultsAreThere' /\ AnswersAreOwn'
    BY <1>1, <1>3 DEF Delivery, ResultsAreThere, AnswersAreOwn, Values
  <1>5. CASE UNCHANGED appendCounts /\ applier' = [pc |-> "asleep", slot |-> applier.slot]
    <2>1. ~ Working' /\ Taken' = Taken
      BY <1>3, <1>5 DEF Working, Taken
    <2>2. InTurn' /\ KernelAtWork'
      BY <1>1, <1>2, <1>3, <2>1 DEF InTurn, KernelAtWork
    <2>3. TakenIsAppended'
      BY <1>2, <1>3, <2>1, AppendedStays DEF TakenIsAppended, AllAppended
    <2>4. ExactCounts'
      BY <1>2, <1>5, <2>1, ExactCountStep DEF ExactCounts
    <2> QED
      BY <1>4, <2>2, <2>3, <2>4 DEF Delivery
  <1>6. CASE /\ appendCounts[current] = BUFFER_SIZE
             /\ appendCounts' = [appendCounts EXCEPT ![current] = 0]
             /\ applier' = [pc |-> "run", slot |-> 0]
             /\ mishaps' = mishaps \cup IF logBo = proposals[current] THEN {} ELSE {"premature"}
    <2>1. PICK r \in {Taken, Taken + 1} : current = r % 2
      <3>1. current \in {0, 1}
        BY <1>2 DEF LogTypes, Buffers, BUFFER_COUNT
      <3> QED
        BY <1>2, <3>1
    <2>2. r \in Nat /\ AllAppended(r)
      <3>1. r \in Nat /\ Cardinality(Appended(r)) = BUFFER_SIZE
        BY <1>2, <1>6, <2>1 DEF ExactCounts
      <3> QED
        BY <3>1, AppendedIsFinite
    <2>3. r = Turn /\ Taken = Turn
      BY <1>2, <2>1, <2>2, NoneFullAhead
    <2>4. Working' /\ Taken' = Turn + 1
      BY <1>3, <1>6, <2>3 DEF Working, Taken
    <2>5. InTurn'
      BY <1>1, <1>2, <1>3, <2>4 DEF InTurn
    <2>6. TakenIsAppended'
      BY <1>1, <1>3, <2>2, <2>3 DEF TakenIsAppended, AllAppended, Stored
    <2>7. KernelAtWork'
      <3>1. logBo = proposals[current]
        BY <1>6 DEF Clean
      <3>2. logBo' = Values(Turn)
        BY <1>1, <1>2, <2>1, <2>2, <2>3, <3>1, AppendedValues
      <3>3. \A o \in Slots : ~ (o < applier'.slot)
        BY <1>2, <1>6 DEF Slots
      <3> QED
        BY <1>3, <2>3, <3>2, <3>3 DEF KernelAtWork, Values
    <2>8. ExactCounts'
      <3>1. current = r % 2 /\ current \in Buffers /\ Buffers = {0, 1}
        BY <1>2, <2>1 DEF LogTypes, Buffers, BUFFER_COUNT
      <3>2. (r + 1) % 2 # current /\ (r + 2) % 2 = current
        BY <2>2, <3>1
      <3>3. appendCounts'[(r + 1) % 2] = Cardinality(Appended(r + 1)')
        <4>1. appendCounts'[(r + 1) % 2] = appendCounts[(r + 1) % 2]
          BY <1>6, <3>1, <3>2
        <4>2. r + 1 \in {Taken, Taken + 1}
          BY <2>3
        <4> QED
          BY <1>2, <4>1, <4>2, ExactCountStep
      <3>4. appendCounts'[(r + 2) % 2] = 0
        BY <1>2, <1>6, <3>1, <3>2 DEF LogTypes
      <3>5. Appended(r + 2)' = {}
        <4>1. ASSUME NEW m \in Round(r + 2), m <= lastIndex
              PROVE  FALSE
          <5>1. /\ Turn * BUFFER_SIZE \in Nat
                /\ (r + 2) * BUFFER_SIZE = Turn * BUFFER_SIZE + 2 * BUFFER_SIZE
            BY <1>2, <2>3, TurnFacts
          <5>2. m > Turn * BUFFER_SIZE + 2 * BUFFER_SIZE /\ m \in Nat
            BY <1>2, <5>1 DEF Round
          <5> QED
            BY <1>2, <4>1, <5>1, <5>2, OneBufferAhead
        <4>2. lastIndex' = lastIndex
          BY <1>1
        <4> QED
          BY <4>1, <4>2 DEF Appended
      <3>6. appendCounts'[(r + 2) % 2] = Cardinality(Appended(r + 2)')
        BY <3>4, <3>5, FS_EmptySet
      <3>7. Taken' = r + 1 /\ Taken' + 1 = r + 2
        BY <1>2, <2>3, <2>4
      <3>8. ASSUME NEW k \in {Taken', Taken' + 1}
            PROVE  appendCounts'[k % 2] = Cardinality(Appended(k)')
        <4>1. k = r + 1 \/ k = r + 2
          BY <3>7
        <4> QED
          BY <3>3, <3>6, <4>1
      <3> QED
        BY <3>8 DEF ExactCounts
    <2> QED
      BY <1>4, <2>5, <2>6, <2>7, <2>8 DEF Delivery
  <1> QED
    BY <1>2, <1>5, <1>6, ApplierTestOnDevice

\* The kernel works on.
LEMMA DeliveryRun ==
    ASSUME Calm, Delivery, [Next]_xrtVars, ApplierRun
    PROVE  Delivery'
  <1>1. /\ UNCHANGED <<lastIndex, pc, proposals, appendCounts, logBo, resultMap>>
        /\ UNCHANGED <<lastApplied, answers, lastExecuted>>
        /\ resultBo' = [resultBo EXCEPT ![applier.slot] = logBo[applier.slot]]
        /\ applier' = [pc |-> IF applier.slot = BUFFER_SIZE - 1 THEN "sync" ELSE "run",
                       slot |-> applier.slot + 1]
        /\ applier.pc = "run"
    BY DEF ApplierRun, bufferVars, executorVars
  <1>2. /\ LogTypes /\ DeviceTypes /\ InTurn /\ TakenIsAppended /\ ExactCounts
        /\ KernelAtWork /\ ResultsAreThere /\ AnswersAreOwn
    BY DEF Calm, Basics, Delivery
  <1>3. Working /\ Working' /\ applier'.slot = applier.slot + 1
    BY <1>1 DEF Working
  <1>4. Turn' = Turn /\ Synced' = Synced /\ Taken' = Taken
    BY <1>1, <1>3 DEF Turn, Synced, Taken
  <1>5. InTurn' /\ TakenIsAppended' /\ ExactCounts'
    BY <1>1, <1>2, <1>4 DEF InTurn, TakenIsAppended, AllAppended, ExactCounts, Appended, Stored
  <1>6. ResultsAreThere' /\ AnswersAreOwn'
    BY <1>1, <1>2, <1>4 DEF ResultsAreThere, AnswersAreOwn, Values
  <1>7. KernelAtWork'
    <2>1. logBo = Values(Synced) /\ \A o \in Slots : o < applier.slot => resultBo[o] = Values(Synced)[o]
      BY <1>2, <1>3 DEF KernelAtWork
    <2>2. applier.slot \in Nat
      BY <1>2 DEF DeviceTypes
    <2>3. ASSUME NEW o \in Slots, o < applier.slot + 1
          PROVE  resultBo'[o] = Values(Synced)[o]
      <3>1. resultBo'[o] = IF o = applier.slot THEN logBo[o] ELSE resultBo[o]
        BY <1>1, <1>2 DEF DeviceTypes
      <3>2. o = applier.slot \/ o < applier.slot
        BY <2>2, <2>3, XrtLogAssumption DEF Slots
      <3> QED
        BY <2>1, <3>1, <3>2
    <2> QED
      BY <1>1, <1>3, <1>4, <2>1, <2>3 DEF KernelAtWork, Values
  <1> QED
    BY <1>5, <1>6, <1>7 DEF Delivery

\* The results of the round are there.
LEMMA DeliverySync ==
    ASSUME Calm, Delivery, [Next]_xrtVars, ApplierSync
    PROVE  Delivery'
  <1>1. /\ UNCHANGED <<lastIndex, pc, proposals, appendCounts, logBo, resultBo>>
        /\ UNCHANGED <<answers, lastExecuted>>
        /\ resultMap' = resultBo /\ lastApplied' = lastApplied + BUFFER_SIZE
        /\ applier' = [pc |-> "outer", slot |-> 0] /\ applier.pc = "sync"
    BY DEF ApplierSync, bufferVars, executorVars
  <1>2. /\ LogTypes /\ DeviceTypes /\ InTurn /\ TakenIsAppended /\ ExactCounts
        /\ KernelAtWork /\ ResultsAreThere /\ AnswersAreOwn
        /\ Turn \in Nat /\ BUFFER_SIZE \in Nat \ {0} /\ Turn * BUFFER_SIZE \in Nat
        /\ (Turn + 1) * BUFFER_SIZE = Turn * BUFFER_SIZE + BUFFER_SIZE
    BY TurnFacts DEF Calm, Basics, Delivery
  <1>3. Working /\ ~ Working'
    BY <1>1 DEF Working
  <1>4. Synced = Turn /\ Taken = Turn + 1
    BY <1>2, <1>3 DEF InTurn, Taken
  <1>5. lastApplied' = (Turn + 1) * BUFFER_SIZE
    BY <1>1, <1>2, <1>4 DEF InTurn
  <1>6. Synced' = Turn + 1
    <2>1. lastApplied' \in Nat /\ Turn + 1 \in Nat
      BY <1>2, <1>5
    <2>2. lastApplied' \div BUFFER_SIZE = Turn + 1
      BY <1>2, <1>5, <2>1, TurnOf
    <2> QED
      BY <2>2 DEF Synced
  <1>7. Turn' = Turn /\ Taken' = Turn + 1
    BY <1>1, <1>3, <1>6 DEF Turn, Taken
  <1>8. InTurn'
    BY <1>2, <1>5, <1>6, <1>7 DEF InTurn
  <1>9. TakenIsAppended' /\ ExactCounts'
    BY <1>1, <1>2, <1>4, <1>7 DEF TakenIsAppended, AllAppended, ExactCounts, Appended, Stored
  <1>10. KernelAtWork' /\ AnswersAreOwn'
    BY <1>1, <1>2, <1>3 DEF KernelAtWork, AnswersAreOwn
  <1>11. resultMap' = Values(Turn)
    <2>1. applier.slot = BUFFER_SIZE
      BY <1>1, <1>2 DEF DeviceTypes
    <2>2. \A o \in Slots : resultBo[o] = Values(Turn)[o]
      BY <1>2, <1>3, <1>4, <2>1 DEF KernelAtWork, Slots
    <2> QED
      BY <1>1, <1>2, <2>2 DEF DeviceTypes, Values
  <1>12. ResultsAreThere'
    BY <1>7, <1>11 DEF ResultsAreThere, Values
  <1> QED
    BY <1>8, <1>9, <1>10, <1>12 DEF Delivery

\* Execute finds them there.
LEMMA DeliveryExecute ==
    ASSUME Calm, Delivery, [Next]_xrtVars, Execute, Clean'
    PROVE  Delivery'
  <1>1. /\ UNCHANGED <<lastIndex, pc, proposals, appendCounts, logBo, applier>>
        /\ UNCHANGED <<resultBo, resultMap, lastApplied>>
        /\ lastExecuted < lastApplied \/ ~ (lastExecuted >= lastApplied)
        /\ lastExecuted' = lastExecuted + 1
        /\ answers' = Append(answers, resultMap[lastExecuted % BUFFER_SIZE])
    <2>1. "slow" \notin mishaps'
      BY DEF Clean
    <2>2. UNCHANGED <<lastIndex, pc, proposals, appendCounts>>
      BY ExecuteDoes DEF Calm, Basics
    <2> QED
      BY <2>1, <2>2, ExecuteOnDevice
  <1>2. /\ LogTypes /\ DeviceTypes /\ InTurn /\ ExactCounts
        /\ ResultsAreThere /\ AnswersAreOwn
        /\ Turn \in Nat /\ BUFFER_SIZE \in Nat \ {0} /\ Turn * BUFFER_SIZE \in Nat
        /\ (Turn + 1) * BUFFER_SIZE = Turn * BUFFER_SIZE + BUFFER_SIZE
        /\ lastExecuted = Turn * BUFFER_SIZE + (lastExecuted % BUFFER_SIZE)
        /\ lastExecuted \in Nat /\ lastApplied \in Nat /\ TakenIsAppended
    BY TurnFacts DEF Calm, Basics, Delivery, LogTypes, DeviceTypes
  <1>3. Synced = Turn + 1
    <2>1. Synced # Turn
      BY <1>1, <1>2 DEF InTurn
    <2> QED
      BY <1>2, <2>1 DEF InTurn
  <1>4. ~ Working /\ Taken = Turn + 1
    BY <1>2, <1>3 DEF InTurn, Taken
  <1>5. Synced' = Synced /\ Taken' = Taken /\ ~ Working'
    BY <1>1, <1>4 DEF Synced, Taken, Working
  <1>6. KernelAtWork' /\ ExactCounts'
    BY <1>1, <1>2, <1>5 DEF KernelAtWork, ExactCounts, Appended, Stored
  <1>7. AnswersAreOwn'
    <2> DEFINE o == lastExecuted % BUFFER_SIZE
    <2>1. o \in Slots
      BY <1>2, Division DEF Slots
    <2>2. resultMap[o] = Turn * BUFFER_SIZE + o + 1
      BY <1>2, <1>3, <2>1 DEF ResultsAreThere, Values
    <2>3. resultMap[o] = lastExecuted + 1
      <3>1. o \in Nat
        BY <1>2, Division
      <3>2. lastExecuted = Turn * BUFFER_SIZE + o
        BY <1>2
      <3> HIDE DEF o
      <3> QED
        BY <1>2, <2>2, <3>1, <3>2
    <2>4. answers' = Append(answers, lastExecuted + 1)
      BY <1>1, <2>3
    <2>5. answers \in Seq(0 .. MaxIndex) /\ Len(answers) = lastExecuted
      BY <1>2 DEF DeviceTypes, AnswersAreOwn
    <2>6. Len(answers') = lastExecuted' /\ DOMAIN answers' = 1 .. lastExecuted + 1
      BY <1>1, <2>4, <2>5
    <2>7. \A k \in DOMAIN answers : answers[k] = k
      BY <1>2 DEF AnswersAreOwn
    <2>8. \A k \in DOMAIN answers' : answers'[k] = k
      BY <1>2, <2>4, <2>5, <2>6, <2>7
    <2> QED
      BY <2>6, <2>8 DEF AnswersAreOwn
  <1>8. CASE Turn' = Turn
    <2>1. InTurn'
      BY <1>1, <1>2, <1>3, <1>4, <1>5, <1>8 DEF InTurn
    <2>2. TakenIsAppended' /\ ResultsAreThere'
      BY <1>1, <1>2, <1>5, <1>8 DEF TakenIsAppended, AllAppended, Stored, ResultsAreThere, Values
    <2> QED
      BY <1>6, <1>7, <2>1, <2>2 DEF Delivery
  <1>9. CASE /\ lastExecuted % BUFFER_SIZE = BUFFER_SIZE - 1
             /\ Turn' = Turn + 1
    <2>1. lastExecuted' = (Turn + 1) * BUFFER_SIZE
      BY <1>1, <1>2, <1>9
    <2>2. Synced' = Turn' /\ Taken' = Turn'
      BY <1>3, <1>4, <1>5, <1>9
    <2>3. InTurn'
      BY <1>1, <1>2, <1>3, <1>9, <2>1, <2>2 DEF InTurn
    <2>4. TakenIsAppended' /\ ResultsAreThere'
      BY <1>2, <1>9, <2>2 DEF TakenIsAppended, ResultsAreThere
    <2> QED
      BY <1>6, <1>7, <2>3, <2>4 DEF Delivery
  <1> QED
    BY <1>2, <1>8, <1>9, ExecuteTurns

\* Nothing has been delivered at first.
LEMMA DeliveryInit ==
    ASSUME Init
    PROVE  Delivery
  <1>1. /\ lastExecuted = 0 /\ lastApplied = 0 /\ lastIndex = 0 /\ answers = <<>>
        /\ applier.pc = "outer" /\ \A b \in Buffers : appendCounts[b] = 0
    BY DEF Init
  <1>2. BUFFER_SIZE \in Nat \ {0} /\ 0 * BUFFER_SIZE = 0
    BY XrtLogAssumption
  <1>3. Turn = 0 /\ Synced = 0
    BY <1>1, <1>2, TurnOf DEF Turn, Synced
  <1>4. ~ Working /\ Taken = 0
    BY <1>1, <1>3 DEF Working, Taken
  <1>5. InTurn /\ KernelAtWork /\ ResultsAreThere /\ TakenIsAppended
    BY <1>1, <1>2, <1>3, <1>4 DEF InTurn, KernelAtWork, ResultsAreThere, TakenIsAppended
  <1>6. ASSUME NEW r \in {0, 1}
        PROVE  appendCounts[r % 2] = Cardinality(Appended(r))
    <2>1. Appended(r) = {}
      BY <1>1, InRound DEF Appended
    <2>2. r % 2 \in Buffers
      BY DEF Buffers, BUFFER_COUNT
    <2> QED
      BY <1>1, <2>1, <2>2, FS_EmptySet
  <1>7. ExactCounts
    BY <1>4, <1>6 DEF ExactCounts
  <1>8. AnswersAreOwn
    BY <1>1 DEF AnswersAreOwn
  <1> QED
    BY <1>5, <1>7, <1>8 DEF Delivery

\* While neither accident of timing has happened and no command was refused, every
\* command is answered with its own result.
THEOREM EachItsOwnResult ==
    ASSUME Clients <= BUFFER_SIZE
    PROVE  Spec => []OwnResults
  <1> DEFINE DInv == IInv /\ DeviceTypes /\ (Clean => Delivery)
  <1>1. Init => DInv
    <2> SUFFICES ASSUME Init
                 PROVE  DInv
      OBVIOUS
    <2>1. NoInstances \in [Slots -> 0 .. MaxIndex] /\ BUFFER_SIZE \in Nat \ {0}
      BY XrtLogAssumption DEF NoInstances
    <2>2. DeviceTypes
      BY <2>1 DEF Init, DeviceTypes
    <2> QED
      BY <2>2, IInvInit, DeliveryInit
  <1>2. DInv /\ [Next]_xrtVars => DInv'
    <2> SUFFICES ASSUME DInv, [Next]_xrtVars
                 PROVE  DInv'
      OBVIOUS
    <2>1. IInv' /\ DeviceTypes' /\ FewClients /\ LogTypes /\ GivenHaveThreads
      BY IInvStep, DeviceTypesStep DEF FewClients, IInv, Basics
    <2>2. ASSUME Clean'
          PROVE  Delivery'
      <3>1. Clean /\ Delivery
        BY <2>1, <2>2, CleanBefore
      <3>2. Refused = {} /\ Cardinality(Refused) = 0
        BY <3>1, FS_EmptySet DEF Clean
      <3>3. FewRefused
        BY <3>2, XrtLogAssumption DEF FewRefused, BUFFER_COUNT
      <3>4. Calm
        BY <2>1, <3>2, <3>3 DEF Calm, IInv
      <3> QED
        BY <2>2, <3>1, <3>4, DeliveryQuiet, DeliveryTest, DeliveryRun, DeliverySync,
           DeliveryExecute DEF EarlyApply
    <2> QED
      BY <2>1, <2>2
  <1>3. DInv => OwnResults
    BY DEF OwnResults, Clean, Delivery, AnswersAreOwn
  <1> QED
    BY <1>1, <1>2, <1>3, PTL DEF Spec

=============================================================================
