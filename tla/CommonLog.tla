----------------------------- MODULE CommonLog -----------------------------
(***************************************************************************)
(* The in-memory log of one partition (kv-store-host/src/common_log.{h,cc})*)
(* as operators on its state.  Each is one critical section under mu_; the *)
(* modules that own a log decide when it runs.                             *)
(*                                                                         *)
(* An instance is [ballot, index, cmd, state], cmd standing for the        *)
(* client id and the command.                                              *)
(***************************************************************************)
EXTENDS Integers

\* global_last_executed_: TrimUntil, which would advance it, is disabled.
GlobalLastExecuted == 0

NewLog == [entries |-> [i \in {} |-> 0], lastIndex |-> 0, lastExecuted |-> 0]

Larger(a, b) == IF a >= b THEN a ELSE b

\* Slip: the index given out is not remembered.
ForgetIndex(lg) == lg

AdvanceLastIndex(lg) == [lg EXCEPT !.lastIndex = @ + 1]

\* Slip: the larger of the two is not taken.
SetLastIndexTo(lg, i) == [lg EXCEPT !.lastIndex = i]

SetLastIndex(lg, i) == [lg EXCEPT !.lastIndex = Larger(@, i)]

Put(entries, inst) ==
    [i \in DOMAIN entries \cup {inst.index} |->
        IF i = inst.index THEN inst ELSE entries[i]]

\* A higher ballot replaces whatever is there, committed and executed
\* instances included; at the same or a lower ballot the old one stays.
Insert(entries, inst) ==
    IF inst.index \notin DOMAIN entries \/ inst.ballot > entries[inst.index].ballot
    THEN Put(entries, inst)
    ELSE entries

\* Slip: an index given out is taken for one that is in the log.
AppendUnlessGivenOut(lg, inst) ==
    IF inst.index <= lg.lastIndex
    THEN lg
    ELSE [lg EXCEPT !.entries = Insert(@, inst), !.lastIndex = inst.index]

Append(lg, inst) ==
    IF inst.index <= GlobalLastExecuted
    THEN lg
    ELSE [lg EXCEPT !.entries = Insert(@, inst),
                    !.lastIndex = IF inst.index \in DOMAIN lg.entries
                                  THEN @ ELSE Larger(@, inst.index)]

\* Commit waits on cv_committable_ until the index is in the log.
IsCommittable(lg, i) == i \in DOMAIN lg.entries

\* Slip: the state is left as it is.
NoCommit(lg, i) == lg

Commit(lg, i) ==
    IF lg.entries[i].state = "INPROGRESS"
    THEN [lg EXCEPT !.entries[i].state = "COMMITTED"]
    ELSE lg

\* Execute waits on cv_executable_ until the next index is committed.
NextIndex(lg) == lg.lastExecuted + 1

IsExecutable(lg) ==
    /\ NextIndex(lg) \in DOMAIN lg.entries
    /\ lg.entries[NextIndex(lg)].state = "COMMITTED"

\* Slip: last_executed_ stays behind.
ExecuteAgain(lg) == [lg EXCEPT !.entries[NextIndex(lg)].state = "EXECUTED"]

Execute(lg) ==
    [lg EXCEPT !.entries[NextIndex(lg)].state = "EXECUTED",
               !.lastExecuted = @ + 1]

=============================================================================
