--------------------------- MODULE ReplicatedLog ---------------------------
(***************************************************************************)
(* What replication promises while a single replica campaigns: a command   *)
(* proposed gets an index of its own in its partition, the replicas that   *)
(* store it never lose it, it is committed only when a majority stores it, *)
(* and stores apply committed commands in index order, one each index.     *)
(***************************************************************************)
EXTENDS Integers, FiniteSets, Sequences

CONSTANTS Nodes, Partitions, Command, PartitionOf

VARIABLES
    slot,        \* the index of a command, 0 while it has none
    holders,     \* the replicas that store it
    committed,   \* the commands committed
    executed     \* what the store of a replica and partition has applied

logVars == <<slot, holders, committed, executed>>

Init ==
    /\ slot = [c \in Command |-> 0]
    /\ holders = [c \in Command |-> {}]
    /\ committed = {}
    /\ executed = [n \in Nodes |-> [p \in Partitions |-> <<>>]]

Used(p) == {slot[c] : c \in {d \in Command : PartitionOf[d] = p}}

Propose(c, i, n) ==
    /\ slot[c] = 0
    /\ i \notin Used(PartitionOf[c])
    /\ slot' = [slot EXCEPT ![c] = i]
    /\ holders' = [holders EXCEPT ![c] = {n}]
    /\ UNCHANGED <<committed, executed>>

Store(c, n) ==
    /\ slot[c] > 0
    /\ holders' = [holders EXCEPT ![c] = @ \cup {n}]
    /\ UNCHANGED <<slot, committed, executed>>

Commit(c) ==
    /\ slot[c] > 0
    /\ 2 * Cardinality(holders[c]) > Cardinality(Nodes)
    /\ committed' = committed \cup {c}
    /\ UNCHANGED <<slot, holders, executed>>

Execute(n, c) ==
    /\ c \in committed
    /\ n \in holders[c]
    /\ slot[c] = Len(executed[n][PartitionOf[c]]) + 1
    /\ executed' = [executed EXCEPT ![n][PartitionOf[c]] = Append(@, c)]
    /\ UNCHANGED <<slot, holders, committed>>

\* An index may be skipped; the largest one a step can pick is the number of
\* commands that ask for one.
Next ==
    \E c \in Command :
        \/ \E i \in 1 .. Cardinality(Command), n \in Nodes : Propose(c, i, n)
        \/ \E n \in Nodes : Store(c, n) \/ Execute(n, c)
        \/ Commit(c)

Spec == Init /\ [][Next]_logVars

=============================================================================
