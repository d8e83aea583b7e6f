--------------------------- MODULE MCMultiPaxos ---------------------------
(***************************************************************************)
(* Replication on small clusters and few commands.                         *)
(***************************************************************************)
EXTENDS MultiPaxos, TLC

CONSTANTS c1, c2

\* How often each replica may campaign.
One    == (0 :> 2) @@ (1 :> 0) @@ (2 :> 0)
Duel   == (0 :> 1) @@ (1 :> 1) @@ (2 :> 0)
Pair   == (0 :> 2) @@ (1 :> 1)

\* Where the clients are connected.
AtOne     == (c1 :> 0) @@ (c2 :> 0)
AtBoth    == (c1 :> 0) @@ (c2 :> 1)

OnePartition   == (c1 :> 0) @@ (c2 :> 0)

\* The second command is sent when the first one has its result.
OneAfterTheOther == op[c2].pc = "idle" \/ op[c1].pc \in {"ok", "failed"}

===========================================================================
