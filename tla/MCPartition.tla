---------------------------- MODULE MCPartition ----------------------------
(***************************************************************************)
(* A partition of a replica that proposes three commands on one key; an    *)
(* earlier and a later leader propose others.                              *)
(***************************************************************************)
EXTENDS Partition

Cmd(id, type, value) == [id |-> id, type |-> type, key |-> "k", value |-> value]

Requests == {Cmd(1, "PUT", "v"), Cmd(2, "GET", "none"), Cmd(3, "DEL", "none")}

OneBallot == [c \in Requests |-> 2]

Others == {[ballot |-> 1, index |-> 1, cmd |-> Cmd(4, "PUT", "w")],
           [ballot |-> 3, index |-> 2, cmd |-> Cmd(5, "DEL", "none")]}

===========================================================================
