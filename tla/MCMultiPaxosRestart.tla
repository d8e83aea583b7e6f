----------------------- MODULE MCMultiPaxosRestart -----------------------
(***************************************************************************)
(* One of two replicas leads; it or the other one restarts.  The runs also *)
(* evaluate what BallotArithmetic says of ballots.                         *)
(***************************************************************************)
EXTENDS MultiPaxosRestart, BallotArithmetic, TLC

CONSTANTS c1, c2

LeaderRestarts   == (0 :> 1) @@ (1 :> 0)
FollowerRestarts == (0 :> 0) @@ (1 :> 1)

Twice  == (0 :> 2) @@ (1 :> 0)
Thrice == (0 :> 3) @@ (1 :> 0)
AtOne == (c1 :> 0) @@ (c2 :> 0)
OnePartition == (c1 :> 0) @@ (c2 :> 0)

==========================================================================
