------------------------- MODULE BallotArithmetic -------------------------
(***************************************************************************)
(* Ballots computed with % and -, against the bit operations of the code,  *)
(* for every ballot an election of up to MaxRound rounds may hold.         *)
(***************************************************************************)
EXTENDS Ballots, Bitwise

LOCAL MaxRound == 14

LOCAL Ids == 0 .. kMaxNumPeers - 1

\* ~kIdBits, among the bits those ballots have
LOCAL HighBits == (MaxRound + 2) * kRoundIncrement - 1 - kIdBits

LOCAL BallotsUpTo(round) ==
    {r * kRoundIncrement + id : r \in 0 .. round, id \in Ids \cup {kMaxNumPeers}}

\* The arithmetic of Ballots is what &, ~ and | compute.
ASSUME ArithmeticIsBitwise ==
    \A b \in BallotsUpTo(MaxRound) :
        /\ ExtractLeaderId(b) = (b & kIdBits)
        /\ \A id \in Ids : NextBallot(b, id) = (((b + kRoundIncrement) & HighBits) | id)

=============================================================================
