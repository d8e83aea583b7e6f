------------------------------ MODULE Ballots ------------------------------
(***************************************************************************)
(* The ballot numbers of kv-store-host/src/multipaxos.h.  A ballot is an   *)
(* int64_t: the round in the high bits, the id of the replica that issued  *)
(* it in the low eight.  Every replica starts with the ballot kMaxNumPeers,*)
(* which is "round 0, issued by nobody".                                   *)
(***************************************************************************)
EXTENDS Integers

kIdBits         == 255
kRoundIncrement == kIdBits + 1
kMaxNumPeers    == 15

\* ballot & kIdBits, of a ballot that is never negative
ExtractLeaderId(b) == b % kRoundIncrement

\* Slip: a replica that knows no leader takes itself for it.
IsLeaderOrNobody(b, id) == ExtractLeaderId(b) \in {id, kMaxNumPeers}

IsLeader(b, id) == ExtractLeaderId(b) = id

IsSomeoneElseLeader(b, id) ==
    /\ ~ IsLeader(b, id)
    /\ ExtractLeaderId(b) < kMaxNumPeers

\* Slip: the round goes down.
NextBallotDown(b, id) ==
    LET next == b - kRoundIncrement
    IN  next - (next % kRoundIncrement) + id

\* (b + kRoundIncrement) & ~kIdBits | id, of an id that fits in the low bits
NextBallot(b, id) ==
    LET next == b + kRoundIncrement
    IN  next - (next % kRoundIncrement) + id

=============================================================================
