-------------------------- MODULE MCIngressWorker --------------------------
(***************************************************************************)
(* Small instances of IngressWorker for TLC.                               *)
(***************************************************************************)
EXTENDS IngressWorker, TLC

CONSTANTS r1, r2, r3, r4, r5, s1, s2, p1, p2, k1, k2

WorkerSymmetry == Permutations(Workers)
CallSymmetry == Permutations(Workers) \cup Permutations({r1, r2})

OneStream    == [r \in Requests |-> s1]
OnePartition == [s \in Streams |-> p1]
\* r5 goes to a stream of another partition.
TwoStreams   == [r \in Requests |-> IF r = r5 THEN s2 ELSE s1]
StreamsApart == [s \in Streams |-> IF s = s1 THEN p1 ELSE p2]

NoKeys       == [r \in Requests |-> None]
\* r1 and r2 are two calls with one key, r4 repeats one of before keys had an actor.
SharedAndLegacy == [r \in Requests |-> CASE r = r3 -> None [] r = r4 -> k2 [] OTHER -> k1]

AllValid     == [r \in Requests |-> "valid"]
MixedKinds   == [r \in Requests |->
                   CASE r = r2 -> "bad_data" [] r = r3 -> "unauthorized"
                     [] r = r4 -> "misrouted" [] r = r5 -> "malformed" [] OTHER -> "valid"]

\* Jobs of the present API leave room_seq to the worker; older ones carry it.
NoRoomSeq    == [r \in Requests |-> 0]
OldJobAhead  == [r \in Requests |-> IF r = r1 THEN 2 ELSE 0]
=============================================================================
