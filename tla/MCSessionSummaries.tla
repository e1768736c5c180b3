----------------------- MODULE MCSessionSummaries -----------------------
(* Small instances of SessionSummaries for TLC. *)
EXTENDS SessionSummaries, TLC

CONSTANT Small   \* the bucket that allows the least experience

\* Buckets differ in the experience they allow.
MCExpCap == [b \in Buckets |-> IF b = Small THEN 1 ELSE 2]

Symmetry == Permutations(Requests) \cup Permutations(Sessions)
=============================================================================
