------------------------ MODULE MCActivitySessions ------------------------
(* A small instance of ActivitySessions for TLC. *)
EXTENDS ActivitySessions, TLC

CONSTANTS First, Second, Work, Rest, Again, Broken, Monday, Tuesday, Warnings, Tools

\* Work and Again are two uploads of Monday's session; Broken is refused.
MCEntriesOf == [b \in Batches |-> IF b = First THEN <<Work, Broken, Rest>> ELSE <<Rest, Again>>]
MCClientOf == [e \in Entries |-> IF e \in {Work, Again} THEN Monday ELSE Tuesday]
MCGroupsOf == [e \in Entries |-> IF e = Again THEN {Tools} ELSE IF e = Work THEN {Warnings, Tools} ELSE {}]

Symmetry == Permutations(Requests) \cup Permutations(Ids)
=============================================================================
