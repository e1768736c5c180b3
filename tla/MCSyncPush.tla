---------------------------- MODULE MCSyncPush ----------------------------
(* Small instances of SyncPush for TLC. *)
EXTENDS SyncPush, TLC

CONSTANTS First, Second, KeyA, KeyB, Summary, Other, Medal, Theme, OptIn

\* First has a key, stores a summary and the theme; Second has none and stores
\* another one and the same summary.
SharedKeyOf == [p \in Pushes |-> IF p = First THEN KeyA ELSE None]
SharedItems == [p \in Pushes |-> IF p = First THEN <<Summary>> ELSE <<Other, Summary>>]
SharedGiven == [p \in Pushes |-> IF p = First THEN {Theme} ELSE {}]

\* Both have a key and store the same summary; Second also stores a medal.
QueueKeyOf == [p \in Pushes |-> IF p = First THEN KeyA ELSE KeyB]
QueueItems == [p \in Pushes |-> IF p = First THEN <<Summary>> ELSE <<Summary, Medal>>]
QueueGiven == [p \in Pushes |-> {}]

\* Both carry settings only.
SettingsKeyOf == [p \in Pushes |-> None]
SettingsItems == [p \in Pushes |-> <<>>]
SettingsGiven == [p \in Pushes |-> IF p = First THEN {Theme} ELSE {OptIn}]

\* PATCH /users/me carries the opt-in.
MCPatches == {{OptIn}}

Symmetry == Permutations(Requests)
=============================================================================
