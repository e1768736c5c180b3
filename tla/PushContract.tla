--------------------------- MODULE PushContract ---------------------------
(***************************************************************************)
(* What a client may rely on when it gives POST /sync/push an idempotency  *)
(* key: the key is recorded once, after everything in the push has been    *)
(* stored, with one server revision; at most one request is told 'ok', and *)
(* every reply to the key carries that revision.                           *)
(***************************************************************************)
EXTENDS Naturals

CONSTANTS
    Pushes,   \* contents of pushes
    Keys,     \* idempotency keys
    KeyOf,    \* the key a client sends with a push, or None
    None

VARIABLES
    record,    \* the revision recorded for a key, 0 before
    applied,   \* pushes that were stored as a whole at least once
    accepted,  \* how many requests with a key were answered 'ok'
    answers    \* the revisions clients were given for a key

vars == <<record, applied, accepted, answers>>

Init ==
    /\ record = [k \in Keys |-> 0]
    /\ applied \in SUBSET Pushes
    /\ accepted = [k \in Keys |-> 0]
    /\ answers = {}

Apply(p) ==
    /\ applied' = applied \cup {p}
    /\ UNCHANGED <<record, accepted, answers>>

Commit(p) ==
    LET k == KeyOf[p]
    IN  /\ k # None
        /\ p \in applied
        /\ record[k] = 0
        /\ record'[k] \in Nat \ {0}
        /\ record' = [record EXCEPT ![k] = record'[k]]
        /\ UNCHANGED <<applied, accepted, answers>>

Answer(p) == answers' = answers \cup {<<KeyOf[p], record[KeyOf[p]]>>}

Accept(p) ==
    /\ KeyOf[p] # None
    /\ p \in applied
    /\ record[KeyOf[p]] # 0
    /\ accepted[KeyOf[p]] = 0
    /\ accepted' = [accepted EXCEPT ![KeyOf[p]] = 1]
    /\ Answer(p)
    /\ UNCHANGED <<record, applied>>

Replay(p) ==
    /\ KeyOf[p] # None
    /\ p \in applied
    /\ record[KeyOf[p]] # 0
    /\ Answer(p)
    /\ UNCHANGED <<record, applied, accepted>>

Next == \E p \in Pushes : Apply(p) \/ Commit(p) \/ Accept(p) \/ Replay(p)

Spec == Init /\ [][Next]_vars
=============================================================================
