--------------------------- MODULE SessionTable ---------------------------
(***************************************************************************)
(* What the activity sessions of a user are for those who upload and       *)
(* delete them: a table with at most one session per clientSessionId, that *)
(* is stored whole, with its children, and never partly; each store is the *)
(* next edit of what was there, and a batch is answered once all of its    *)
(* valid entries have been stored.                                         *)
(***************************************************************************)
EXTENDS Naturals, Sequences

CONSTANTS
    Batches,    \* contents of batches
    Entries,    \* contents of activity sessions
    EntriesOf,  \* batch -> its entries, in order
    ClientOf,   \* entry -> its clientSessionId
    Clients,    \* clientSessionIds
    Safe,       \* the entries that may be stored
    Groups,     \* child tables
    GroupsOf    \* entry -> the groups it gives elements to

VARIABLES
    table,      \* the sessions under a clientSessionId: none or one
    committed,  \* entries that were stored
    replied     \* batches that were answered

vars == <<table, committed, replied>>

\* The n-th edit of a session, with everything that the entry e says.
Session(e, n) ==
    [by |-> e, edit |-> n,
     groups |-> [g \in Groups |-> IF g \in GroupsOf[e] THEN {[by |-> e, edit |-> n]} ELSE {}]]

NextEdit(c) == IF table[c] = {} THEN {1} ELSE {s.edit + 1 : s \in table[c]}

Init ==
    /\ table = [c \in Clients |-> {}]
    /\ committed = {}
    /\ replied = {}

Store(e) ==
    /\ e \in Safe
    /\ \E n \in NextEdit(ClientOf[e]) : table' = [table EXCEPT ![ClientOf[e]] = {Session(e, n)}]
    /\ committed' = committed \cup {e}
    /\ UNCHANGED replied

Remove(c) ==
    /\ table[c] # {}
    /\ table' = [table EXCEPT ![c] = {}]
    /\ UNCHANGED <<committed, replied>>

Answer(b) ==
    /\ {EntriesOf[b][i] : i \in DOMAIN EntriesOf[b]} \cap Safe \subseteq committed
    /\ replied' = replied \cup {b}
    /\ UNCHANGED <<table, committed>>

Next ==
    \/ \E e \in Entries : Store(e)
    \/ \E c \in Clients : Remove(c)
    \/ \E b \in Batches : Answer(b)

Spec == Init /\ [][Next]_vars
=============================================================================
