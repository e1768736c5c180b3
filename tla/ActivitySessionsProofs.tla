---------------------- MODULE ActivitySessionsProofs ----------------------
(***************************************************************************)
(* Proofs about ActivitySessions.  RowsInv says who may write a session:   *)
(* open transactions work on different clients and different ids, and one  *)
(* that inserts is alone with its new id.  GroupsInv adds the children,    *)
(* AnswerInv follows a batch through its entries, and ListInv, on top of   *)
(* the first two, follows a listing.  HeldInv says what an open            *)
(* transaction is about to store; with it the batches implement            *)
(* SessionTable.                                                           *)
(***************************************************************************)
EXTENDS ActivitySessions, TLAPS

LEMMA Moved ==
  ASSUME TypeOK, NEW r \in Requests, NEW st, Goto(r, st)
  PROVE  request'[r] = st /\ \A q \in Requests : q # r => request'[q] = request[q]
  BY DEF TypeOK, Goto

\* A step that leaves one request well formed leaves all of them so.
LEMMA RequestsKept ==
  ASSUME TypeOK, NEW r \in Requests, NEW st \in Request, WellFormed(st), Goto(r, st)
  PROVE  request' \in [Requests -> Request] /\ \A q \in Requests : WellFormed(request'[q])
<1>1. request' \in [Requests -> Request]
  BY DEF TypeOK, Goto
<1> QED
  BY <1>1, Moved DEF TypeOK

LEMMA IdleFormed == Idle \in Request /\ WellFormed(Idle)
  BY DEF Idle, Between, Request, Phase, WellFormed

LEMMA ReplyFormed ==
  ASSUME NEW b \in Batches
  PROVE  Between("reply", b, 0) \in Request /\ WellFormed(Between("reply", b, 0))
  BY NoneAssumption DEF Between, Request, Phase, WellFormed

LEMMA LookupFormed ==
  ASSUME NEW b \in Batches, NEW k \in DOMAIN EntriesOf[b]
  PROVE  Between("lookup", b, k) \in Request /\ WellFormed(Between("lookup", b, k))
<1>1. k \in Nat
  BY EntriesAssumption
<1> QED
  BY <1>1, NoneAssumption DEF Between, Request, Phase, WellFormed

\* A request that is at an entry.
LEMMA AtEntry ==
  ASSUME TypeOK, NEW r \in Requests, request[r].phase \in {"lookup", "write", "replace", "commit"}
  PROVE  /\ request[r].batch \in Batches
         /\ request[r].at \in DOMAIN EntriesOf[request[r].batch]
         /\ request[r].at \in Nat
         /\ Entry(r) \in Entries
<1>1. /\ request[r].batch \in Batches
      /\ request[r].at \in DOMAIN EntriesOf[request[r].batch]
  BY DEF TypeOK, WellFormed
<1> QED
  BY <1>1, EntriesAssumption DEF Entry

LEMMA WriteFormed ==
  ASSUME TypeOK, NEW r \in Requests, request[r].phase = "lookup", NEW i \in Ids \cup {None}
  PROVE  LET st == Storing(request[r], "write", i, None)
         IN  st \in Request /\ WellFormed(st)
  BY AtEntry, NoneAssumption DEF Storing, Request, Phase, WellFormed

LEMMA WorkFormed ==
  ASSUME TypeOK, NEW r \in Requests, request[r].phase \in {"write", "replace"},
         NEW ph \in {"replace", "commit"}, NEW i \in Ids, NEW w \in Row
  PROVE  LET st == Storing(request[r], ph, i, w)
         IN  st \in Request /\ WellFormed(st)
  BY AtEntry, NoneAssumption DEF Storing, Request, Phase, WellFormed

LEMMA ResumeKeeps ==
  ASSUME TypeOK, NEW r \in Requests, NEW b \in Batches, NEW n, Resume(r, b, n)
  PROVE  request' \in [Requests -> Request] /\ \A q \in Requests : WellFormed(request'[q])
<1>1. CASE Goto(r, Between("reply", b, 0))
  BY <1>1, ReplyFormed, RequestsKept
<1>2. CASE \E k \in Pending(b, n) : Goto(r, Between("lookup", b, k))
  <2>1. PICK k \in Pending(b, n) : Goto(r, Between("lookup", b, k))
    BY <1>2
  <2>2. k \in DOMAIN EntriesOf[b]
    BY DEF Pending
  <2> QED
    BY <2>1, <2>2, LookupFormed, RequestsKept
<1> QED
  BY <1>1, <1>2 DEF Resume

-----------------------------------------------------------------------------
LEMMA FreshRow ==
  ASSUME NEW e \in Entries
  PROVE  Fresh(e) \in Row
  BY EntriesAssumption DEF Fresh, Row

LEMMA RewrittenRow ==
  ASSUME NEW old \in Row, NEW e \in Entries
  PROVE  Rewritten(old, e) \in Row
  BY DEF Rewritten, Row

LEMMA RegroupedRow ==
  ASSUME NEW w \in Row
  PROVE  WithGroups(w, ReplacedGroups(w)) \in Row
<1>1. [by |-> w.by, edit |-> w.edit] \in Stamp
  BY DEF Row, Stamp
<1>2. ReplacedGroups(w) \in [Groups -> SUBSET Stamp]
  BY <1>1 DEF ReplacedGroups
<1> QED
  BY <1>2 DEF WithGroups, Row

LEMMA ChildrenFound ==
  ASSUME TypeOK, NEW g \in Groups
  PROVE  Children(g) \subseteq Found
<1> SUFFICES ASSUME NEW i \in Ids, row[i] # None, NEW s \in row[i].groups[g]
             PROVE  [group |-> g, id |-> i, stamp |-> s] \in Found
  BY DEF Children
<1>1. row[i] \in Row
  BY DEF TypeOK
<1>2. s \in Stamp
  BY <1>1 DEF Row
<1> QED
  BY <1>2 DEF Found

LEMMA TypeOKInitially == Init => TypeOK
<1> SUFFICES ASSUME Init PROVE TypeOK
  OBVIOUS
<1>1. list \in Listing
  BY DEF Init, NoList, Listing
<1> QED
  BY <1>1, IdleFormed DEF Init, TypeOK

LEMMA TypeOKKept == TypeOK /\ [Next]_vars => TypeOK'
<1> SUFFICES ASSUME TypeOK, [Next]_vars PROVE TypeOK'
  OBVIOUS
<1> DEFINE RequestsOK == request' \in [Requests -> Request] /\ \A q \in Requests : WellFormed(request'[q])
<1>1. ASSUME NEW r \in Requests, NEW b \in Batches, Post(r, b) PROVE TypeOK'
  <2>1. RequestsOK
    BY <1>1, ResumeKeeps DEF Post
  <2> QED
    BY <1>1, <2>1 DEF Post, TypeOK
<1>2. ASSUME NEW r \in Requests, Lookup(r) PROVE TypeOK'
  <2>1. PICK i \in Ids \cup {None} : Goto(r, Storing(request[r], "write", i, None))
    BY <1>2 DEF Lookup, Stored
  <2>2. RequestsOK
    BY <1>2, <2>1, WriteFormed, RequestsKept DEF Lookup
  <2> QED
    BY <1>2, <2>2 DEF Lookup, TypeOK
<1>3. ASSUME NEW r \in Requests, NEW i \in Ids, Insert(r, i) PROVE TypeOK'
  <2>1. CASE KeyTaken(ClientOf[Entry(r)])
    <3>1. RequestsOK
      BY <1>3, <2>1, IdleFormed, RequestsKept DEF Insert, Refused
    <3> QED
      BY <1>3, <2>1, <3>1 DEF Insert, TypeOK
  <2>2. CASE ~KeyTaken(ClientOf[Entry(r)])
    <3>1. Fresh(Entry(r)) \in Row
      BY <1>3, AtEntry, FreshRow DEF Insert
    <3>2. RequestsOK
      BY <1>3, <2>2, <3>1, WorkFormed, RequestsKept DEF Insert
    <3> QED
      BY <1>3, <2>2, <3>2 DEF Insert, TypeOK
  <2> QED
    BY <2>1, <2>2
<1>4. ASSUME NEW r \in Requests, Update(r) PROVE TypeOK'
  <2>1. request[r].id \in Ids
    BY <1>4 DEF Update, TypeOK, Request
  <2>2. CASE row[request[r].id] = None
    <3>1. RequestsOK
      BY <1>4, <2>2, IdleFormed, RequestsKept DEF Update, Refused
    <3> QED
      BY <1>4, <2>2, <3>1 DEF Update, TypeOK
  <2>3. CASE row[request[r].id] # None
    <3>1. Rewritten(row[request[r].id], Entry(r)) \in Row
      BY <1>4, <2>1, <2>3, AtEntry, RewrittenRow DEF Update, TypeOK
    <3>2. RequestsOK
      BY <1>4, <2>1, <2>3, <3>1, WorkFormed, RequestsKept DEF Update
    <3> QED
      BY <1>4, <2>3, <3>2 DEF Update, TypeOK
  <2> QED
    BY <2>2, <2>3
<1>5. ASSUME NEW r \in Requests, Replace(r) PROVE TypeOK'
  <2>1. request[r].work \in Row /\ request[r].id \in Ids
    BY <1>5 DEF Replace, TypeOK, WellFormed, Request
  <2>2. RequestsOK
    BY <1>5, <2>1, RegroupedRow, WorkFormed, RequestsKept DEF Replace
  <2> QED
    BY <1>5, <2>2 DEF Replace, TypeOK
<1>6. ASSUME NEW r \in Requests, Commit(r) PROVE TypeOK'
  <2>1. request[r].work \in Row /\ request[r].id \in Ids
    BY <1>6 DEF Commit, TypeOK, WellFormed, Request
  <2>2. request[r].batch \in Batches /\ Entry(r) \in Entries
    BY <1>6, AtEntry DEF Commit
  <2>3. RequestsOK
    BY <1>6, <2>2, ResumeKeeps DEF Commit
  <2> QED
    BY <1>6, <2>1, <2>2, <2>3 DEF Commit, TypeOK
<1>7. ASSUME NEW r \in Requests, Reply(r) PROVE TypeOK'
  <2>1. request[r].batch \in Batches
    BY <1>7 DEF Reply, TypeOK, WellFormed
  <2>2. RequestsOK
    BY <1>7, IdleFormed, RequestsKept DEF Reply
  <2> QED
    BY <1>7, <2>1, <2>2 DEF Reply, TypeOK
<1>8. ASSUME NEW r \in Requests, Abandon(r) PROVE TypeOK'
  <2>1. RequestsOK
    BY <1>8, IdleFormed, RequestsKept DEF Abandon
  <2> QED
    BY <1>8, <2>1 DEF Abandon, TypeOK
<1>9. ASSUME NEW i \in Ids, DeleteSession(i) PROVE TypeOK'
  BY <1>9 DEF DeleteSession, TypeOK
<1>10. CASE BeginList
  <2>1. \A i \in Ids : row[i] # None => [by |-> row[i].by, edit |-> row[i].edit] \in Stamp
    BY DEF TypeOK, Row, Stamp
  <2>2. list' \in Listing
    BY <1>10, <2>1 DEF BeginList, TypeOK, Listing
  <2> QED
    BY <1>10, <2>2 DEF BeginList, TypeOK
<1>11. ASSUME NEW g \in Groups, ListGroup(g) PROVE TypeOK'
  <2>1. list' \in Listing
    BY <1>11, ChildrenFound DEF ListGroup, TypeOK, Listing
  <2> QED
    BY <1>11, <2>1 DEF ListGroup, TypeOK
<1>12. CASE UNCHANGED vars
  BY <1>12 DEF vars, TypeOK
<1> QED
  BY <1>1, <1>2, <1>3, <1>4, <1>5, <1>6, <1>7, <1>8, <1>9, <1>10, <1>11, <1>12 DEF Next

\* Every reachable state has the right types.
THEOREM ActivityTypeCorrect == Spec => []TypeOK
  BY TypeOKInitially, TypeOKKept, PTL DEF Spec

-----------------------------------------------------------------------------
Works(r) == request[r].work # None

\* A request whose lookup found a row.
Finder(r) == request[r].phase = "write" /\ request[r].id # None

IdsUsed ==
    /\ \A i \in Ids : row[i] # None => i \in used
    /\ \A r \in Requests : request[r].id # None => request[r].id \in used

\* Open transactions do not meet: that is what the locks are for.
WorkersApart ==
    \A q, r \in Requests : q # r /\ Works(q) /\ Works(r) =>
        request[q].work.client # request[r].work.client /\ request[q].id # request[r].id

\* An open transaction holds the only row of its client, or none is stored.
WorkersOwn ==
    \A r \in Requests : Works(r) =>
        /\ \A i \in Ids : row[i] # None /\ row[i].client = request[r].work.client => i = request[r].id
        /\ row[request[r].id] # None =>
             /\ row[request[r].id].client = request[r].work.client
             /\ request[r].work.edit = row[request[r].id].edit + 1

\* What a lookup found is still a row of that client, or gone for good: no
\* transaction is about to store it again.
FindersRight ==
    \A r \in Requests : Finder(r) =>
        /\ row[request[r].id] # None => row[request[r].id].client = ClientOf[Entry(r)]
        /\ \A q \in Requests : Works(q) /\ request[q].id = request[r].id => row[request[r].id] # None

RowsInv == TypeOK /\ OneRowPerClientSession /\ IdsUsed /\ WorkersApart /\ WorkersOwn /\ FindersRight

\* A request that lets go of its row and its transaction.
LEMMA LettingGo ==
  ASSUME RowsInv, TypeOK', NEW r \in Requests, NEW st, Goto(r, st),
         st.id = None, st.work = None, row' = row, used' = used
  PROVE  RowsInv'
<1>1. request'[r] = st /\ \A q \in Requests : q # r => request'[q] = request[q]
  BY Moved DEF RowsInv
<1>2. OneRowPerClientSession' /\ IdsUsed'
  BY <1>1 DEF RowsInv, OneRowPerClientSession, IdsUsed
<1>3. WorkersApart' /\ WorkersOwn'
  BY <1>1 DEF RowsInv, WorkersApart, WorkersOwn, Works
<1>4. FindersRight'
  BY <1>1 DEF RowsInv, FindersRight, Finder, Works, Entry
<1> QED
  BY <1>2, <1>3, <1>4 DEF RowsInv

LEMMA BetweenHoldsNothing ==
  ASSUME NEW ph, NEW b, NEW n
  PROVE  Between(ph, b, n).id = None /\ Between(ph, b, n).work = None
  BY DEF Between

\* The states a request resumes with.
LEMMA ResumeLetsGo ==
  ASSUME NEW r \in Requests, NEW b, NEW n, Resume(r, b, n)
  PROVE  \E st : Goto(r, st) /\ st.id = None /\ st.work = None
  BY BetweenHoldsNothing DEF Resume

LEMMA RowsInvInitially == Init => RowsInv
<1> SUFFICES ASSUME Init PROVE RowsInv
  OBVIOUS
<1>1. \A r \in Requests : request[r].id = None /\ request[r].work = None
  BY BetweenHoldsNothing DEF Init, Idle
<1> QED
  BY <1>1, TypeOKInitially DEF Init, RowsInv, OneRowPerClientSession, IdsUsed, WorkersApart,
     WorkersOwn, FindersRight, Works, Finder

\* Steps that change no row, no id and no request.
LEMMA RowsUntouched ==
  ASSUME RowsInv, TypeOK', row' = row, used' = used, request' = request
  PROVE  RowsInv'
  BY DEF RowsInv, OneRowPerClientSession, IdsUsed, WorkersApart, WorkersOwn, FindersRight,
     Works, Finder, Entry

LEMMA RowsInvLookup ==
  ASSUME RowsInv, TypeOK', NEW r \in Requests, Lookup(r)
  PROVE  RowsInv'
<1>1. PICK i \in Ids \cup {None} :
        /\ Goto(r, Storing(request[r], "write", i, None))
        /\ i # None => row[i] # None /\ row[i].client = ClientOf[Entry(r)]
  BY DEF Lookup, Stored
<1>2. row' = row /\ used' = used
  BY DEF Lookup
<1>3. /\ request'[r].id = i /\ request'[r].work = None
      /\ request'[r].batch = request[r].batch /\ request'[r].at = request[r].at
      /\ \A q \in Requests : q # r => request'[q] = request[q]
  BY <1>1, Moved DEF RowsInv, Storing
<1>4. OneRowPerClientSession' /\ IdsUsed'
  BY <1>1, <1>2, <1>3 DEF RowsInv, OneRowPerClientSession, IdsUsed
<1>5. WorkersApart' /\ WorkersOwn'
  BY <1>2, <1>3 DEF RowsInv, WorkersApart, WorkersOwn, Works
<1>6. FindersRight'
  BY <1>1, <1>2, <1>3 DEF RowsInv, FindersRight, Finder, Works, Entry
<1> QED
  BY <1>4, <1>5, <1>6 DEF RowsInv

\* A transaction that begins to write the row i of its client.
LEMMA Begins ==
  ASSUME RowsInv, TypeOK', NEW r \in Requests, NEW i \in Ids, NEW w \in Row,
         request[r].phase = "write", ~Locked(w.client, r),
         Goto(r, Storing(request[r], "replace", i, w)), row' = row, used' = used \cup {i},
         \A j \in Ids : row[j] # None /\ row[j].client = w.client => j = i,
         row[i] # None => row[i].client = w.client /\ w.edit = row[i].edit + 1,
         row[i] = None => i \notin used
  PROVE  RowsInv'
<1>1. /\ request'[r].id = i /\ request'[r].work = w /\ request'[r].phase = "replace"
      /\ \A q \in Requests : q # r => request'[q] = request[q]
  BY Moved DEF RowsInv, Storing
<1>2. OneRowPerClientSession' /\ IdsUsed'
  BY <1>1 DEF RowsInv, OneRowPerClientSession, IdsUsed
<1>3. \A q \in Requests : q # r /\ Works(q) =>
        request[q].work.client # w.client /\ request[q].id # i
  <2> SUFFICES ASSUME NEW q \in Requests, q # r, Works(q)
               PROVE  request[q].work.client # w.client /\ request[q].id # i
    OBVIOUS
  <2>1. request[q].work.client # w.client
    BY DEF Locked, Works
  <2>2. request[q].id \in used
    <3>1. request[q].id # None
      BY NoneAssumption DEF RowsInv, TypeOK, WellFormed, Works
    <3> QED
      BY <3>1 DEF RowsInv, IdsUsed
  <2>3. request[q].id = i => row[i] # None /\ request[q].work.client = row[i].client
    BY <2>2 DEF RowsInv, WorkersOwn
  <2> QED
    BY <2>1, <2>3
<1>4. WorkersApart'
  BY <1>1, <1>3 DEF RowsInv, WorkersApart, Works
<1>5. WorkersOwn'
  BY <1>1 DEF RowsInv, WorkersOwn, Works
<1>6. FindersRight'
  <2> SUFFICES ASSUME NEW q \in Requests, Finder(q)'
               PROVE  /\ row'[request'[q].id] # None => row'[request'[q].id].client = ClientOf[Entry(q)']
                      /\ \A p \in Requests : Works(p)' /\ request'[p].id = request'[q].id
                           => row'[request'[q].id] # None
    BY DEF FindersRight
  <2>1. q # r /\ request'[q] = request[q] /\ Finder(q)
    BY <1>1 DEF Finder
  <2>2. row'[request'[q].id] # None => row'[request'[q].id].client = ClientOf[Entry(q)']
    BY <2>1 DEF RowsInv, FindersRight, Entry
  <2>3. ASSUME NEW p \in Requests, Works(p)', request'[p].id = request'[q].id
        PROVE  row'[request'[q].id] # None
    <3>1. CASE p = r
      BY <1>1, <2>1, <2>3, <3>1 DEF RowsInv, IdsUsed, Finder
    <3>2. CASE p # r
      BY <1>1, <2>1, <2>3, <3>2 DEF RowsInv, FindersRight, Works
    <3> QED
      BY <3>1, <3>2
  <2> QED
    BY <2>2, <2>3
<1> QED
  BY <1>2, <1>4, <1>5, <1>6 DEF RowsInv

LEMMA RowsInvInsert ==
  ASSUME RowsInv, TypeOK', NEW r \in Requests, NEW i \in Ids, Insert(r, i)
  PROVE  RowsInv'
<1>1. CASE KeyTaken(ClientOf[Entry(r)])
  BY <1>1, LettingGo, BetweenHoldsNothing DEF Insert, Refused, Idle
<1>2. CASE ~KeyTaken(ClientOf[Entry(r)])
  <2>1. Fresh(Entry(r)) \in Row /\ Fresh(Entry(r)).client = ClientOf[Entry(r)]
    BY AtEntry, FreshRow DEF Insert, RowsInv, Fresh
  <2>2. i \notin used /\ row[i] = None
    BY <1>2 DEF Insert, RowsInv, IdsUsed
  <2>3. \A j \in Ids : ~(row[j] # None /\ row[j].client = ClientOf[Entry(r)])
    BY <1>2 DEF KeyTaken, Stored
  <2> QED
    BY <1>2, <2>1, <2>2, <2>3, Begins DEF Insert
<1> QED
  BY <1>1, <1>2

LEMMA RowsInvUpdate ==
  ASSUME RowsInv, TypeOK', NEW r \in Requests, Update(r)
  PROVE  RowsInv'
<1>1. CASE row[request[r].id] = None
  BY <1>1, LettingGo, BetweenHoldsNothing DEF Update, Refused, Idle
<1>2. CASE row[request[r].id] # None
  <2>1. PICK i \in Ids : i = request[r].id
    BY DEF Update, RowsInv, TypeOK, Request
  <2>2. row[i] \in Row /\ row[i].client = ClientOf[Entry(r)] /\ i \in used
    BY <1>2, <2>1 DEF Update, RowsInv, TypeOK, IdsUsed, FindersRight, Finder
  <2>3. PICK w \in Row : w = Rewritten(row[i], Entry(r))
    BY <2>2, AtEntry, RewrittenRow DEF Update, RowsInv
  <2>4. w.client = row[i].client /\ w.edit = row[i].edit + 1
    BY <2>3 DEF Rewritten
  <2>5. Goto(r, Storing(request[r], "replace", i, w)) /\ row' = row /\ used' = used \cup {i}
    BY <1>2, <2>1, <2>2, <2>3 DEF Update
  <2>6. \A j \in Ids : row[j] # None /\ row[j].client = w.client => j = i
    BY <1>2, <2>1, <2>4 DEF RowsInv, OneRowPerClientSession
  <2> QED
    BY <1>2, <2>1, <2>2, <2>4, <2>5, <2>6, Begins DEF Update
<1> QED
  BY <1>1, <1>2

LEMMA RowsInvReplace ==
  ASSUME RowsInv, TypeOK', NEW r \in Requests, Replace(r)
  PROVE  RowsInv'
<1>1. Works(r)
  BY DEF Replace, RowsInv, TypeOK, WellFormed, Works
<1>2. /\ request'[r].id = request[r].id /\ request'[r].phase = "commit" /\ request'[r].work \in Row
      /\ request'[r].work.client = request[r].work.client
      /\ request'[r].work.edit = request[r].work.edit
      /\ \A q \in Requests : q # r => request'[q] = request[q]
  <2>1. request[r].work \in Row
    BY <1>1 DEF RowsInv, TypeOK, Request, Works
  <2> QED
    BY <2>1, Moved, RegroupedRow DEF Replace, RowsInv, Storing, WithGroups
<1>3. row' = row /\ used' = used
  BY DEF Replace
<1>4. OneRowPerClientSession' /\ IdsUsed'
  BY <1>2, <1>3 DEF RowsInv, OneRowPerClientSession, IdsUsed
<1>5. \A q \in Requests : Works(q)' => Works(q) /\ request'[q].id = request[q].id
        /\ request'[q].work.client = request[q].work.client
        /\ request'[q].work.edit = request[q].work.edit
  BY <1>1, <1>2 DEF Works
<1>6. WorkersApart' /\ WorkersOwn'
  BY <1>3, <1>5 DEF RowsInv, WorkersApart, WorkersOwn
<1>7. FindersRight'
  BY <1>2, <1>3, <1>5 DEF RowsInv, FindersRight, Finder, Entry
<1> QED
  BY <1>4, <1>6, <1>7 DEF RowsInv

LEMMA RowsInvCommit ==
  ASSUME RowsInv, TypeOK', NEW r \in Requests, Commit(r)
  PROVE  RowsInv'
<1>1. PICK i \in Ids, w \in Row : i = request[r].id /\ w = request[r].work /\ Works(r)
  BY NoneAssumption DEF Commit, RowsInv, TypeOK, WellFormed, Request, Works
<1>2. /\ row'[i] = w /\ w # None
      /\ \A j \in Ids : j # i => row'[j] = row[j]
      /\ used' = used
  BY <1>1, NoneAssumption DEF Commit, RowsInv, TypeOK
<1>3. PICK st : Goto(r, st) /\ st.id = None /\ st.work = None
  BY ResumeLetsGo DEF Commit
<1>4. request'[r] = st /\ \A q \in Requests : q # r => request'[q] = request[q]
  BY <1>3, Moved DEF RowsInv
<1>5. OneRowPerClientSession'
  BY <1>1, <1>2 DEF RowsInv, OneRowPerClientSession, WorkersOwn
<1>6. IdsUsed'
  BY <1>1, <1>2, <1>3, <1>4, NoneAssumption DEF RowsInv, IdsUsed
<1>7. \A q \in Requests : Works(q)' =>
        /\ q # r /\ Works(q) /\ request'[q] = request[q]
        /\ request[q].work.client # w.client /\ request[q].id # i /\ request[q].id \in Ids
  BY <1>1, <1>3, <1>4 DEF Works, RowsInv, WorkersApart, TypeOK, WellFormed
<1>8. WorkersApart'
  BY <1>7 DEF RowsInv, WorkersApart
<1>9. WorkersOwn'
  BY <1>2, <1>7 DEF RowsInv, WorkersOwn
<1>10. FindersRight'
  <2> SUFFICES ASSUME NEW q \in Requests, Finder(q)'
               PROVE  /\ row'[request'[q].id] # None => row'[request'[q].id].client = ClientOf[Entry(q)']
                      /\ \A p \in Requests : Works(p)' /\ request'[p].id = request'[q].id
                           => row'[request'[q].id] # None
    BY DEF FindersRight
  <2>1. q # r /\ request'[q] = request[q] /\ Finder(q) /\ request[q].id \in Ids
    BY <1>3, <1>4 DEF Finder, RowsInv, TypeOK, Request
  <2>2. CASE request[q].id = i
    BY <1>1, <1>2, <2>1, <2>2 DEF RowsInv, FindersRight, WorkersOwn, Entry
  <2>3. CASE request[q].id # i
    BY <1>2, <1>7, <2>1, <2>3 DEF RowsInv, FindersRight, Entry
  <2> QED
    BY <2>2, <2>3
<1> QED
  BY <1>5, <1>6, <1>8, <1>9, <1>10 DEF RowsInv

LEMMA RowsInvDelete ==
  ASSUME RowsInv, TypeOK', NEW i \in Ids, DeleteSession(i)
  PROVE  RowsInv'
<1>1. /\ row'[i] = None /\ \A j \in Ids : j # i => row'[j] = row[j]
      /\ used' = used /\ request' = request
      /\ \A r \in Requests : Works(r) => request[r].id # i /\ request[r].id \in Ids
  BY DEF DeleteSession, RowsInv, TypeOK, WellFormed, Works
<1>2. OneRowPerClientSession' /\ IdsUsed'
  BY <1>1 DEF RowsInv, OneRowPerClientSession, IdsUsed
<1>3. WorkersApart' /\ WorkersOwn'
  BY <1>1 DEF RowsInv, WorkersApart, WorkersOwn, Works
<1>4. \A r \in Requests : Finder(r) => request[r].id \in Ids
  BY DEF Finder, RowsInv, TypeOK, Request
<1>5. FindersRight'
  BY <1>1, <1>4 DEF RowsInv, FindersRight, Finder, Works, Entry
<1> QED
  BY <1>2, <1>3, <1>5 DEF RowsInv

LEMMA RowsInvKept == RowsInv /\ [Next]_vars => RowsInv'
<1> SUFFICES ASSUME RowsInv, [Next]_vars PROVE RowsInv'
  OBVIOUS
<1>0. TypeOK'
  BY TypeOKKept DEF RowsInv
<1>1. ASSUME NEW r \in Requests, NEW b \in Batches, Post(r, b) PROVE RowsInv'
  BY <1>0, <1>1, ResumeLetsGo, LettingGo DEF Post
<1>2. ASSUME NEW r \in Requests, Reply(r) \/ Abandon(r) PROVE RowsInv'
  BY <1>0, <1>2, BetweenHoldsNothing, LettingGo DEF Reply, Abandon, Idle
<1>3. CASE BeginList \/ UNCHANGED vars
  BY <1>0, <1>3, RowsUntouched DEF BeginList, vars
<1>4. ASSUME NEW g \in Groups, ListGroup(g) PROVE RowsInv'
  BY <1>0, <1>4, RowsUntouched DEF ListGroup
<1> QED
  BY <1>0, <1>1, <1>2, <1>3, <1>4, RowsInvLookup, RowsInvInsert, RowsInvUpdate,
     RowsInvReplace, RowsInvCommit, RowsInvDelete DEF Next

LEMMA RowsInvariant == Spec => []RowsInv
  BY RowsInvInitially, RowsInvKept, PTL DEF Spec

\* Any number of batches leaves one row per client session.
THEOREM OneRowKept == Spec => []OneRowPerClientSession
<1>1. RowsInv => OneRowPerClientSession
  BY DEF RowsInv
<1> QED
  BY <1>1, RowsInvariant, PTL

-----------------------------------------------------------------------------
\* The children of a row are those of its own edit.
Regrouped(w) ==
    \A g \in Groups :
        w.groups[g] = IF g \in GroupsOf[w.by] THEN {[by |-> w.by, edit |-> w.edit]} ELSE {}

\* What a transaction is about to commit has its own children.
CommitsRegrouped == \A r \in Requests : request[r].phase = "commit" => Regrouped(request[r].work)

GroupsInv == TypeOK /\ CommitsRegrouped /\ GroupsAsUploaded

LEMMA RegroupedWork ==
  ASSUME NEW w
  PROVE  Regrouped(WithGroups(w, ReplacedGroups(w)))
  BY DEF Regrouped, WithGroups, ReplacedGroups

\* Steps that store nothing and bring no request to its commit.
LEMMA NothingStored ==
  ASSUME GroupsInv, TypeOK', NEW r \in Requests, NEW st, Goto(r, st), st.phase # "commit",
         row' = row
  PROVE  GroupsInv'
<1>1. request'[r] = st /\ \A q \in Requests : q # r => request'[q] = request[q]
  BY Moved DEF GroupsInv
<1>2. CommitsRegrouped'
  BY <1>1 DEF GroupsInv, CommitsRegrouped
<1> QED
  BY <1>2 DEF GroupsInv, GroupsAsUploaded

LEMMA ResumesElsewhere ==
  ASSUME NEW r \in Requests, NEW b, NEW n, Resume(r, b, n)
  PROVE  \E st : Goto(r, st) /\ st.phase # "commit"
<1>1. Between("reply", b, 0).phase # "commit" /\ \A k : Between("lookup", b, k).phase # "commit"
  BY DEF Between
<1> QED
  BY <1>1 DEF Resume

LEMMA IdleElsewhere == Idle.phase # "commit"
  BY DEF Idle, Between

LEMMA StoringElsewhere ==
  ASSUME NEW st, NEW i, NEW w
  PROVE  Storing(st, "write", i, w).phase # "commit" /\ Storing(st, "replace", i, w).phase # "commit"
  BY DEF Storing

LEMMA GroupsInvReplace ==
  ASSUME GroupsInv, TypeOK', NEW r \in Requests, Replace(r)
  PROVE  GroupsInv'
<1>1. PICK w : w = WithGroups(request[r].work, ReplacedGroups(request[r].work))
  OBVIOUS
<1>2. request'[r].work = w /\ \A q \in Requests : q # r => request'[q] = request[q]
  BY <1>1, Moved DEF Replace, GroupsInv, Storing
<1>3. Regrouped(w)
  BY <1>1, RegroupedWork
<1>4. CommitsRegrouped'
  BY <1>2, <1>3 DEF GroupsInv, CommitsRegrouped
<1> QED
  BY <1>4 DEF GroupsInv, GroupsAsUploaded, Replace

LEMMA GroupsInvCommit ==
  ASSUME GroupsInv, TypeOK', NEW r \in Requests, Commit(r)
  PROVE  GroupsInv'
<1>1. PICK i \in Ids : i = request[r].id
  BY DEF Commit, GroupsInv, TypeOK, WellFormed
<1> DEFINE w == request[r].work
<1>2. Regrouped(w)
  BY <1>1 DEF Commit, GroupsInv, CommitsRegrouped
<1>3. row'[i] = w /\ \A j \in Ids : j # i => row'[j] = row[j]
  BY <1>1 DEF Commit, GroupsInv, TypeOK
<1>4. GroupsAsUploaded'
  BY <1>2, <1>3 DEF GroupsInv, GroupsAsUploaded, Regrouped
<1>5. PICK st : Goto(r, st) /\ st.phase # "commit"
  BY ResumesElsewhere DEF Commit
<1>6. request'[r] = st /\ \A q \in Requests : q # r => request'[q] = request[q]
  BY <1>5, Moved DEF GroupsInv
<1>7. CommitsRegrouped'
  BY <1>5, <1>6 DEF GroupsInv, CommitsRegrouped
<1> QED
  BY <1>4, <1>7 DEF GroupsInv

LEMMA GroupsInvKept == GroupsInv /\ [Next]_vars => GroupsInv'
<1> SUFFICES ASSUME GroupsInv, [Next]_vars PROVE GroupsInv'
  OBVIOUS
<1>0. TypeOK'
  BY TypeOKKept DEF GroupsInv
<1>1. ASSUME NEW r \in Requests, NEW b \in Batches, Post(r, b) PROVE GroupsInv'
  BY <1>0, <1>1, ResumesElsewhere, NothingStored DEF Post
<1>2. ASSUME NEW r \in Requests, Lookup(r) PROVE GroupsInv'
  BY <1>0, <1>2, StoringElsewhere, NothingStored DEF Lookup
<1>3. ASSUME NEW r \in Requests, NEW i \in Ids, Insert(r, i) PROVE GroupsInv'
  BY <1>0, <1>3, StoringElsewhere, IdleElsewhere, NothingStored DEF Insert, Refused
<1>4. ASSUME NEW r \in Requests, Update(r) PROVE GroupsInv'
  BY <1>0, <1>4, StoringElsewhere, IdleElsewhere, NothingStored DEF Update, Refused
<1>5. ASSUME NEW r \in Requests, Reply(r) \/ Abandon(r) PROVE GroupsInv'
  BY <1>0, <1>5, IdleElsewhere, NothingStored DEF Reply, Abandon
<1>6. ASSUME NEW i \in Ids, DeleteSession(i) PROVE GroupsInv'
  BY <1>0, <1>6 DEF DeleteSession, GroupsInv, TypeOK, CommitsRegrouped, GroupsAsUploaded
<1>7. CASE BeginList \/ UNCHANGED vars
  BY <1>0, <1>7 DEF BeginList, vars, GroupsInv, CommitsRegrouped, GroupsAsUploaded
<1>8. ASSUME NEW g \in Groups, ListGroup(g) PROVE GroupsInv'
  BY <1>0, <1>8 DEF ListGroup, GroupsInv, CommitsRegrouped, GroupsAsUploaded
<1> QED
  BY <1>0, <1>1, <1>2, <1>3, <1>4, <1>5, <1>6, <1>7, <1>8, GroupsInvReplace, GroupsInvCommit DEF Next

\* Stored sessions have exactly the children of the upload they come from.
THEOREM GroupsKept == Spec => []GroupsAsUploaded
<1>1. Init => GroupsInv
  BY TypeOKInitially DEF Init, GroupsInv, CommitsRegrouped, GroupsAsUploaded, Idle, Between
<1>2. GroupsInv => GroupsAsUploaded
  BY DEF GroupsInv
<1> QED
  BY <1>1, <1>2, GroupsInvKept, PTL DEF Spec

-----------------------------------------------------------------------------
\* The valid entries that a request has passed are committed.
Passes(st, done) ==
    st.phase # "idle" =>
        \A k \in Pending(st.batch, 0) :
            st.phase = "reply" \/ k < st.at => EntriesOf[st.batch][k] \in done

AnswerInv ==
    /\ TypeOK
    /\ AnsweredBatchStored
    /\ \A r \in Requests : Passes(request[r], committed)

\* Steps that commit and answer nothing.
LEMMA NothingPassed ==
  ASSUME AnswerInv, TypeOK', NEW r \in Requests, NEW st, Goto(r, st), Passes(st, committed),
         committed' = committed, replied' = replied
  PROVE  AnswerInv'
<1>1. request'[r] = st /\ \A q \in Requests : q # r => request'[q] = request[q]
  BY Moved DEF AnswerInv
<1>2. \A q \in Requests : Passes(request'[q], committed')
  BY <1>1 DEF AnswerInv
<1> QED
  BY <1>2 DEF AnswerInv, AnsweredBatchStored

LEMMA PendingNumbers ==
  ASSUME NEW b \in Batches, NEW n \in Nat
  PROVE  Pending(b, n) = {k \in Pending(b, 0) : k > n} /\ Pending(b, 0) \subseteq Nat
<1>1. \A k \in DOMAIN EntriesOf[b] : k \in Nat /\ k > 0
  BY EntriesAssumption
<1> QED
  BY <1>1 DEF Pending

\* The loop skips entries that validation rejects and no others.
LEMMA ResumePasses ==
  ASSUME NEW r \in Requests, NEW b \in Batches, NEW n \in Nat, NEW done, Resume(r, b, n),
         \A k \in Pending(b, 0) : k <= n => EntriesOf[b][k] \in done
  PROVE  \E st : Goto(r, st) /\ Passes(st, done)
<1>1. CASE Pending(b, n) = {} /\ Goto(r, Between("reply", b, 0))
  <2>1. \A k \in Pending(b, 0) : k <= n
    BY <1>1, PendingNumbers
  <2>2. Passes(Between("reply", b, 0), done)
    BY <2>1 DEF Passes, Between
  <2> QED
    BY <1>1, <2>2
<1>2. ASSUME NEW k \in Pending(b, n), Least(k, Pending(b, n)), Goto(r, Between("lookup", b, k))
      PROVE  \E st : Goto(r, st) /\ Passes(st, done)
  <2>1. \A j \in Pending(b, 0) : j < k => j <= n
    BY <1>2, PendingNumbers DEF Least
  <2>2. Passes(Between("lookup", b, k), done)
    BY <2>1 DEF Passes, Between
  <2> QED
    BY <1>2, <2>2
<1> QED
  BY <1>1, <1>2 DEF Resume

LEMMA IdlePasses == \A done : Passes(Idle, done)
  BY DEF Passes, Idle, Between

LEMMA StoringPasses ==
  ASSUME AnswerInv, NEW r \in Requests, NEW ph \in {"write", "replace", "commit"}, NEW i, NEW w,
         request[r].phase \in {"lookup", "write", "replace"}
  PROVE  Passes(Storing(request[r], ph, i, w), committed)
  BY DEF AnswerInv, Passes, Storing

LEMMA AnswerInvCommit ==
  ASSUME AnswerInv, TypeOK', NEW r \in Requests, Commit(r)
  PROVE  AnswerInv'
<1>1. PICK b \in Batches, n \in Nat : b = request[r].batch /\ n = request[r].at
  BY AtEntry DEF Commit, AnswerInv
<1>2. committed' = committed \cup {EntriesOf[b][n]} /\ replied' = replied /\ Resume(r, b, n)
  BY <1>1 DEF Commit, Entry
<1>3. \A k \in Pending(b, 0) : k < n => EntriesOf[b][k] \in committed
  BY <1>1 DEF Commit, AnswerInv, Passes
<1>4. \A k \in Pending(b, 0) : k <= n => EntriesOf[b][k] \in committed'
  BY <1>2, <1>3, PendingNumbers
<1>5. PICK st : Goto(r, st) /\ Passes(st, committed')
  BY <1>2, <1>4, ResumePasses
<1>6. request'[r] = st /\ \A q \in Requests : q # r => request'[q] = request[q]
  BY <1>5, Moved DEF AnswerInv
<1>7. \A q \in Requests : Passes(request'[q], committed')
  BY <1>2, <1>5, <1>6 DEF AnswerInv, Passes
<1> QED
  BY <1>2, <1>7 DEF AnswerInv, AnsweredBatchStored

LEMMA AnswerInvReply ==
  ASSUME AnswerInv, TypeOK', NEW r \in Requests, Reply(r)
  PROVE  AnswerInv'
<1>1. {EntriesOf[request[r].batch][k] : k \in Pending(request[r].batch, 0)} \subseteq committed
  BY DEF Reply, AnswerInv, Passes
<1>2. AnsweredBatchStored'
  BY <1>1 DEF Reply, AnswerInv, AnsweredBatchStored
<1>3. request'[r] = Idle /\ \A q \in Requests : q # r => request'[q] = request[q]
  BY Moved DEF Reply, AnswerInv
<1>4. \A q \in Requests : Passes(request'[q], committed')
  BY <1>3, IdlePasses DEF Reply, AnswerInv
<1> QED
  BY <1>2, <1>4 DEF AnswerInv

LEMMA AnswerInvKept == AnswerInv /\ [Next]_vars => AnswerInv'
<1> SUFFICES ASSUME AnswerInv, [Next]_vars PROVE AnswerInv'
  OBVIOUS
<1>0. TypeOK'
  BY TypeOKKept DEF AnswerInv
<1>1. ASSUME NEW r \in Requests, NEW b \in Batches, Post(r, b) PROVE AnswerInv'
  <2>1. \A k \in Pending(b, 0) : ~(k <= 0)
    BY PendingNumbers
  <2>2. PICK st : Goto(r, st) /\ Passes(st, committed)
    BY <1>1, <2>1, ResumePasses DEF Post
  <2> QED
    BY <1>0, <1>1, <2>2, NothingPassed DEF Post
<1>2. ASSUME NEW r \in Requests, Lookup(r) PROVE AnswerInv'
  BY <1>0, <1>2, StoringPasses, NothingPassed DEF Lookup
<1>3. ASSUME NEW r \in Requests, NEW i \in Ids, Insert(r, i) PROVE AnswerInv'
  BY <1>0, <1>3, StoringPasses, IdlePasses, NothingPassed DEF Insert, Refused
<1>4. ASSUME NEW r \in Requests, Update(r) PROVE AnswerInv'
  BY <1>0, <1>4, StoringPasses, IdlePasses, NothingPassed DEF Update, Refused
<1>5. ASSUME NEW r \in Requests, Replace(r) PROVE AnswerInv'
  BY <1>0, <1>5, StoringPasses, NothingPassed DEF Replace
<1>6. ASSUME NEW r \in Requests, Abandon(r) PROVE AnswerInv'
  BY <1>0, <1>6, IdlePasses, NothingPassed DEF Abandon
<1>7. CASE BeginList \/ UNCHANGED vars
  BY <1>0, <1>7 DEF BeginList, vars, AnswerInv, AnsweredBatchStored
<1>8. ASSUME NEW g \in Groups, ListGroup(g) PROVE AnswerInv'
  BY <1>0, <1>8 DEF ListGroup, AnswerInv, AnsweredBatchStored
<1>9. ASSUME NEW i \in Ids, DeleteSession(i) PROVE AnswerInv'
  BY <1>0, <1>9 DEF DeleteSession, AnswerInv, AnsweredBatchStored
<1> QED
  BY <1>0, <1>1, <1>2, <1>3, <1>4, <1>5, <1>6, <1>7, <1>8, <1>9, AnswerInvCommit,
     AnswerInvReply DEF Next

\* An answer never covers a valid entry that was not committed.
THEOREM AnswersKept == Spec => []AnsweredBatchStored
<1>1. Init => AnswerInv
  BY TypeOKInitially, IdlePasses DEF Init, AnswerInv, AnsweredBatchStored
<1>2. AnswerInv => AnsweredBatchStored
  BY DEF AnswerInv
<1> QED
  BY <1>1, <1>2, AnswerInvKept, PTL DEF Spec

-----------------------------------------------------------------------------
\* An edit of a listed session that is not earlier than what the listing saw.
NotBehind(w, p) == w.edit >= p.edit /\ (w.edit = p.edit => w.by = p.by)

\* A session that is in the listing was stored: its id is never given again, so
\* whatever is stored under it, or about to be, is a later edit of it.
ListedGoOn ==
    \A i \in Ids : list.parents[i] # None =>
        /\ i \in used
        /\ row[i] # None => NotBehind(row[i], list.parents[i])
        /\ \A r \in Requests : Works(r) /\ request[r].id = i => row[i] # None

\* The child tables are queried once each.
FoundOnce == \A x \in list.found : x.group \notin list.todo

ListInv == RowsInv /\ GroupsInv /\ ListedGoOn /\ FoundOnce /\ ListNotBehind

\* What a listing notes of a session, and what it finds of its children.
LEMMA NotedEdit ==
  ASSUME NEW w \in Row, NEW s, s = [by |-> w.by, edit |-> w.edit]
  PROVE  NotBehind(w, s) /\ \A p : NotBehind(w, p) => NotBehind(s, p)
<1>1. s.by = w.by /\ s.edit = w.edit /\ w.edit \in Nat
  BY DEF Row
<1> QED
  BY <1>1 DEF NotBehind

\* Steps outside the listing.
LEMMA ListUntouched ==
  ASSUME ListInv, RowsInv', GroupsInv', ListedGoOn', list' = list
  PROVE  ListInv'
  BY DEF ListInv, FoundOnce, ListNotBehind

\* Steps that change no row and open no transaction.
LEMMA NothingOpened ==
  ASSUME ListInv, RowsInv', GroupsInv', NEW r \in Requests, NEW st, Goto(r, st),
         st.work # None => request[r].work # None /\ st.id = request[r].id,
         row' = row, used' = used, list' = list
  PROVE  ListInv'
<1>1. request'[r] = st /\ \A q \in Requests : q # r => request'[q] = request[q]
  BY Moved DEF ListInv, RowsInv
<1>2. ListedGoOn'
  BY <1>1 DEF ListInv, ListedGoOn, Works
<1> QED
  BY <1>2, ListUntouched

LEMMA ListInvInsert ==
  ASSUME ListInv, RowsInv', GroupsInv', NEW r \in Requests, NEW i \in Ids, Insert(r, i)
  PROVE  ListInv'
<1>1. CASE KeyTaken(ClientOf[Entry(r)])
  BY <1>1, NothingOpened, BetweenHoldsNothing DEF Insert, Refused, Idle
<1>2. CASE ~KeyTaken(ClientOf[Entry(r)])
  <2>1. /\ i \notin used /\ used \subseteq used' /\ row' = row /\ list' = list
        /\ Goto(r, Storing(request[r], "replace", i, Fresh(Entry(r))))
    BY <1>2 DEF Insert
  <2>2. request'[r].id = i /\ \A q \in Requests : q # r => request'[q] = request[q]
    BY <2>1, Moved DEF ListInv, RowsInv, Storing
  <2>3. ListedGoOn'
    BY <2>1, <2>2 DEF ListInv, ListedGoOn, Works
  <2> QED
    BY <2>1, <2>3, ListUntouched
<1> QED
  BY <1>1, <1>2

LEMMA ListInvUpdate ==
  ASSUME ListInv, RowsInv', GroupsInv', NEW r \in Requests, Update(r)
  PROVE  ListInv'
<1>1. CASE row[request[r].id] = None
  BY <1>1, NothingOpened, BetweenHoldsNothing DEF Update, Refused, Idle
<1>2. CASE row[request[r].id] # None
  <2>1. PICK i : i = request[r].id /\ row[i] # None
    BY <1>2
  <2>2. Goto(r, Storing(request[r], "replace", i, Rewritten(row[i], Entry(r))))
    BY <2>1 DEF Update
  <2>3. request'[r].id = i /\ \A q \in Requests : q # r => request'[q] = request[q]
    BY <2>2, Moved DEF ListInv, RowsInv, Storing
  <2>4. row' = row /\ used' = used /\ list' = list
    BY DEF Update
  <2>5. ListedGoOn'
    BY <2>1, <2>3, <2>4 DEF ListInv, ListedGoOn, Works
  <2> QED
    BY <2>4, <2>5, ListUntouched
<1> QED
  BY <1>1, <1>2

LEMMA ListInvReplace ==
  ASSUME ListInv, RowsInv', GroupsInv', NEW r \in Requests, Replace(r)
  PROVE  ListInv'
<1>1. request[r].work # None
  BY DEF Replace, ListInv, RowsInv, TypeOK, WellFormed
<1>2. PICK st : Goto(r, st) /\ st.id = request[r].id
  BY DEF Replace, Storing
<1> QED
  BY <1>1, <1>2, NothingOpened DEF Replace

LEMMA ListInvCommit ==
  ASSUME ListInv, RowsInv', GroupsInv', NEW r \in Requests, Commit(r)
  PROVE  ListInv'
<1>1. PICK i \in Ids, w \in Row : i = request[r].id /\ w = request[r].work /\ Works(r)
  BY NoneAssumption DEF Commit, ListInv, RowsInv, TypeOK, WellFormed, Request, Works
<1>2. /\ row'[i] = w /\ w # None
      /\ \A j \in Ids : j # i => row'[j] = row[j]
      /\ used' = used /\ list' = list
  BY <1>1, NoneAssumption DEF Commit, ListInv, RowsInv, TypeOK
<1>3. PICK st : Goto(r, st) /\ st.work = None
  BY ResumeLetsGo DEF Commit
<1>4. request'[r] = st /\ \A q \in Requests : q # r => request'[q] = request[q]
  BY <1>3, Moved DEF ListInv, RowsInv
<1>5. list.parents[i] # None => NotBehind(w, list.parents[i])
  <2> SUFFICES ASSUME list.parents[i] # None PROVE NotBehind(w, list.parents[i])
    OBVIOUS
  <2>1. row[i] # None /\ NotBehind(row[i], list.parents[i])
    BY <1>1 DEF ListInv, ListedGoOn
  <2>2. w.edit = row[i].edit + 1
    BY <1>1, <2>1 DEF ListInv, RowsInv, WorkersOwn
  <2>3. list.parents[i].edit \in Nat /\ row[i].edit \in Nat
    BY <2>1 DEF ListInv, RowsInv, TypeOK, Listing, Stamp, Row
  <2> QED
    BY <2>1, <2>2, <2>3 DEF NotBehind
<1>6. ListedGoOn'
  BY <1>2, <1>3, <1>4, <1>5 DEF ListInv, ListedGoOn, Works
<1> QED
  BY <1>2, <1>6, ListUntouched

LEMMA ListInvDelete ==
  ASSUME ListInv, RowsInv', GroupsInv', NEW i \in Ids, DeleteSession(i)
  PROVE  ListInv'
<1>1. /\ row'[i] = None /\ \A j \in Ids : j # i => row'[j] = row[j]
      /\ used' = used /\ request' = request /\ list' = list
      /\ \A r \in Requests : Works(r) => request[r].id # i
  BY DEF DeleteSession, ListInv, RowsInv, TypeOK, Works
<1>2. ListedGoOn'
  BY <1>1 DEF ListInv, ListedGoOn, Works
<1> QED
  BY <1>1, <1>2, ListUntouched

LEMMA ListInvBegin ==
  ASSUME ListInv, RowsInv', GroupsInv', BeginList
  PROVE  ListInv'
<1>1. /\ \A i \in Ids : list'.parents[i] # None =>
           row[i] # None /\ list'.parents[i] = [by |-> row[i].by, edit |-> row[i].edit]
      /\ list'.found = {} /\ row' = row /\ used' = used /\ request' = request
  BY DEF BeginList
<1>2. \A i \in Ids : row[i] # None => i \in used /\ row[i] \in Row
  BY DEF ListInv, RowsInv, IdsUsed, TypeOK
<1>3. ASSUME NEW i \in Ids, list'.parents[i] # None
      PROVE  i \in used /\ row[i] # None /\ NotBehind(row[i], list'.parents[i])
  BY <1>1, <1>2, <1>3, NotedEdit
<1>4. ListedGoOn'
  BY <1>1, <1>3 DEF ListedGoOn
<1> QED
  BY <1>1, <1>4 DEF ListInv, FoundOnce, ListNotBehind

LEMMA ListInvGroup ==
  ASSUME ListInv, RowsInv', GroupsInv', NEW g \in Groups, ListGroup(g)
  PROVE  ListInv'
<1>1. /\ list'.parents = list.parents /\ list'.found = list.found \cup Children(g)
      /\ list'.todo = list.todo \ {g} /\ g \in list.todo
      /\ row' = row /\ used' = used /\ request' = request
  BY DEF ListGroup
<1>2. \A x \in list.found : x.group # g
  BY <1>1 DEF ListInv, FoundOnce
<1>3. \A x \in Children(g) :
        /\ x.group = g /\ x.id \in Ids /\ list.parents[x.id] # None /\ row[x.id] # None
        /\ x.stamp \in row[x.id].groups[g]
  BY DEF Children
<1>4. \A x \in Children(g) : x.stamp = [by |-> row[x.id].by, edit |-> row[x.id].edit]
  <2> SUFFICES ASSUME NEW x \in Children(g), NEW i, NEW s, i = x.id, s = x.stamp
               PROVE  s = [by |-> row[i].by, edit |-> row[i].edit]
    OBVIOUS
  <2>1. i \in Ids /\ row[i] # None /\ s \in row[i].groups[g]
    BY <1>3
  <2>2. row[i].groups[g] = IF g \in GroupsOf[row[i].by]
                             THEN {[by |-> row[i].by, edit |-> row[i].edit]} ELSE {}
    BY <2>1 DEF ListInv, GroupsInv, GroupsAsUploaded
  <2>3. row[i].groups[g] \subseteq {[by |-> row[i].by, edit |-> row[i].edit]}
    BY <2>2
  <2> QED
    BY <2>1, <2>3
<1>5. \A x \in Children(g) : NotBehind(x.stamp, list.parents[x.id])
  <2> SUFFICES ASSUME NEW x \in Children(g), NEW i, NEW s, i = x.id, s = x.stamp
               PROVE  NotBehind(s, list.parents[i])
    OBVIOUS
  <2>1. i \in Ids /\ row[i] # None /\ NotBehind(row[i], list.parents[i])
    BY <1>3 DEF ListInv, ListedGoOn
  <2>2. row[i] \in Row
    BY <2>1 DEF ListInv, RowsInv, TypeOK
  <2>3. s = [by |-> row[i].by, edit |-> row[i].edit]
    BY <1>4
  <2> QED
    BY <2>1, <2>2, <2>3, NotedEdit
<1>6. ListNotBehind'
  <2>1. \A x \in list'.found : NotBehind(x.stamp, list.parents[x.id])
    BY <1>1, <1>5 DEF ListInv, ListNotBehind, NotBehind
  <2>2. \A x, y \in list'.found : y.id = x.id /\ y.group = x.group => y.stamp = x.stamp
    BY <1>1, <1>2, <1>3, <1>4 DEF ListInv, ListNotBehind
  <2> QED
    BY <1>1, <2>1, <2>2 DEF ListNotBehind, NotBehind
<1>7. FoundOnce'
  BY <1>1, <1>3 DEF ListInv, FoundOnce
<1>8. ListedGoOn'
  BY <1>1 DEF ListInv, ListedGoOn, Works
<1> QED
  BY <1>6, <1>7, <1>8 DEF ListInv

LEMMA ListInvKept == ListInv /\ [Next]_vars => ListInv'
<1> SUFFICES ASSUME ListInv, [Next]_vars PROVE ListInv'
  OBVIOUS
<1>0. RowsInv' /\ GroupsInv'
  BY RowsInvKept, GroupsInvKept DEF ListInv
<1>1. ASSUME NEW r \in Requests, NEW b \in Batches, Post(r, b) PROVE ListInv'
  BY <1>0, <1>1, ResumeLetsGo, NothingOpened DEF Post
<1>2. ASSUME NEW r \in Requests, Lookup(r) PROVE ListInv'
  <2>1. \A i : Storing(request[r], "write", i, None).work = None
    BY DEF Storing
  <2> QED
    BY <1>0, <1>2, <2>1, NothingOpened DEF Lookup
<1>3. ASSUME NEW r \in Requests, Reply(r) \/ Abandon(r) PROVE ListInv'
  BY <1>0, <1>3, BetweenHoldsNothing, NothingOpened DEF Reply, Abandon, Idle
<1>4. CASE UNCHANGED vars
  BY <1>0, <1>4 DEF vars, ListInv, ListedGoOn, Works, FoundOnce, ListNotBehind
<1> QED
  BY <1>0, <1>1, <1>2, <1>3, <1>4, ListInvInsert, ListInvUpdate, ListInvReplace,
     ListInvCommit, ListInvDelete, ListInvBegin, ListInvGroup DEF Next

\* A listing shows no children older than the session they are shown under.
THEOREM ListingKept == Spec => []ListNotBehind
<1>1. Init => ListInv
  <2> SUFFICES ASSUME Init PROVE ListInv
    OBVIOUS
  <2>1. list = NoList /\ \A i \in Ids : NoList.parents[i] = None
    BY DEF Init, NoList
  <2>2. GroupsInv
    BY TypeOKInitially DEF Init, GroupsInv, CommitsRegrouped, GroupsAsUploaded, Idle, Between
  <2> QED
    BY <2>1, <2>2, RowsInvInitially DEF ListInv, ListedGoOn, FoundOnce, ListNotBehind, NoList
<1>2. ListInv => ListNotBehind
  BY DEF ListInv
<1> QED
  BY <1>1, <1>2, ListInvKept, PTL DEF Spec

-----------------------------------------------------------------------------
\* A request is at an entry that validation lets through, and what it has
\* written is that entry.
HeldRightly(st) ==
    /\ st.phase \in {"lookup", "write", "replace", "commit"} => EntriesOf[st.batch][st.at] \in Safe
    /\ st.work # None =>
         /\ st.work.by = EntriesOf[st.batch][st.at]
         /\ st.work.client = ClientOf[EntriesOf[st.batch][st.at]]

\* An open transaction that rewrites no row is about to store a first edit.
FirstEdit(st) == st.work # None /\ row[st.id] = None => st.work.edit = 1

EntriesHeld == \A r \in Requests : HeldRightly(request[r]) /\ FirstEdit(request[r])

HeldInv == RowsInv /\ EntriesHeld

\* Steps that change no row.
LEMMA RequestHolds ==
  ASSUME HeldInv, RowsInv', NEW r \in Requests, NEW st, Goto(r, st), HeldRightly(st),
         FirstEdit(st), row' = row
  PROVE  HeldInv'
<1>1. request'[r] = st /\ \A q \in Requests : q # r => request'[q] = request[q]
  BY Moved DEF HeldInv, RowsInv
<1>2. \A q \in Requests : HeldRightly(request'[q]) /\ FirstEdit(request'[q])
  BY <1>1 DEF HeldInv, EntriesHeld
<1> QED
  BY <1>2 DEF HeldInv, EntriesHeld, HeldRightly, FirstEdit

LEMMA IdleHolds == HeldRightly(Idle) /\ FirstEdit(Idle)
  BY DEF HeldRightly, FirstEdit, Idle, Between

\* The loop stops at valid entries only.
LEMMA ResumeHolds ==
  ASSUME NEW r \in Requests, NEW b, NEW n, Resume(r, b, n)
  PROVE  \E st : Goto(r, st) /\ HeldRightly(st) /\ st.work = None
<1>1. CASE Goto(r, Between("reply", b, 0))
  <2>1. HeldRightly(Between("reply", b, 0)) /\ Between("reply", b, 0).work = None
    BY DEF HeldRightly, Between
  <2> QED
    BY <1>1, <2>1
<1>2. CASE \E k \in Pending(b, n) : Goto(r, Between("lookup", b, k))
  <2>1. PICK k \in Pending(b, n) : Goto(r, Between("lookup", b, k))
    BY <1>2
  <2>2. EntriesOf[b][k] \in Safe
    BY DEF Pending
  <2>3. HeldRightly(Between("lookup", b, k)) /\ Between("lookup", b, k).work = None
    BY <2>2 DEF HeldRightly, Between
  <2> QED
    BY <2>1, <2>3
<1> QED
  BY <1>1, <1>2 DEF Resume

\* A request that goes on with the entry it is at.
LEMMA StoringHolds ==
  ASSUME HeldInv, NEW r \in Requests, request[r].phase \in {"lookup", "write", "replace", "commit"},
         NEW ph, NEW i, NEW w,
         w # None => w.by = Entry(r) /\ w.client = ClientOf[Entry(r)],
         w # None /\ row[i] = None => w.edit = 1
  PROVE  HeldRightly(Storing(request[r], ph, i, w)) /\ FirstEdit(Storing(request[r], ph, i, w))
<1>1. Entry(r) \in Safe
  BY DEF HeldInv, EntriesHeld, HeldRightly, Entry
<1> QED
  BY <1>1 DEF HeldRightly, FirstEdit, Storing, Entry

LEMMA HeldInvInsert ==
  ASSUME HeldInv, RowsInv', NEW r \in Requests, NEW i \in Ids, Insert(r, i)
  PROVE  HeldInv'
<1>1. CASE KeyTaken(ClientOf[Entry(r)])
  BY <1>1, IdleHolds, RequestHolds DEF Insert, Refused
<1>2. CASE ~KeyTaken(ClientOf[Entry(r)])
  <2> DEFINE w == Fresh(Entry(r))
  <2>1. w.by = Entry(r) /\ w.client = ClientOf[Entry(r)] /\ w.edit = 1
    BY DEF Fresh
  <2>2. Goto(r, Storing(request[r], "replace", i, w)) /\ row' = row /\ request[r].phase = "write"
    BY <1>2 DEF Insert
  <2> HIDE DEF w
  <2> QED
    BY <2>1, <2>2, StoringHolds, RequestHolds
<1> QED
  BY <1>1, <1>2

LEMMA HeldInvUpdate ==
  ASSUME HeldInv, RowsInv', NEW r \in Requests, Update(r)
  PROVE  HeldInv'
<1>1. CASE row[request[r].id] = None
  BY <1>1, IdleHolds, RequestHolds DEF Update, Refused
<1>2. CASE row[request[r].id] # None
  <2> DEFINE i == request[r].id
             w == Rewritten(row[i], Entry(r))
  <2>1. row[i].client = ClientOf[Entry(r)]
    BY <1>2 DEF Update, HeldInv, RowsInv, FindersRight, Finder
  <2>2. w.by = Entry(r) /\ w.client = ClientOf[Entry(r)]
    BY <2>1 DEF Rewritten
  <2>3. Goto(r, Storing(request[r], "replace", i, w)) /\ row' = row /\ request[r].phase = "write"
    BY <1>2 DEF Update
  <2> HIDE DEF w
  <2> QED
    BY <1>2, <2>2, <2>3, StoringHolds, RequestHolds
<1> QED
  BY <1>1, <1>2

LEMMA HeldInvReplace ==
  ASSUME HeldInv, RowsInv', NEW r \in Requests, Replace(r)
  PROVE  HeldInv'
<1> DEFINE i == request[r].id
           old == request[r].work
           w == WithGroups(old, ReplacedGroups(old))
<1>1. old # None
  BY DEF Replace, HeldInv, RowsInv, TypeOK, WellFormed
<1>2. /\ old.by = Entry(r) /\ old.client = ClientOf[Entry(r)]
      /\ row[i] = None => old.edit = 1
  BY <1>1 DEF HeldInv, EntriesHeld, HeldRightly, FirstEdit, Entry
<1>3. w.by = old.by /\ w.client = old.client /\ w.edit = old.edit
  BY DEF WithGroups
<1>4. Goto(r, Storing(request[r], "commit", i, w)) /\ row' = row /\ request[r].phase = "replace"
  BY DEF Replace
<1> HIDE DEF w, old, i
<1> QED
  BY <1>2, <1>3, <1>4, StoringHolds, RequestHolds

LEMMA HeldInvCommit ==
  ASSUME HeldInv, RowsInv', NEW r \in Requests, Commit(r)
  PROVE  HeldInv'
<1>1. PICK i \in Ids, w \in Row : i = request[r].id /\ w = request[r].work /\ Works(r)
  BY NoneAssumption DEF Commit, HeldInv, RowsInv, TypeOK, WellFormed, Request, Works
<1>2. row'[i] # None /\ \A j \in Ids : j # i => row'[j] = row[j]
  BY <1>1, NoneAssumption DEF Commit, HeldInv, RowsInv, TypeOK
<1>3. PICK st : Goto(r, st) /\ HeldRightly(st) /\ st.work = None
  BY ResumeHolds DEF Commit
<1>4. request'[r] = st /\ \A q \in Requests : q # r => request'[q] = request[q]
  BY <1>3, Moved DEF HeldInv, RowsInv
<1>5. \A q \in Requests : HeldRightly(request'[q])
  BY <1>3, <1>4 DEF HeldInv, EntriesHeld
<1>6. \A q \in Requests : FirstEdit(request[q])
  BY DEF HeldInv, EntriesHeld
<1>7. \A q \in Requests : request[q].work # None => request[q].id \in Ids
  BY DEF HeldInv, RowsInv, TypeOK, WellFormed
<1>8. \A q \in Requests : FirstEdit(request[q])'
  BY <1>2, <1>3, <1>4, <1>6, <1>7 DEF FirstEdit
<1> QED
  BY <1>5, <1>8 DEF HeldInv, EntriesHeld, HeldRightly

LEMMA HeldInvDelete ==
  ASSUME HeldInv, RowsInv', NEW i \in Ids, DeleteSession(i)
  PROVE  HeldInv'
<1>1. /\ \A j \in Ids : j # i => row'[j] = row[j]
      /\ request' = request
      /\ \A r \in Requests : request[r].work # None => request[r].id # i /\ request[r].id \in Ids
  BY DEF DeleteSession, HeldInv, RowsInv, TypeOK, WellFormed
<1> QED
  BY <1>1 DEF HeldInv, EntriesHeld, HeldRightly, FirstEdit

LEMMA HeldInvKept == HeldInv /\ [Next]_vars => HeldInv'
<1> SUFFICES ASSUME HeldInv, [Next]_vars PROVE HeldInv'
  OBVIOUS
<1>0. RowsInv'
  BY RowsInvKept DEF HeldInv
<1>1. ASSUME NEW r \in Requests, NEW b \in Batches, Post(r, b) PROVE HeldInv'
  <2>1. PICK st : Goto(r, st) /\ HeldRightly(st) /\ st.work = None
    BY <1>1, ResumeHolds DEF Post
  <2>2. FirstEdit(st)
    BY <2>1 DEF FirstEdit
  <2> QED
    BY <1>0, <1>1, <2>1, <2>2, RequestHolds DEF Post
<1>2. ASSUME NEW r \in Requests, Lookup(r) PROVE HeldInv'
  <2>1. PICK i : Goto(r, Storing(request[r], "write", i, None))
    BY <1>2 DEF Lookup
  <2>2. /\ HeldRightly(Storing(request[r], "write", i, None))
        /\ FirstEdit(Storing(request[r], "write", i, None))
    BY <1>2, StoringHolds DEF Lookup
  <2> QED
    BY <1>0, <1>2, <2>1, <2>2, RequestHolds DEF Lookup
<1>3. ASSUME NEW r \in Requests, Reply(r) \/ Abandon(r) PROVE HeldInv'
  BY <1>0, <1>3, IdleHolds, RequestHolds DEF Reply, Abandon
<1>4. CASE BeginList \/ UNCHANGED vars
  BY <1>0, <1>4 DEF BeginList, vars, HeldInv, EntriesHeld, HeldRightly, FirstEdit
<1>5. ASSUME NEW g \in Groups, ListGroup(g) PROVE HeldInv'
  BY <1>0, <1>5 DEF ListGroup, HeldInv, EntriesHeld, HeldRightly, FirstEdit
<1> QED
  BY <1>0, <1>1, <1>2, <1>3, <1>4, <1>5, HeldInvInsert, HeldInvUpdate, HeldInvReplace,
     HeldInvCommit, HeldInvDelete DEF Next

-----------------------------------------------------------------------------
\* Rows that nobody touches give the same table.
LEMMA SameTable ==
  ASSUME row' = row
  PROVE  [c \in Clients |-> SessionsOf(c)]' = [c \in Clients |-> SessionsOf(c)]
  BY DEF SessionsOf, Stored

LEMMA StillStanding ==
  ASSUME row' = row, UNCHANGED <<committed, replied>>
  PROVE  UNCHANGED Table!vars
  BY SameTable DEF Table!vars

\* A row of the only id of its client is what the table has for the client.
LEMMA OnlySession ==
  ASSUME NEW c \in Clients, NEW i \in Ids, NEW w, row[i] = w, w # None, w.client = c,
         \A j \in Ids : row[j] # None /\ row[j].client = c => j = i
  PROVE  SessionsOf(c) = {[by |-> w.by, edit |-> w.edit, groups |-> w.groups]}
<1>1. Stored(c) = {i}
  BY DEF Stored
<1> QED
  BY <1>1 DEF SessionsOf

\* What a transaction commits is one whole session.
LEMMA WholeSession ==
  ASSUME NEW w \in Row, Regrouped(w)
  PROVE  [by |-> w.by, edit |-> w.edit, groups |-> w.groups] = Table!Session(w.by, w.edit)
<1>1. w.groups \in [Groups -> SUBSET Stamp]
  BY DEF Row
<1>2. w.groups = [g \in Groups |-> IF g \in GroupsOf[w.by] THEN {[by |-> w.by, edit |-> w.edit]}
                                    ELSE {}]
  BY <1>1 DEF Regrouped
<1> QED
  BY <1>2 DEF Table!Session

LEMMA CommitStores ==
  ASSUME HeldInv, RowsInv', GroupsInv, NEW r \in Requests, Commit(r)
  PROVE  Table!Store(Entry(r))
<1>1. PICK i \in Ids, w \in Row : i = request[r].id /\ w = request[r].work /\ Works(r)
  BY NoneAssumption DEF Commit, HeldInv, RowsInv, TypeOK, WellFormed, Request, Works
<1>2. /\ row'[i] = w /\ w # None
      /\ \A j \in Ids : j # i => row'[j] = row[j]
  BY <1>1, NoneAssumption DEF Commit, HeldInv, RowsInv, TypeOK
<1>3. PICK e \in Entries, c \in Clients :
        e = Entry(r) /\ c = ClientOf[e] /\ e \in Safe /\ w.by = e /\ w.client = c
  BY <1>1, AtEntry, EntriesAssumption
     DEF Commit, HeldInv, RowsInv, EntriesHeld, HeldRightly, Works, Entry
<1>4. \A j \in Ids : row[j] # None /\ row[j].client = c => j = i
  BY <1>1, <1>3 DEF HeldInv, RowsInv, WorkersOwn
<1>5. \A j \in Ids : row'[j] # None /\ row'[j].client = c => j = i
  BY <1>2, <1>4
<1>6. w.edit \in Table!NextEdit(c)
  <2>1. CASE row[i] = None
    <3>1. w.edit = 1
      BY <1>1, <2>1 DEF HeldInv, EntriesHeld, FirstEdit, Works
    <3>2. SessionsOf(c) = {}
      BY <1>4, <2>1 DEF SessionsOf, Stored
    <3> QED
      BY <3>1, <3>2 DEF Table!NextEdit
  <2>2. CASE row[i] # None
    <3>1. row[i].client = c /\ w.edit = row[i].edit + 1
      BY <1>1, <1>3, <2>2 DEF HeldInv, RowsInv, WorkersOwn
    <3>2. SessionsOf(c) = {[by |-> row[i].by, edit |-> row[i].edit, groups |-> row[i].groups]}
      BY <1>4, <2>2, <3>1, OnlySession
    <3> QED
      BY <3>1, <3>2 DEF Table!NextEdit
  <2> QED
    BY <2>1, <2>2
<1>7. SessionsOf(c)' = {Table!Session(e, w.edit)}
  <2>1. Regrouped(w)
    BY <1>1 DEF Commit, GroupsInv, CommitsRegrouped
  <2>2. Stored(c)' = {i}
    BY <1>2, <1>3, <1>5 DEF Stored
  <2>3. SessionsOf(c)' = {[by |-> w.by, edit |-> w.edit, groups |-> w.groups]}
    BY <1>2, <2>2 DEF SessionsOf
  <2> QED
    BY <1>3, <2>1, <2>3, WholeSession
<1>8. \A d \in Clients : d # c => SessionsOf(d)' = SessionsOf(d)
  <2> SUFFICES ASSUME NEW d \in Clients, d # c PROVE SessionsOf(d)' = SessionsOf(d)
    OBVIOUS
  <2>1. row[i] # None => row[i].client = c
    BY <1>1, <1>3 DEF HeldInv, RowsInv, WorkersOwn
  <2>2. i \notin Stored(d) /\ i \notin Stored(d)'
    BY <1>2, <1>3, <2>1 DEF Stored
  <2>3. Stored(d)' = Stored(d) /\ \A j \in Stored(d) : row'[j] = row[j]
    BY <1>2, <2>2 DEF Stored
  <2> QED
    BY <2>3 DEF SessionsOf
<1>9. [d \in Clients |-> SessionsOf(d)]' =
        [[d \in Clients |-> SessionsOf(d)] EXCEPT ![c] = {Table!Session(e, w.edit)}]
  BY <1>7, <1>8
<1> QED
  BY <1>3, <1>6, <1>9 DEF Table!Store, Commit

LEMMA DeletionRemoves ==
  ASSUME HeldInv, NEW i \in Ids, DeleteSession(i)
  PROVE  \E c \in Clients : Table!Remove(c)
<1>1. /\ row[i] # None /\ row'[i] = None
      /\ \A j \in Ids : j # i => row'[j] = row[j]
  BY DEF DeleteSession, HeldInv, RowsInv, TypeOK
<1>2. PICK c \in Clients : c = row[i].client
  BY <1>1 DEF HeldInv, RowsInv, TypeOK, Row
<1>3. \A j \in Ids : row[j] # None /\ row[j].client = c => j = i
  BY <1>1, <1>2 DEF HeldInv, RowsInv, OneRowPerClientSession
<1>4. SessionsOf(c) # {}
  BY <1>1, <1>2 DEF SessionsOf, Stored
<1>5. SessionsOf(c)' = {}
  BY <1>1, <1>3 DEF SessionsOf, Stored
<1>6. \A d \in Clients : d # c => SessionsOf(d)' = SessionsOf(d)
  <2> SUFFICES ASSUME NEW d \in Clients, d # c PROVE SessionsOf(d)' = SessionsOf(d)
    OBVIOUS
  <2>1. Stored(d)' = Stored(d) /\ \A j \in Stored(d) : row'[j] = row[j]
    BY <1>1, <1>2 DEF Stored
  <2> QED
    BY <2>1 DEF SessionsOf
<1>7. [d \in Clients |-> SessionsOf(d)]' = [[d \in Clients |-> SessionsOf(d)] EXCEPT ![c] = {}]
  BY <1>5, <1>6
<1> QED
  BY <1>4, <1>7 DEF Table!Remove, DeleteSession

LEMMA ReplyAnswers ==
  ASSUME AnswerInv, NEW r \in Requests, Reply(r)
  PROVE  \E b \in Batches : Table!Answer(b)
<1>1. PICK b \in Batches : b = request[r].batch
  BY DEF Reply, AnswerInv, TypeOK, WellFormed
<1>2. \A k \in Pending(b, 0) : EntriesOf[b][k] \in committed
  BY <1>1 DEF Reply, AnswerInv, Passes
<1>3. \A k \in DOMAIN EntriesOf[b] : EntriesOf[b][k] \in Safe => k \in Pending(b, 0)
  BY EntriesAssumption DEF Pending
<1>4. {EntriesOf[b][k] : k \in DOMAIN EntriesOf[b]} \cap Safe \subseteq committed
  BY <1>2, <1>3
<1>5. replied' = replied \cup {b} /\ row' = row /\ committed' = committed
  BY <1>1 DEF Reply
<1> QED
  BY <1>4, <1>5, SameTable DEF Table!Answer

\* Only commits, deletions and answers are steps of the table.
LEMMA StepKeepsTable ==
  HeldInv /\ GroupsInv /\ AnswerInv /\ [Next]_vars => [Table!Next]_(Table!vars)
<1> SUFFICES ASSUME HeldInv, GroupsInv, AnswerInv, [Next]_vars
             PROVE  [Table!Next]_(Table!vars)
  OBVIOUS
<1>0. RowsInv'
  BY RowsInvKept DEF HeldInv
<1>1. ASSUME NEW r \in Requests, Commit(r) PROVE Table!Next
  <2>1. Entry(r) \in Entries
    BY <1>1, AtEntry DEF Commit, HeldInv, RowsInv
  <2> QED
    BY <1>0, <1>1, <2>1, CommitStores DEF Table!Next
<1>2. ASSUME NEW i \in Ids, DeleteSession(i) PROVE Table!Next
  BY <1>2, DeletionRemoves DEF Table!Next
<1>3. ASSUME NEW r \in Requests, Reply(r) PROVE Table!Next
  BY <1>3, ReplyAnswers DEF Table!Next
<1>4. ASSUME NEW r \in Requests, NEW b \in Batches, Post(r, b) PROVE UNCHANGED Table!vars
  BY <1>4, StillStanding DEF Post
<1>5. ASSUME NEW r \in Requests, NEW i \in Ids, Insert(r, i) PROVE UNCHANGED Table!vars
  BY <1>5, StillStanding DEF Insert
<1>6. ASSUME NEW r \in Requests, Lookup(r) \/ Update(r) \/ Replace(r) \/ Abandon(r)
      PROVE  UNCHANGED Table!vars
  BY <1>6, StillStanding DEF Lookup, Update, Replace, Abandon
<1>7. CASE BeginList \/ UNCHANGED vars
  BY <1>7, StillStanding DEF BeginList, vars
<1>8. ASSUME NEW g \in Groups, ListGroup(g) PROVE UNCHANGED Table!vars
  BY <1>8, StillStanding DEF ListGroup
<1> QED
  BY <1>1, <1>2, <1>3, <1>4, <1>5, <1>6, <1>7, <1>8 DEF Next

\* Transactions, deletions and failures in any order come to a table of whole
\* sessions that is changed one session at a time.
THEOREM BatchesKeepTable == Spec => TableKept
<1>1. Init => Table!Init
  BY DEF Init, Table!Init, SessionsOf, Stored
<1>2. Init => HeldInv /\ GroupsInv /\ AnswerInv
  <2> SUFFICES ASSUME Init PROVE HeldInv /\ GroupsInv /\ AnswerInv
    OBVIOUS
  <2>1. HeldInv
    BY RowsInvInitially, IdleHolds DEF Init, HeldInv, EntriesHeld
  <2>2. GroupsInv
    BY TypeOKInitially DEF Init, GroupsInv, CommitsRegrouped, GroupsAsUploaded, Idle, Between
  <2>3. AnswerInv
    BY TypeOKInitially, IdlePasses DEF Init, AnswerInv, AnsweredBatchStored
  <2> QED
    BY <2>1, <2>2, <2>3
<1> QED
  BY <1>1, <1>2, StepKeepsTable, HeldInvKept, GroupsInvKept, AnswerInvKept, PTL
     DEF Spec, TableKept, Table!Spec
=============================================================================
