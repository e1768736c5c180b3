-------------------------- MODULE SyncPushProofs --------------------------
(***************************************************************************)
(* SyncPush keeps PushContract, for any number of requests, pushes, keys   *)
(* and items.  PushInv says how far a request is from what it has stored,  *)
(* and who may still be told 'ok' for a key.                               *)
(***************************************************************************)
EXTENDS SyncPush, SequenceTheorems, TLAPS

\* A request that is in a phase holds what the phase needs: an index into the
\* items of its push, all items before which it has stored.
Good(st) ==
    /\ st \in Request
    /\ st.phase # "idle" => st.push \in Pushes /\ st.rev # 0
    /\ st.phase \in {"catalogue", "row", "mirror"} => st.done < Len(Items[st.push])
    /\ st.phase = "catalogue" => Items[st.push][st.done + 1] \in Achievements
    /\ st.phase \in {"read", "write", "mirrorProfile"} => st.done = Len(Items[st.push])
    /\ st.phase \notin {"idle", "replay"} =>
         \A i \in 1 .. st.done : Items[st.push][i] \in st.wrote

TypeInv == TypeOK /\ \A r \in Requests : Good(request[r])

\* Pushes that ask for nothing are stored as a whole.
EmptyApplied == \A p \in Pushes : Targets(p) = {} => p \in applied

\* A push that has only its key left to store, or its reply to send, is stored.
DoneApplied ==
    \A r \in Requests :
        /\ request[r].phase \in {"remember", "ok"} => request[r].push \in applied
        /\ request[r].phase \in {"remember", "replay"} => KeyOf[request[r].push] # None

\* A key is recorded for pushes that are stored.
RecordedApplied ==
    \A p \in Pushes : KeyOf[p] # None /\ remembered[KeyOf[p]] # 0 => p \in applied

\* A reply about to be sent carries the recorded revision.
RepliesRecorded ==
    \A r \in Requests :
        request[r].phase \in {"ok", "replay"} /\ KeyOf[request[r].push] # None =>
            remembered[KeyOf[request[r].push]] = request[r].rev

\* One 'ok' for a key: either sent, or about to be sent by one request.
OneOk ==
    /\ \A q, r \in Requests :
         /\ request[q].phase = "ok" /\ request[r].phase = "ok"
         /\ KeyOf[request[q].push] # None
         /\ KeyOf[request[q].push] = KeyOf[request[r].push]
         => q = r
    /\ \A r \in Requests :
         request[r].phase = "ok" /\ KeyOf[request[r].push] # None =>
             accepted[KeyOf[request[r].push]] = 0
    /\ \A k \in Keys : accepted[k] # 0 => remembered[k] # 0

PushInv ==
    /\ TypeInv
    /\ EmptyApplied
    /\ DoneApplied
    /\ RecordedApplied
    /\ RepliesRecorded
    /\ OneOk

-----------------------------------------------------------------------------
\* The larger of two revisions.
LEMMA LargerNat ==
  ASSUME NEW a \in Nat, NEW b \in Nat
  PROVE  /\ Larger(a, b) \in Nat
         /\ a # 0 => Larger(a, b) # 0
  BY DEF Larger

\* The items of a push, and where its loop goes.
LEMMA PhaseAfterRange ==
  ASSUME NEW p \in Pushes, NEW n \in Nat, n <= Len(Items[p])
  PROVE  /\ PhaseAfter(p, n) \in Phase
         /\ Len(Items[p]) \in Nat
         /\ PhaseAfter(p, n) \in {"catalogue", "row"} <=> n # Len(Items[p])
         /\ PhaseAfter(p, n) = "catalogue" => Items[p][n + 1] \in Achievements
         /\ n = Len(Items[p]) => PhaseAfter(p, n) = AfterItems(p)
         /\ AfterItems(p) \in {"read", "remember", "ok"}
         /\ \A i \in 1 .. Len(Items[p]) : Items[p][i] \in Entities
<1>1. Items[p] \in Seq(Entities)
  BY PushesAssumption
<1>2. Len(Items[p]) \in Nat /\ \A i \in 1 .. Len(Items[p]) : Items[p][i] \in Entities
  BY <1>1, ElementOfSeq, LenProperties
<1> QED
  BY <1>2 DEF PhaseAfter, AfterItems, Phase

\* Moving one request on keeps the others as they are.
LEMMA GotoGood ==
  ASSUME TypeInv, NEW r \in Requests, NEW st, Good(st), Goto(r, st)
  PROVE  /\ request' \in [Requests -> Request]
         /\ \A q \in Requests : Good(request'[q])
         /\ \A q \in Requests : request'[q].phase # "idle" => request'[q].push \in Pushes
         /\ request'[r] = st
         /\ \A q \in Requests : q # r => request'[q] = request[q]
<1>1. Good(st) /\ st \in Request
  BY DEF Good
<1>2. request' = [request EXCEPT ![r] = st]
  BY DEF Goto
<1>3. request \in [Requests -> Request] /\ \A q \in Requests : Good(request[q])
  BY DEF TypeInv, TypeOK
<1>4. /\ request' \in [Requests -> Request]
      /\ request'[r] = st
      /\ \A q \in Requests : q # r => request'[q] = request[q]
  BY <1>1, <1>2, <1>3
<1>5. \A q \in Requests : Good(request'[q])
  BY <1>1, <1>3, <1>4
<1> QED
  BY <1>4, <1>5 DEF Good

\* The states that the steps of a push move to.
LEMMA IdleGood == Good(Idle) /\ Idle.phase = "idle"
  BY DEF Good, Idle, Started, Request, Phase

LEMMA StartedGood ==
  ASSUME NEW p \in Pushes, NEW v \in Nat \ {0}
  PROVE  Good(Started("replay", p, v)) /\ Good(Started(PhaseAfter(p, 0), p, v))
<1>1. 0 <= Len(Items[p]) /\ Len(Items[p]) \in Nat
  BY PhaseAfterRange, PushesAssumption, LenProperties
<1>2. /\ PhaseAfter(p, 0) \in Phase
      /\ PhaseAfter(p, 0) \in {"catalogue", "row"} <=> 0 # Len(Items[p])
      /\ PhaseAfter(p, 0) \in {"catalogue", "row", "read", "remember", "ok"}
      /\ PhaseAfter(p, 0) = "catalogue" => Items[p][1] \in Achievements
  BY <1>1, PhaseAfterRange
<1> QED
  BY <1>1, <1>2 DEF Good, Started, Request, Phase

LEMMA HoldingGood ==
  ASSUME NEW st, Good(st), NEW ph, NEW fields \in SUBSET Fields,
         \/ st.phase = "catalogue" /\ ph = "row"
         \/ st.phase = "read" /\ ph = "write"
         \/ st.phase = "write" /\ ph = "mirrorProfile"
         \/ st.phase = "remember" /\ ph = "ok"
  PROVE  Good(Holding(st, ph, fields))
  BY DEF Good, Holding, Request, Phase

LEMMA SavedGood ==
  ASSUME NEW st, Good(st), st.phase = "row", NEW rev \in Nat
  PROVE  Good(Saved(st, rev))
  BY DEF Good, Saved, Request, Phase

LEMMA ItemRange ==
  ASSUME NEW st, Good(st), st.phase \in {"row", "mirror"}
  PROVE  Items[st.push][st.done + 1] \in Entities
<1>1. st.push \in Pushes /\ st.done \in Nat /\ st.done < Len(Items[st.push])
  BY DEF Good, Request
<1>2. Len(Items[st.push]) \in Nat
  BY <1>1, PushesAssumption, LenProperties
<1>3. st.done + 1 \in 1 .. Len(Items[st.push])
  BY <1>1, <1>2
<1> QED
  BY <1>1, <1>2, <1>3, PhaseAfterRange

LEMMA StoredGood ==
  ASSUME NEW st, Good(st), st.phase = "mirror"
  PROVE  LET item == Items[st.push][st.done + 1]
         IN  item \in Entities /\ Good(Stored(st, st.wrote \cup {item}))
<1> DEFINE item == Items[st.push][st.done + 1]
<1>1. st.push \in Pushes /\ st.done \in Nat /\ st.done < Len(Items[st.push])
      /\ st.saved \in Nat /\ st.rev \in Nat /\ st.rev # 0
  BY DEF Good, Request
<1>2. Len(Items[st.push]) \in Nat
  BY <1>1, PhaseAfterRange, PushesAssumption, LenProperties
<1>3. st.done + 1 \in 1 .. Len(Items[st.push]) /\ st.done + 1 \in Nat
  BY <1>1, <1>2
<1>4. item \in Entities
  BY <1>1, <1>3, PhaseAfterRange
<1>5. /\ PhaseAfter(st.push, st.done + 1) \in Phase
      /\ PhaseAfter(st.push, st.done + 1) \in {"catalogue", "row"} <=> st.done + 1 # Len(Items[st.push])
      /\ PhaseAfter(st.push, st.done + 1) \in {"catalogue", "row", "read", "remember", "ok"}
      /\ PhaseAfter(st.push, st.done + 1) = "catalogue" =>
           Items[st.push][st.done + 1 + 1] \in Achievements
  BY <1>1, <1>3, PhaseAfterRange
<1>6. Larger(st.rev, st.saved) \in Nat /\ Larger(st.rev, st.saved) # 0
  BY <1>1, LargerNat
<1>7. \A i \in 1 .. st.done + 1 : Items[st.push][i] \in st.wrote \cup {item}
  BY <1>1 DEF Good
<1> HIDE DEF item
<1>8. Good(Stored(st, st.wrote \cup {item}))
  BY <1>1, <1>2, <1>3, <1>4, <1>5, <1>6, <1>7 DEF Good, Stored, Request
<1> QED
  BY <1>4, <1>8 DEF item

LEMMA FinishedGood ==
  ASSUME NEW st, Good(st), st.phase = "mirrorProfile", NEW rev \in Nat
  PROVE  Good(Finished(st, rev, st.wrote \cup {Profile}))
<1>1. Larger(st.rev, rev) \in Nat /\ Larger(st.rev, rev) # 0
  BY LargerNat DEF Good, Request
<1> QED
  BY <1>1 DEF Good, Finished, Request, Phase

-----------------------------------------------------------------------------
\* Every step keeps the types, and the requests as their phases need them.
LEMMA TypeInvInductive == TypeInv /\ [Next]_vars => TypeInv'
<1> SUFFICES ASSUME TypeInv, [Next]_vars PROVE TypeInv'
  OBVIOUS
<1> DEFINE RequestsOK == request' \in [Requests -> Request] /\ \A q \in Requests : Good(request'[q])
<1>typed. ASSUME RequestsOK, row' \in [Entities -> Nat], deleted' \subseteq Sessions,
                 catalogue' \subseteq Achievements, settings' \subseteq Fields,
                 sync' \in [Entities \cup {Profile} -> Nat], remembered' \in [Keys -> Nat],
                 pull' \in [todo: SUBSET Parts, rev: Nat, floor: Nat, count: Nat],
                 starts' \in [Pushes -> Nat], failures' \in Nat, answered' \subseteq Pushes,
                 applied' \subseteq Pushes, accepted' \in [Keys -> Nat], answers' \subseteq (Keys \X Nat)
          PROVE  TypeInv'
  <2>1. \A q \in Requests : request'[q].phase # "idle" => request'[q].push \in Pushes
    BY <1>typed DEF Good
  <2> QED
    BY <1>typed, <2>1 DEF TypeInv, TypeOK
<1>same. request' = request => RequestsOK
  BY DEF TypeInv, TypeOK
<1>now. /\ row \in [Entities -> Nat] /\ deleted \subseteq Sessions
        /\ catalogue \subseteq Achievements /\ settings \subseteq Fields
        /\ sync \in [Entities \cup {Profile} -> Nat] /\ remembered \in [Keys -> Nat]
        /\ pull \in [todo: SUBSET Parts, rev: Nat, floor: Nat, count: Nat]
        /\ starts \in [Pushes -> Nat] /\ failures \in Nat /\ answered \subseteq Pushes
        /\ applied \subseteq Pushes /\ accepted \in [Keys -> Nat]
        /\ answers \subseteq (Keys \X Nat)
        /\ \A q \in Requests : Good(request[q])
  BY DEF TypeInv, TypeOK
<1>goto. \A r \in Requests : \A st : Good(st) /\ Goto(r, st) => RequestsOK
  BY GotoGood DEF RequestsOK
<1> HIDE DEF RequestsOK
<1>1. ASSUME NEW r \in Requests, NEW p \in Pushes, Push(r, p) PROVE TypeInv'
  <2>1. KeyOf[p] # None => remembered[KeyOf[p]] \in Nat
    BY <1>now, PushesAssumption
  <2>2. RequestsOK
    BY <1>1, <1>goto, <2>1, StartedGood DEF Push
  <2> QED
    BY <1>typed, <1>now, <1>1, <2>2 DEF Push, tables, history
<1>2. ASSUME NEW r \in Requests, Catalogue(r) PROVE TypeInv'
  <2>1. request[r].phase = "catalogue" /\ Good(request[r])
    BY <1>now, <1>2 DEF Catalogue
  <2>2. Goto(r, Holding(request[r], "row", {})) /\ catalogue' = catalogue \cup {Item(r)}
    BY <1>2 DEF Catalogue
  <2>3. RequestsOK
    BY <1>goto, <2>1, <2>2, HoldingGood
  <2>4. Item(r) \in Achievements
    BY <2>1 DEF Good, Item
  <2> QED
    BY <1>typed, <1>now, <1>2, <2>2, <2>3, <2>4 DEF Catalogue, client, history
<1>3. ASSUME NEW r \in Requests, SaveRow(r) PROVE TypeInv'
  <2>1. request[r].phase = "row" /\ Good(request[r]) /\ Item(r) \in Entities
    BY <1>now, <1>3, ItemRange DEF SaveRow, Item
  <2>2. row[Item(r)] \in Nat
    BY <1>now, <2>1
  <2>3. Goto(r, Saved(request[r], row[Item(r)] + 1))
    BY <1>3 DEF SaveRow
  <2>4. RequestsOK
    BY <1>goto, <2>1, <2>2, <2>3, SavedGood
  <2> QED
    BY <1>typed, <1>now, <1>3, <2>1, <2>2, <2>4 DEF SaveRow, client, history
<1>4. ASSUME NEW r \in Requests, Mirror(r) PROVE TypeInv'
  <2>1. request[r].phase = "mirror" /\ Good(request[r])
    BY <1>now, <1>4 DEF Mirror
  <2>2. /\ Item(r) \in Entities
        /\ Good(Stored(request[r], request[r].wrote \cup {Item(r)}))
    BY <2>1, StoredGood DEF Item
  <2>3. /\ Goto(r, Stored(request[r], request[r].wrote \cup {Item(r)}))
        /\ sync' = [sync EXCEPT ![Item(r)] = request[r].saved]
        /\ applied' = AppliedBy(request[r].push, request[r].wrote \cup {Item(r)})
    BY <1>4 DEF Mirror
  <2>4. request[r].saved \in Nat /\ request[r].push \in Pushes
    BY <2>1 DEF Good, Request
  <2>5. sync' \in [Entities \cup {Profile} -> Nat]
    BY <1>now, <2>2, <2>3, <2>4
  <2>6. applied' \subseteq Pushes
    BY <1>now, <2>3, <2>4 DEF AppliedBy
  <2>7. RequestsOK
    BY <1>goto, <2>2, <2>3
  <2> QED
    BY <1>typed, <1>now, <1>4, <2>5, <2>6, <2>7 DEF Mirror, client
<1>5. ASSUME NEW r \in Requests, ReadProfile(r) PROVE TypeInv'
  <2>1. request[r].phase = "read" /\ Good(request[r])
    BY <1>now, <1>5 DEF ReadProfile
  <2>2. RequestsOK
    BY <1>goto, <1>now, <1>5, <2>1, HoldingGood DEF ReadProfile
  <2> QED
    BY <1>typed, <1>now, <1>5, <2>2 DEF ReadProfile, tables, client, history
<1>6. ASSUME NEW r \in Requests, WriteProfile(r) PROVE TypeInv'
  <2>1. request[r].phase = "write" /\ Good(request[r])
    BY <1>now, <1>6 DEF WriteProfile
  <2>2. Goto(r, Holding(request[r], "mirrorProfile", {}))
    BY <1>6 DEF WriteProfile
  <2>3. RequestsOK
    BY <1>goto, <2>1, <2>2, HoldingGood
  <2>4. request[r].settings \subseteq Fields /\ request[r].push \in Pushes
    BY <2>1 DEF Good, Request
  <2>5. Merged(request[r].settings, request[r].push) \subseteq Fields
    BY <2>4, PushesAssumption DEF Merged
  <2> QED
    BY <1>typed, <1>now, <1>6, <2>3, <2>5 DEF WriteProfile, client, history
<1>7. ASSUME NEW r \in Requests, MirrorProfile(r) PROVE TypeInv'
  <2> DEFINE rev == sync[Profile] + 1
             wrote == request[r].wrote \cup {Profile}
  <2>1. request[r].phase = "mirrorProfile" /\ Good(request[r])
    BY <1>now, <1>7 DEF MirrorProfile
  <2>2. rev \in Nat
    BY <1>now
  <2>3. /\ Goto(r, Finished(request[r], rev, wrote))
        /\ sync' = [sync EXCEPT ![Profile] = rev]
        /\ applied' = AppliedBy(request[r].push, wrote)
    BY <1>7 DEF MirrorProfile
  <2>4. RequestsOK
    BY <1>goto, <2>1, <2>2, <2>3, FinishedGood
  <2>5. request[r].push \in Pushes
    BY <2>1 DEF Good, Request
  <2> HIDE DEF rev, wrote
  <2>6. sync' \in [Entities \cup {Profile} -> Nat]
    BY <1>now, <2>2, <2>3
  <2>7. applied' \subseteq Pushes
    BY <1>now, <2>3, <2>5 DEF AppliedBy
  <2> QED
    BY <1>typed, <1>now, <1>7, <2>4, <2>6, <2>7 DEF MirrorProfile, client
<1>8. ASSUME NEW r \in Requests, Remember(r) PROVE TypeInv'
  <2>1. request[r].phase = "remember" /\ Good(request[r])
    BY <1>now, <1>8 DEF Remember
  <2>2. Good(Idle) /\ Good(Holding(request[r], "ok", {}))
    BY <2>1, IdleGood, HoldingGood
  <2>3. RequestsOK
    BY <1>goto, <1>8, <2>2 DEF Remember
  <2>4. request[r].rev \in Nat
    BY <2>1 DEF Good, Request
  <2> QED
    BY <1>typed, <1>now, <1>8, <2>3, <2>4 DEF Remember, client, history
<1>9. ASSUME NEW r \in Requests, Answer(r) PROVE TypeInv'
  <2>1. request[r].push \in Pushes /\ request[r].rev \in Nat
    BY <1>now, <1>9 DEF Answer, Good, Request
  <2>2. RequestsOK
    BY <1>goto, <1>9, IdleGood DEF Answer
  <2>3. KeyOf[request[r].push] # None => KeyOf[request[r].push] \in Keys
    BY <2>1, PushesAssumption
  <2>4. accepted' \in [Keys -> Nat]
    BY <1>now, <1>9, <2>3 DEF Answer
  <2>5. answers' \subseteq (Keys \X Nat)
    BY <1>now, <1>9, <2>1, <2>3 DEF Answer
  <2> QED
    BY <1>typed, <1>now, <1>9, <2>1, <2>2, <2>4, <2>5 DEF Answer, tables
<1>10. ASSUME NEW r \in Requests, Abandon(r) PROVE TypeInv'
  <2>1. RequestsOK
    BY <1>goto, <1>10, IdleGood DEF Abandon
  <2> QED
    BY <1>typed, <1>now, <1>10, <2>1 DEF Abandon, tables, history
<1>11. ASSUME NEW s \in Sessions, DeleteSummary(s) PROVE TypeInv'
  BY <1>typed, <1>same, <1>now, <1>11 DEF DeleteSummary, client, history
<1>12. CASE BeginPull
  <2>1. PICK floor \in {1} \cup {a[2] : a \in answers} :
          pull' = [todo |-> Parts, rev |-> 1, floor |-> floor, count |-> pull.count + 1]
    BY <1>12 DEF BeginPull
  <2>2. floor \in Nat
    BY <1>now, <2>1
  <2>3. pull' \in [todo: SUBSET Parts, rev: Nat, floor: Nat, count: Nat]
    BY <1>now, <2>1, <2>2
  <2> QED
    BY <1>typed, <1>same, <1>now, <1>12, <2>3 DEF BeginPull, tables, client, history
<1>13. ASSUME NEW x \in Parts, ReadPart(x) PROVE TypeInv'
  <2>1. PICK page \in SUBSET Sessions : \E rev \in {pull.rev} \cup Part(x, page) :
          pull' = [todo |-> pull.todo \ {x}, rev |-> rev, floor |-> pull.floor, count |-> pull.count]
    BY <1>13 DEF ReadPart
  <2>2. Part(x, page) \subseteq Nat
    BY <1>now DEF Part, Parts, Entities
  <2>3. pull' \in [todo: SUBSET Parts, rev: Nat, floor: Nat, count: Nat]
    BY <1>now, <2>1, <2>2
  <2> QED
    BY <1>typed, <1>same, <1>now, <1>13, <2>3 DEF ReadPart, tables, client, history
<1>14. ASSUME NEW fields \in Patches, UpdateMe(fields) PROVE TypeInv'
  <2>1. settings' \subseteq Fields
    BY <1>14, PushesAssumption DEF UpdateMe, Fields
  <2> QED
    BY <1>typed, <1>same, <1>now, <1>14, <2>1 DEF UpdateMe, client, history
<1>15. CASE UNCHANGED vars
  BY <1>typed, <1>same, <1>now, <1>15 DEF vars, tables, client, history
<1> QED
  BY <1>1, <1>2, <1>3, <1>4, <1>5, <1>6, <1>7, <1>8, <1>9, <1>10, <1>11, <1>12,
     <1>13, <1>14, <1>15 DEF Next, Step

\* Types of the tables, of the requests and of the replies.
THEOREM PushTypeCorrect == Spec => []TypeOK
<1>1. Init => TypeInv
  <2> SUFFICES ASSUME Init PROVE TypeInv
    OBVIOUS
  <2>1. request = [r \in Requests |-> Idle]
    BY DEF Init
  <2>2. \A r \in Requests : Good(request[r]) /\ request[r].phase = "idle"
    BY <2>1, IdleGood
  <2>3. request \in [Requests -> Request]
    BY <2>1, IdleGood DEF Good
  <2> QED
    BY <2>2, <2>3 DEF Init, TypeInv, TypeOK
<1>2. TypeInv => TypeOK
  BY DEF TypeInv
<1> QED
  BY <1>1, <1>2, TypeInvInductive, PTL DEF Spec

-----------------------------------------------------------------------------
\* One request moves on, and nothing recorded or stored is lost.
LEMMA PushInvKept ==
  ASSUME PushInv, TypeInv', NEW r \in Requests, NEW st, Good(st), Goto(r, st),
         applied \subseteq applied',
         \A k \in Keys : remembered[k] # 0 => remembered'[k] = remembered[k],
         RecordedApplied',
         st.phase \in {"remember", "ok"} => st.push \in applied',
         st.phase \in {"remember", "replay"} => KeyOf[st.push] # None,
         st.phase \in {"ok", "replay"} /\ KeyOf[st.push] # None =>
             remembered'[KeyOf[st.push]] = st.rev,
         st.phase = "ok" /\ KeyOf[st.push] # None =>
             /\ accepted'[KeyOf[st.push]] = 0
             /\ \A q \in Requests \ {r} :
                  ~ (request[q].phase = "ok" /\ KeyOf[request[q].push] = KeyOf[st.push]),
         \A q \in Requests \ {r} :
             request[q].phase = "ok" /\ KeyOf[request[q].push] # None =>
                 accepted'[KeyOf[request[q].push]] = 0,
         \A k \in Keys : accepted'[k] # 0 => remembered'[k] # 0
  PROVE  PushInv'
<1>1. /\ request'[r] = st
      /\ \A q \in Requests : q # r => request'[q] = request[q]
  BY GotoGood DEF PushInv
<1>2. EmptyApplied'
  BY DEF PushInv, EmptyApplied
<1>3. DoneApplied'
  BY <1>1 DEF PushInv, DoneApplied
<1>4. RepliesRecorded'
  <2> SUFFICES ASSUME NEW q \in Requests, request'[q].phase \in {"ok", "replay"},
                      KeyOf[request'[q].push] # None
               PROVE  remembered'[KeyOf[request'[q].push]] = request'[q].rev
    BY DEF RepliesRecorded
  <2>1. CASE q = r
    BY <1>1, <2>1
  <2>2. CASE q # r
    <3>1. request'[q] = request[q] /\ Good(request[q])
      BY <1>1, <2>2 DEF PushInv, TypeInv
    <3>2. request[q].rev # 0 /\ request[q].push \in Pushes
      BY <3>1 DEF Good
    <3>3. KeyOf[request[q].push] \in Keys
      BY <3>1, <3>2, PushesAssumption
    <3>4. remembered[KeyOf[request[q].push]] = request[q].rev
      BY <3>1 DEF PushInv, RepliesRecorded
    <3> QED
      BY <3>1, <3>2, <3>3, <3>4
  <2> QED
    BY <2>1, <2>2
<1>5. OneOk'
  <2>1. ASSUME NEW p \in Requests, NEW q \in Requests,
               request'[p].phase = "ok", request'[q].phase = "ok",
               KeyOf[request'[p].push] # None,
               KeyOf[request'[p].push] = KeyOf[request'[q].push]
        PROVE  p = q
    BY <1>1, <2>1 DEF PushInv, OneOk
  <2>2. ASSUME NEW q \in Requests, request'[q].phase = "ok", KeyOf[request'[q].push] # None
        PROVE  accepted'[KeyOf[request'[q].push]] = 0
    BY <1>1, <2>2
  <2> QED
    BY <2>1, <2>2 DEF OneOk
<1> QED
  BY <1>2, <1>3, <1>4, <1>5 DEF PushInv

\* A step that leaves requests, keys and replies alone keeps the invariant.
LEMMA PushInvUntouched ==
  ASSUME PushInv, TypeInv', request' = request, remembered' = remembered,
         applied' = applied, accepted' = accepted
  PROVE  PushInv'
  BY DEF PushInv, EmptyApplied, DoneApplied, RecordedApplied, RepliesRecorded, OneOk

\* The loop is over, and without a profile everything is stored.
LEMMA StoredAll ==
  ASSUME NEW st, Good(st), st.phase = "mirror",
         NEW wrote, wrote = st.wrote \cup {Items[st.push][st.done + 1]},
         Stored(st, wrote).phase \in {"remember", "ok"}
  PROVE  /\ Targets(st.push) \subseteq wrote
         /\ Stored(st, wrote).phase = "remember" => KeyOf[st.push] # None
         /\ Stored(st, wrote).phase = "ok" => KeyOf[st.push] = None
<1>1. st.push \in Pushes /\ st.done \in Nat /\ st.done < Len(Items[st.push])
  BY DEF Good, Request
<1>2. Items[st.push] \in Seq(Entities) /\ Len(Items[st.push]) \in Nat
  BY <1>1, PushesAssumption, LenProperties
<1>3. Stored(st, wrote).phase = PhaseAfter(st.push, st.done + 1)
  BY DEF Stored
<1>4. st.done + 1 = Len(Items[st.push]) /\ PhaseAfter(st.push, st.done + 1) = AfterItems(st.push)
  BY <1>1, <1>2, <1>3, PhaseAfterRange
<1>5. /\ ~HasProfile(st.push)
      /\ AfterItems(st.push) = "remember" => KeyOf[st.push] # None
      /\ AfterItems(st.push) = "ok" => KeyOf[st.push] = None
  BY <1>3, <1>4 DEF AfterItems
<1>6. \A i \in 1 .. st.done + 1 : Items[st.push][i] \in wrote
  BY <1>1 DEF Good
<1>7. DOMAIN Items[st.push] = 1 .. st.done + 1
  BY <1>2, <1>4, LenProperties
<1> QED
  BY <1>3, <1>4, <1>5, <1>6, <1>7 DEF Targets

\* The same once the profile is stored.
LEMMA FinishedAll ==
  ASSUME NEW st, Good(st), st.phase = "mirrorProfile"
  PROVE  Targets(st.push) \subseteq st.wrote \cup {Profile}
<1>1. st.push \in Pushes /\ st.done = Len(Items[st.push])
      /\ \A i \in 1 .. st.done : Items[st.push][i] \in st.wrote
  BY DEF Good
<1>2. DOMAIN Items[st.push] = 1 .. st.done
  BY <1>1, PushesAssumption, LenProperties
<1> QED
  BY <1>1, <1>2 DEF Targets

\* A push without items or profile has nothing to store.
LEMMA StartedAll ==
  ASSUME NEW p \in Pushes, PhaseAfter(p, 0) \in {"remember", "ok"}
  PROVE  /\ Targets(p) = {}
         /\ PhaseAfter(p, 0) = "remember" => KeyOf[p] # None
         /\ PhaseAfter(p, 0) = "ok" => KeyOf[p] = None
<1>1. Items[p] \in Seq(Entities) /\ Len(Items[p]) \in Nat
  BY PushesAssumption, LenProperties
<1>2. 0 = Len(Items[p]) /\ PhaseAfter(p, 0) = AfterItems(p)
  BY <1>1, PhaseAfterRange
<1>3. /\ ~HasProfile(p)
      /\ AfterItems(p) = "remember" => KeyOf[p] # None
      /\ AfterItems(p) = "ok" => KeyOf[p] = None
  BY <1>2 DEF AfterItems
<1>4. DOMAIN Items[p] = 1 .. 0
  BY <1>1, <1>2, LenProperties
<1> QED
  BY <1>2, <1>3, <1>4 DEF Targets

-----------------------------------------------------------------------------
\* Every step keeps the invariant.
LEMMA PushInvInductive == PushInv /\ [Next]_vars => PushInv'
<1> SUFFICES ASSUME PushInv, [Next]_vars PROVE PushInv'
  OBVIOUS
<1>typed. TypeInv /\ TypeInv' /\ \A r \in Requests : Good(request[r])
  BY TypeInvInductive DEF PushInv, TypeInv
<1>inv. /\ EmptyApplied /\ DoneApplied /\ RecordedApplied /\ RepliesRecorded /\ OneOk
        /\ \A q \in Requests :
             request[q].phase = "ok" /\ KeyOf[request[q].push] # None =>
               accepted[KeyOf[request[q].push]] = 0
        /\ \A k \in Keys : accepted[k] # 0 => remembered[k] # 0
  BY DEF PushInv, OneOk
\* A request that moves to a state with no reply and no key to record.
<1>quiet. ASSUME NEW r \in Requests, NEW st, Good(st), Goto(r, st),
                 st.phase \notin {"remember", "ok", "replay"},
                 remembered' = remembered, applied \subseteq applied', accepted' = accepted
          PROVE  PushInv'
  <2>1. RecordedApplied'
    BY <1>inv, <1>quiet DEF RecordedApplied
  <2> QED
    BY <1>typed, <1>inv, <1>quiet, <2>1, PushInvKept
<1>1. ASSUME NEW r \in Requests, NEW p \in Pushes, Push(r, p) PROVE PushInv'
  <2>1. /\ remembered' = remembered /\ applied' = applied /\ accepted' = accepted
    BY <1>1 DEF Push, tables, history
  <2>2. RecordedApplied'
    BY <1>inv, <2>1 DEF RecordedApplied
  <2>3. CASE KeyOf[p] # None /\ remembered[KeyOf[p]] # 0
    <3> DEFINE st == Started("replay", p, remembered[KeyOf[p]])
    <3>1. remembered[KeyOf[p]] \in Nat \ {0}
      BY <1>typed, <2>3, PushesAssumption DEF TypeInv, TypeOK
    <3>2. Goto(r, st) /\ Good(st)
      BY <1>1, <2>3, <3>1, StartedGood DEF Push
    <3>3. st.phase = "replay" /\ st.push = p /\ st.rev = remembered[KeyOf[p]]
      BY DEF Started
    <3> HIDE DEF st
    <3> QED
      BY <1>typed, <1>inv, <2>1, <2>2, <2>3, <3>2, <3>3, PushInvKept
  <2>4. CASE ~ (KeyOf[p] # None /\ remembered[KeyOf[p]] # 0)
    <3> DEFINE st == Started(PhaseAfter(p, 0), p, 1)
    <3>1. Goto(r, st) /\ Good(st)
      BY <1>1, <2>4, StartedGood DEF Push
    <3>2. st.phase = PhaseAfter(p, 0) /\ st.push = p
      BY DEF Started
    <3>3. st.phase \in {"remember", "ok"} => p \in applied
      BY <1>inv, <3>2, StartedAll DEF EmptyApplied
    <3>4. /\ st.phase = "remember" => KeyOf[p] # None
          /\ st.phase = "ok" => KeyOf[p] = None
      BY <3>2, StartedAll
    <3>5. st.phase # "replay"
      <4>1. Items[p] \in Seq(Entities) /\ 0 <= Len(Items[p])
        BY PushesAssumption, LenProperties
      <4> QED
        BY <3>2 DEF PhaseAfter, AfterItems
    <3> HIDE DEF st
    <3> QED
      BY <1>typed, <1>inv, <2>1, <2>2, <3>1, <3>2, <3>3, <3>4, <3>5, PushInvKept
  <2> QED
    BY <2>3, <2>4
<1>2. ASSUME NEW r \in Requests, Catalogue(r) PROVE PushInv'
  <2>1. Good(Holding(request[r], "row", {})) /\ Goto(r, Holding(request[r], "row", {}))
    BY <1>typed, <1>2, HoldingGood DEF Catalogue
  <2>2. Holding(request[r], "row", {}).phase = "row"
    BY DEF Holding
  <2> QED
    BY <1>quiet, <1>2, <2>1, <2>2 DEF Catalogue, history
<1>3. ASSUME NEW r \in Requests, SaveRow(r) PROVE PushInv'
  <2>1. row[Item(r)] + 1 \in Nat
    BY <1>typed, <1>3, ItemRange DEF SaveRow, Item, TypeInv, TypeOK
  <2>2. /\ Good(Saved(request[r], row[Item(r)] + 1))
        /\ Goto(r, Saved(request[r], row[Item(r)] + 1))
    BY <1>typed, <1>3, <2>1, SavedGood DEF SaveRow
  <2>3. Saved(request[r], row[Item(r)] + 1).phase = "mirror"
    BY DEF Saved
  <2> QED
    BY <1>quiet, <1>3, <2>2, <2>3 DEF SaveRow, history
<1>4. ASSUME NEW r \in Requests, Mirror(r) PROVE PushInv'
  <2> DEFINE wrote == request[r].wrote \cup {Item(r)}
             st == Stored(request[r], wrote)
  <2>1. request[r].phase = "mirror" /\ Good(request[r])
    BY <1>typed, <1>4 DEF Mirror
  <2>2. Good(st)
    BY <2>1, StoredGood DEF Item
  <2>3. /\ Goto(r, st) /\ applied' = AppliedBy(request[r].push, wrote)
        /\ remembered' = remembered /\ accepted' = accepted
    BY <1>4 DEF Mirror
  <2>4. st.push = request[r].push /\ st.phase # "replay"
    <3>1. st.phase = PhaseAfter(request[r].push, request[r].done + 1)
      BY DEF Stored
    <3> QED
      BY <3>1 DEF Stored, PhaseAfter, AfterItems
  <2>5. wrote = request[r].wrote \cup {Items[request[r].push][request[r].done + 1]}
    BY DEF Item
  <2>6. /\ st.phase \in {"remember", "ok"} => Targets(st.push) \subseteq wrote
        /\ st.phase = "remember" => KeyOf[st.push] # None
        /\ st.phase = "ok" => KeyOf[st.push] = None
    BY <2>1, <2>4, <2>5, StoredAll
  <2>7. applied \subseteq applied' /\ (st.phase \in {"remember", "ok"} => st.push \in applied')
    BY <2>3, <2>4, <2>6 DEF AppliedBy
  <2>8. RecordedApplied'
    BY <1>inv, <2>3, <2>7 DEF RecordedApplied
  <2> HIDE DEF st, wrote
  <2> QED
    BY <1>typed, <1>inv, <2>2, <2>3, <2>4, <2>6, <2>7, <2>8, PushInvKept
<1>5. ASSUME NEW r \in Requests, ReadProfile(r) PROVE PushInv'
  <2>1. settings \in SUBSET Fields
    BY <1>typed DEF TypeInv, TypeOK
  <2>2. Good(Holding(request[r], "write", settings)) /\ Goto(r, Holding(request[r], "write", settings))
    BY <1>typed, <1>5, <2>1, HoldingGood DEF ReadProfile
  <2>3. Holding(request[r], "write", settings).phase = "write"
    BY DEF Holding
  <2> QED
    BY <1>quiet, <1>5, <2>2, <2>3 DEF ReadProfile, tables, history
<1>6. ASSUME NEW r \in Requests, WriteProfile(r) PROVE PushInv'
  <2>1. /\ Good(Holding(request[r], "mirrorProfile", {}))
        /\ Goto(r, Holding(request[r], "mirrorProfile", {}))
    BY <1>typed, <1>6, HoldingGood DEF WriteProfile
  <2>2. Holding(request[r], "mirrorProfile", {}).phase = "mirrorProfile"
    BY DEF Holding
  <2> QED
    BY <1>quiet, <1>6, <2>1, <2>2 DEF WriteProfile, history
<1>7. ASSUME NEW r \in Requests, MirrorProfile(r) PROVE PushInv'
  <2> DEFINE wrote == request[r].wrote \cup {Profile}
             st == Finished(request[r], sync[Profile] + 1, wrote)
  <2>1. request[r].phase = "mirrorProfile" /\ Good(request[r])
    BY <1>typed, <1>7 DEF MirrorProfile
  <2>2. sync[Profile] + 1 \in Nat
    BY <1>typed DEF TypeInv, TypeOK
  <2>3. Good(st)
    BY <2>1, <2>2, FinishedGood
  <2>4. /\ Goto(r, st) /\ applied' = AppliedBy(request[r].push, wrote)
        /\ remembered' = remembered /\ accepted' = accepted
    BY <1>7 DEF MirrorProfile
  <2>5. /\ st.push = request[r].push /\ st.phase # "replay"
        /\ st.phase = "remember" => KeyOf[st.push] # None
        /\ st.phase = "ok" => KeyOf[st.push] = None
    BY DEF Finished
  <2>6. Targets(request[r].push) \subseteq wrote
    BY <2>1, FinishedAll
  <2>7. applied \subseteq applied' /\ st.push \in applied'
    BY <2>4, <2>5, <2>6 DEF AppliedBy
  <2>8. RecordedApplied'
    BY <1>inv, <2>4, <2>7 DEF RecordedApplied
  <2> HIDE DEF st, wrote
  <2> QED
    BY <1>typed, <1>inv, <2>3, <2>4, <2>5, <2>7, <2>8, PushInvKept
<1>8. ASSUME NEW r \in Requests, Remember(r) PROVE PushInv'
  <2> DEFINE p == request[r].push
             st == Holding(request[r], "ok", {})
  <2>1. /\ request[r].phase = "remember" /\ Good(request[r])
        /\ p \in Pushes /\ p \in applied /\ KeyOf[p] # None /\ KeyOf[p] \in Keys
    BY <1>typed, <1>inv, <1>8, PushesAssumption DEF Remember, DoneApplied, Good
  <2>2. CASE KeyTaken(KeyOf[p])
    <3>1. Goto(r, Idle) /\ remembered' = remembered /\ applied' = applied /\ accepted' = accepted
      BY <1>8, <2>2 DEF Remember, history
    <3> QED
      BY <1>quiet, <3>1, IdleGood
  <2>3. CASE ~KeyTaken(KeyOf[p])
    <3>1. /\ Goto(r, st) /\ applied' = applied /\ accepted' = accepted
          /\ remembered' = [remembered EXCEPT ![KeyOf[p]] = request[r].rev]
          /\ remembered[KeyOf[p]] = 0
      BY <1>8, <2>3 DEF Remember, history, KeyTaken
    <3>2. Good(st)
      BY <2>1, HoldingGood
    <3>3. st.phase = "ok" /\ st.push = p /\ st.rev = request[r].rev /\ st.rev # 0
      BY <2>1 DEF Holding, Good
    <3>4. /\ remembered'[KeyOf[p]] = st.rev
          /\ \A k \in Keys : k # KeyOf[p] => remembered'[k] = remembered[k]
      BY <1>typed, <2>1, <3>1, <3>3 DEF TypeInv, TypeOK
    <3>5. RecordedApplied'
      <4> SUFFICES ASSUME NEW o \in Pushes, KeyOf[o] # None, remembered'[KeyOf[o]] # 0
                   PROVE  o \in applied'
        BY DEF RecordedApplied
      <4>1. CASE KeyOf[o] = KeyOf[p]
        BY <2>1, <3>1, <4>1, KeysDistinct
      <4>2. CASE KeyOf[o] # KeyOf[p]
        BY <1>inv, <3>1, <3>4, <4>2, PushesAssumption DEF RecordedApplied
      <4> QED
        BY <4>1, <4>2
    <3>6. accepted[KeyOf[p]] = 0
      BY <1>inv, <2>1, <3>1
    <3>7. \A q \in Requests \ {r} : ~ (request[q].phase = "ok" /\ KeyOf[request[q].push] = KeyOf[p])
      <4> SUFFICES ASSUME NEW q \in Requests, request[q].phase = "ok",
                          KeyOf[request[q].push] = KeyOf[p]
                   PROVE  FALSE
        OBVIOUS
      <4>1. request[q].rev # 0
        BY <1>typed DEF Good
      <4>2. remembered[KeyOf[request[q].push]] = request[q].rev
        BY <1>inv, <2>1 DEF RepliesRecorded
      <4> QED
        BY <3>1, <4>1, <4>2
    <3> HIDE DEF st, p
    <3> QED
      BY <1>typed, <1>inv, <2>1, <3>1, <3>2, <3>3, <3>4, <3>5, <3>6, <3>7, PushInvKept
  <2> QED
    BY <2>2, <2>3
<1>9. ASSUME NEW r \in Requests, Answer(r) PROVE PushInv'
  <2> DEFINE k == KeyOf[request[r].push]
  <2>1. /\ Goto(r, Idle) /\ remembered' = remembered /\ applied' = applied
        /\ request[r].phase \in {"ok", "replay"}
        /\ accepted' = IF k # None /\ request[r].phase = "ok"
                       THEN [accepted EXCEPT ![k] = @ + 1] ELSE accepted
    BY <1>9 DEF Answer, tables
  <2>2. request[r].push \in Pushes /\ request[r].rev # 0
    BY <1>typed, <2>1 DEF Good
  <2>3. k # None => k \in Keys /\ remembered[k] # 0
    BY <1>inv, <2>1, <2>2, PushesAssumption DEF RepliesRecorded
  <2>4. RecordedApplied'
    BY <1>inv, <2>1 DEF RecordedApplied
  <2>5. \A j \in Keys : accepted'[j] # 0 => remembered'[j] # 0
    BY <1>typed, <1>inv, <2>1, <2>3 DEF TypeInv, TypeOK
  <2>6. ASSUME NEW q \in Requests \ {r}, request[q].phase = "ok", KeyOf[request[q].push] # None
        PROVE  accepted'[KeyOf[request[q].push]] = 0
    <3>1. accepted[KeyOf[request[q].push]] = 0
      BY <1>inv, <2>6
    <3>2. KeyOf[request[q].push] \in Keys
      BY <1>typed, <2>6, PushesAssumption DEF Good
    <3>3. request[r].phase = "ok" /\ k # None => KeyOf[request[q].push] # k
      BY <1>inv, <2>6 DEF OneOk
    <3> QED
      BY <1>typed, <2>1, <2>3, <3>1, <3>2, <3>3 DEF TypeInv, TypeOK
  <2> HIDE DEF k
  <2> QED
    BY <1>typed, <1>inv, <2>1, <2>4, <2>5, <2>6, IdleGood, PushInvKept
<1>10. ASSUME NEW r \in Requests, Abandon(r) PROVE PushInv'
  BY <1>quiet, <1>10, IdleGood DEF Abandon, tables, history
<1>11. ASSUME NEW s \in Sessions, DeleteSummary(s) PROVE PushInv'
  BY <1>typed, <1>11, PushInvUntouched DEF DeleteSummary, history
<1>12. CASE BeginPull
  BY <1>typed, <1>12, PushInvUntouched DEF BeginPull, tables, history
<1>13. ASSUME NEW x \in Parts, ReadPart(x) PROVE PushInv'
  BY <1>typed, <1>13, PushInvUntouched DEF ReadPart, tables, history
<1>14. ASSUME NEW fields \in Patches, UpdateMe(fields) PROVE PushInv'
  BY <1>typed, <1>14, PushInvUntouched DEF UpdateMe, history
<1>15. CASE UNCHANGED vars
  BY <1>typed, <1>15, PushInvUntouched DEF vars, tables, history
<1> QED
  BY <1>1, <1>2, <1>3, <1>4, <1>5, <1>6, <1>7, <1>8, <1>9, <1>10, <1>11, <1>12,
     <1>13, <1>14, <1>15 DEF Next, Step

\* The invariant holds in every reachable state.
THEOREM PushInvariant == Spec => []PushInv
<1>1. Init => PushInv
  <2> SUFFICES ASSUME Init PROVE PushInv
    OBVIOUS
  <2>1. /\ request = [r \in Requests |-> Idle]
        /\ remembered = [k \in Keys |-> 0] /\ accepted = [k \in Keys |-> 0]
        /\ applied = {p \in Pushes : Targets(p) = {}}
    BY DEF Init
  <2>2. \A r \in Requests : Good(request[r]) /\ request[r].phase = "idle"
    BY <2>1, IdleGood
  <2>3. request \in [Requests -> Request]
    BY <2>1, IdleGood DEF Good
  <2>4. TypeInv
    BY <2>2, <2>3 DEF Init, TypeInv, TypeOK
  <2>5. RecordedApplied
    BY <2>1, PushesAssumption DEF RecordedApplied
  <2> QED
    BY <2>1, <2>2, <2>4, <2>5 DEF PushInv, EmptyApplied, DoneApplied, RepliesRecorded, OneOk
<1> QED
  BY <1>1, PushInvInductive, PTL DEF Spec

\* Every step is a step of the contract, or none of its business.
LEMMA StepKeepsContract == PushInv /\ [Next]_vars => [Contract!Next]_(Contract!vars)
<1> SUFFICES ASSUME PushInv, [Next]_vars PROVE [Contract!Next]_(Contract!vars)
  OBVIOUS
<1>0. /\ TypeOK /\ \A r \in Requests : Good(request[r])
      /\ DoneApplied /\ RecordedApplied /\ RepliesRecorded /\ OneOk
  BY DEF PushInv, TypeInv
<1>still. ASSUME remembered' = remembered, applied' = applied, accepted' = accepted, answers' = answers
          PROVE  [Contract!Next]_(Contract!vars)
  BY <1>still DEF Contract!vars
<1>1. ASSUME NEW p \in Pushes, NEW wrote, applied' = AppliedBy(p, wrote),
             remembered' = remembered, accepted' = accepted, answers' = answers
      PROVE  [Contract!Next]_(Contract!vars)
  BY <1>1 DEF AppliedBy, Contract!vars, Contract!Next, Contract!Apply
<1>2. ASSUME NEW r \in Requests, Step(r) PROVE [Contract!Next]_(Contract!vars)
  <2> DEFINE p == request[r].push
  <2>1. CASE Catalogue(r)
    BY <1>still, <2>1 DEF Catalogue, history
  <2>2. CASE SaveRow(r)
    BY <1>still, <2>2 DEF SaveRow, history
  <2>3. CASE Mirror(r)
    BY <1>0, <1>1, <2>3 DEF Mirror, Good
  <2>4. CASE ReadProfile(r)
    BY <1>still, <2>4 DEF ReadProfile, tables, history
  <2>5. CASE WriteProfile(r)
    BY <1>still, <2>5 DEF WriteProfile, history
  <2>6. CASE MirrorProfile(r)
    BY <1>0, <1>1, <2>6 DEF MirrorProfile, Good
  <2>7. CASE Remember(r)
    <3>1. p \in Pushes /\ p \in applied /\ KeyOf[p] # None /\ KeyOf[p] \in Keys
          /\ request[r].rev \in Nat \ {0}
      BY <1>0, <2>7, PushesAssumption DEF Remember, DoneApplied, Good, Request
    <3>2. applied' = applied /\ accepted' = accepted /\ answers' = answers
      BY <2>7 DEF Remember, history
    <3>3. CASE KeyTaken(KeyOf[p])
      BY <1>still, <2>7, <3>2, <3>3 DEF Remember
    <3>4. CASE ~KeyTaken(KeyOf[p])
      <4>1. remembered[KeyOf[p]] = 0 /\ remembered' = [remembered EXCEPT ![KeyOf[p]] = request[r].rev]
        BY <2>7, <3>4 DEF Remember, KeyTaken
      <4>2. remembered'[KeyOf[p]] = request[r].rev
        BY <1>0, <3>1, <4>1 DEF TypeOK
      <4> HIDE DEF p
      <4>3. Contract!Commit(p)
        BY <3>1, <3>2, <4>1, <4>2 DEF Contract!Commit
      <4> QED
        BY <3>1, <4>3 DEF Contract!Next
    <3> QED
      BY <3>3, <3>4
  <2>8. CASE Answer(r)
    <3>1. p \in Pushes /\ remembered' = remembered /\ applied' = applied
          /\ request[r].phase \in {"ok", "replay"} /\ request[r].rev # 0
      BY <1>0, <2>8 DEF Answer, Good, tables
    <3>2. CASE KeyOf[p] = None
      BY <1>still, <2>8, <3>1, <3>2 DEF Answer
    <3>3. CASE KeyOf[p] # None
      <4>1. remembered[KeyOf[p]] = request[r].rev /\ p \in applied
        BY <1>0, <3>1, <3>3 DEF RepliesRecorded, RecordedApplied
      <4>2. answers' = answers \cup {<<KeyOf[p], remembered[KeyOf[p]]>>}
        BY <2>8, <3>3, <4>1 DEF Answer
      <4>3. CASE request[r].phase = "ok"
        <5>1. accepted[KeyOf[p]] = 0
          BY <1>0, <3>3, <4>3 DEF OneOk
        <5>2. accepted' = [accepted EXCEPT ![KeyOf[p]] = 1]
          BY <2>8, <3>3, <4>3, <5>1 DEF Answer
        <5> HIDE DEF p
        <5>3. Contract!Accept(p)
          BY <3>1, <3>3, <4>1, <4>2, <5>1, <5>2 DEF Contract!Accept, Contract!Answer
        <5> QED
          BY <3>1, <5>3 DEF Contract!Next
      <4>4. CASE request[r].phase = "replay"
        <5>1. accepted' = accepted
          BY <2>8, <4>4 DEF Answer
        <5> HIDE DEF p
        <5>2. Contract!Replay(p)
          BY <3>1, <3>3, <4>1, <4>2, <5>1 DEF Contract!Replay, Contract!Answer
        <5> QED
          BY <3>1, <5>2 DEF Contract!Next
      <4> QED
        BY <3>1, <4>3, <4>4
    <3> QED
      BY <3>2, <3>3
  <2> QED
    BY <1>2, <2>1, <2>2, <2>3, <2>4, <2>5, <2>6, <2>7, <2>8 DEF Step
<1>3. ASSUME NEW r \in Requests, NEW p \in Pushes, Push(r, p) PROVE [Contract!Next]_(Contract!vars)
  BY <1>still, <1>3 DEF Push, tables, history
<1>4. ASSUME NEW r \in Requests, Abandon(r) PROVE [Contract!Next]_(Contract!vars)
  BY <1>still, <1>4 DEF Abandon, tables, history
<1>5. ASSUME NEW s \in Sessions, DeleteSummary(s) PROVE [Contract!Next]_(Contract!vars)
  BY <1>still, <1>5 DEF DeleteSummary, history
<1>6. CASE BeginPull
  BY <1>still, <1>6 DEF BeginPull, tables, history
<1>7. ASSUME NEW x \in Parts, ReadPart(x) PROVE [Contract!Next]_(Contract!vars)
  BY <1>still, <1>7 DEF ReadPart, tables, history
<1>8. ASSUME NEW fields \in Patches, UpdateMe(fields) PROVE [Contract!Next]_(Contract!vars)
  BY <1>still, <1>8 DEF UpdateMe, history
<1>9. CASE UNCHANGED vars
  BY <1>still, <1>9 DEF vars, tables, history
<1> QED
  BY <1>2, <1>3, <1>4, <1>5, <1>6, <1>7, <1>8, <1>9 DEF Next

\* Push implements the contract of its idempotency keys.
THEOREM PushKeepsContract == Spec => ContractKept
<1>1. Init => Contract!Init
  BY DEF Init, Contract!Init
<1> QED
  BY <1>1, StepKeepsContract, PushInvariant, PTL DEF Spec, ContractKept, Contract!Spec

-----------------------------------------------------------------------------
\* What a pull must reach is recorded under some key, and stays so.
FloorRecorded ==
    /\ \A a \in answers : a[1] \in Keys /\ remembered[a[1]] = a[2] /\ a[2] # 0
    /\ pull.floor = 1 \/ \E k \in Keys : remembered[k] = pull.floor /\ pull.floor # 0
    /\ pull.rev >= 1
    /\ "sync" \notin pull.todo => pull.rev >= pull.floor

\* Recorded keys and replies stay what they are.
LEMMA RecordsKept ==
  ASSUME PushInv, [Next]_vars
  PROVE  /\ \A k \in Keys : remembered[k] # 0 => remembered'[k] = remembered[k]
         /\ \A a \in answers' \ answers :
              a[1] \in Keys /\ remembered'[a[1]] = a[2] /\ a[2] # 0
<1>0. [Contract!Next]_(Contract!vars)
  BY StepKeepsContract
<1>typed. TypeOK
  BY DEF PushInv, TypeInv
<1>1. ASSUME NEW p \in Pushes, Contract!Commit(p)
      PROVE  /\ \A k \in Keys : remembered[k] # 0 => remembered'[k] = remembered[k]
             /\ answers' = answers
  BY <1>1, <1>typed, PushesAssumption DEF Contract!Commit, TypeOK
<1>2. ASSUME NEW p \in Pushes, Contract!Accept(p) \/ Contract!Replay(p)
      PROVE  /\ remembered' = remembered
             /\ KeyOf[p] \in Keys /\ remembered[KeyOf[p]] # 0
             /\ answers' = answers \cup {<<KeyOf[p], remembered[KeyOf[p]]>>}
  BY <1>2, PushesAssumption DEF Contract!Accept, Contract!Replay, Contract!Answer
<1>3. ASSUME NEW p \in Pushes, Contract!Apply(p) PROVE remembered' = remembered /\ answers' = answers
  BY <1>3 DEF Contract!Apply
<1>4. CASE UNCHANGED Contract!vars
  BY <1>4 DEF Contract!vars
<1>5. CASE Contract!Next
  BY <1>1, <1>2, <1>3, <1>5 DEF Contract!Next
<1> QED
  BY <1>0, <1>4, <1>5

\* Every step keeps what pulls rely on.
LEMMA FloorInductive == PushInv /\ FloorRecorded /\ [Next]_vars => FloorRecorded'
<1> SUFFICES ASSUME PushInv, FloorRecorded, [Next]_vars PROVE FloorRecorded'
  OBVIOUS
<1>0. TypeOK
  BY DEF PushInv, TypeInv
<1>1. \A a \in answers' : a[1] \in Keys /\ remembered'[a[1]] = a[2] /\ a[2] # 0
  BY RecordsKept DEF FloorRecorded
<1>2. ASSUME pull' = pull PROVE FloorRecorded'
  BY <1>1, <1>2, RecordsKept DEF FloorRecorded
<1>3. CASE BeginPull
  <2>1. PICK floor \in {1} \cup {a[2] : a \in answers} :
          pull' = [todo |-> Parts, rev |-> 1, floor |-> floor, count |-> pull.count + 1]
    BY <1>3 DEF BeginPull
  <2>2. remembered' = remembered
    BY <1>3 DEF BeginPull, tables
  <2>3. floor = 1 \/ \E k \in Keys : remembered[k] = floor /\ floor # 0
    BY <2>1 DEF FloorRecorded
  <2> QED
    BY <1>1, <2>1, <2>2, <2>3 DEF FloorRecorded, Parts
<1>4. ASSUME NEW x \in Parts, ReadPart(x) PROVE FloorRecorded'
  <2>0. PICK page \in SUBSET Sessions : \E rev \in {pull.rev} \cup Part(x, page) :
          /\ Largest(rev, {pull.rev} \cup Part(x, page))
          /\ pull' = [todo |-> pull.todo \ {x}, rev |-> rev, floor |-> pull.floor, count |-> pull.count]
    BY <1>4 DEF ReadPart
  <2>1. PICK rev \in {pull.rev} \cup Part(x, page) :
          /\ Largest(rev, {pull.rev} \cup Part(x, page))
          /\ pull' = [todo |-> pull.todo \ {x}, rev |-> rev, floor |-> pull.floor, count |-> pull.count]
    BY <2>0
  <2>2. remembered' = remembered
    BY <1>4 DEF ReadPart, tables
  <2>3. rev >= pull.rev /\ \A n \in Part(x, page) : rev >= n
    BY <2>1 DEF Largest
  <2>4. Part(x, page) \subseteq Nat /\ rev \in Nat /\ pull.rev \in Nat /\ pull.floor \in Nat
    <3>1. Part(x, page) \subseteq Nat
      BY <1>0 DEF Part, Parts, Entities, TypeOK
    <3> QED
      BY <1>0, <2>1, <3>1 DEF TypeOK
  <2>5. rev >= 1
    BY <2>3, <2>4 DEF FloorRecorded
  <2>6. CASE x = "sync"
    <3>1. \A k \in Keys : remembered[k] \in Part(x, page)
      BY <2>6 DEF Part
    <3>2. rev >= pull.floor
      BY <2>3, <2>5, <3>1 DEF FloorRecorded
    <3> QED
      BY <1>1, <2>1, <2>2, <2>5, <3>2 DEF FloorRecorded
  <2>7. CASE x # "sync"
    <3>1. "sync" \notin pull.todo \ {x} => rev >= pull.floor
      BY <2>3, <2>4, <2>7 DEF FloorRecorded
    <3> QED
      BY <1>1, <2>1, <2>2, <2>5, <3>1 DEF FloorRecorded
  <2> QED
    BY <2>6, <2>7
<1>5. CASE \E r \in Requests : Step(r)
  BY <1>2, <1>5 DEF Step, Catalogue, SaveRow, Mirror, ReadProfile, WriteProfile, MirrorProfile,
                    Remember, Answer
<1>6. CASE \E r \in Requests : Abandon(r) \/ \E p \in Pushes : Push(r, p)
  BY <1>2, <1>6 DEF Abandon, Push
<1>7. CASE \E s \in Sessions : DeleteSummary(s)
  BY <1>2, <1>7 DEF DeleteSummary
<1>8. CASE \E fields \in Patches : UpdateMe(fields)
  BY <1>2, <1>8 DEF UpdateMe
<1>9. CASE UNCHANGED vars
  BY <1>2, <1>9 DEF vars
<1> QED
  BY <1>3, <1>4, <1>5, <1>6, <1>7, <1>8, <1>9 DEF Next

\* A pull never returns less than what was answered before it began.
THEOREM PullsNotBehind == Spec => []PullNotBehind
<1>1. Init => FloorRecorded
  BY DEF Init, FloorRecorded
<1>2. FloorRecorded => PullNotBehind
  BY DEF FloorRecorded, PullNotBehind
<1> QED
  BY <1>1, <1>2, FloorInductive, PushInvariant, PTL DEF Spec
=============================================================================
