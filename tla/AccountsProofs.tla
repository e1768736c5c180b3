-------------------------- MODULE AccountsProofs --------------------------
(***************************************************************************)
(* Safety of Accounts, for any number of requests, users and tokens and    *)
(* any lifetime, along four inductive invariants.                          *)
(*                                                                         *)
(*   TokensInv: token values are fresh, a rotation links a token to its    *)
(*   successor, and a token's user exists.                                 *)
(*   UsersInv: ids are fresh, and who is about to be erased is audited.    *)
(*   GuestInv: a guest that is owed a token has one or is about to.        *)
(*   ClosingInv: a closing account has room for the refreshes under way.   *)
(***************************************************************************)
EXTENDS Accounts, FiniteSetTheorems, TLAPS

\* Generated ids and token values are never generated again.
Freshness ==
    /\ \A u \in Users : user[u] # None => u \in born
    /\ \A t \in Tokens : token[t] # None => t \in minted
    /\ held \subseteq minted
    /\ \A r \in Requests : request[r].phase \in {"rotate", "answer"} => request[r].token \in minted

\* No stored token outlives one that would be issued now.
ExpiresBounded == \A t \in Tokens : token[t] # None => token[t].expires <= now + RefreshLifetime

\* A request about to delete a user has written the audit row.
ErasersAudited == \A r \in Requests : request[r].phase = "erase" => <<"DATA_DELETE", request[r].user>> \in audits

-----------------------------------------------------------------------------
\* A new token is a token row.
LEMMA NewTokenRow ==
  ASSUME TypeOK, NEW u \in Users, NEW parent \in Tokens \cup {None}
  PROVE  /\ NewToken(u, parent) \in TokenRow
         /\ NewToken(u, parent) # None
         /\ NewToken(u, parent).user = u
         /\ NewToken(u, parent).expires = now + RefreshLifetime
         /\ ~NewToken(u, parent).revoked
         /\ NewToken(u, parent).next = None
         /\ NewToken(u, parent).prev = parent
<1>1. NewToken(u, parent) \in TokenRow
  BY LifetimeAssumption DEF NewToken, TokenRow, TypeOK
<1> QED
  BY <1>1, NoneIsNoRow DEF NewToken

\* What the rotation transaction makes of the token table.
LEMMA RotatedRows ==
  ASSUME TypeOK, NEW t \in Tokens, token[t] # None, NEW n \in Tokens, n # t
  PROVE  /\ Rotated(t, n) \in [Tokens -> TokenRow \cup {None}]
         /\ Rotated(t, n)[n] = NewToken(token[t].user, t)
         /\ Rotated(t, n)[t] \in TokenRow
         /\ Rotated(t, n)[t] # None
         /\ Rotated(t, n)[t].user = token[t].user
         /\ Rotated(t, n)[t].expires = token[t].expires
         /\ Rotated(t, n)[t].prev = token[t].prev
         /\ Rotated(t, n)[t].revoked
         /\ Rotated(t, n)[t].next = n
         /\ \A x \in Tokens : x # t /\ x # n => Rotated(t, n)[x] = token[x]
         /\ \A x \in Tokens : (Rotated(t, n)[x] = None) => (token[x] = None) /\ x # n
<1>1. token[t] \in TokenRow /\ token[t].user \in Users
  BY DEF TypeOK, TokenRow
<1>2. NewToken(token[t].user, t) \in TokenRow
  BY <1>1, NewTokenRow
<1> DEFINE old == [token[t] EXCEPT !.revoked = TRUE, !.next = n]
<1>3. /\ old \in TokenRow
      /\ old.revoked /\ old.next = n
      /\ old.user = token[t].user /\ old.expires = token[t].expires /\ old.prev = token[t].prev
  BY <1>1 DEF TokenRow
<1>4. Rotated(t, n) = [token EXCEPT ![t] = old, ![n] = NewToken(token[t].user, t)]
  BY DEF Rotated
<1> HIDE DEF old
<1>5. /\ Rotated(t, n)[t] = old
      /\ Rotated(t, n)[n] = NewToken(token[t].user, t)
      /\ \A x \in Tokens : x # t /\ x # n => Rotated(t, n)[x] = token[x]
  BY <1>4 DEF TypeOK
<1>6. Rotated(t, n) \in [Tokens -> TokenRow \cup {None}]
  BY <1>2, <1>3, <1>4 DEF TypeOK
<1> QED
  BY <1>2, <1>3, <1>5, <1>6, NoneIsNoRow

\* Revoking all tokens of a user changes nothing but their revocation.
LEMMA RevokedAllRows ==
  ASSUME TypeOK, NEW u \in Users
  PROVE  /\ RevokedAll(u) \in [Tokens -> TokenRow \cup {None}]
         /\ \A t \in Tokens \ TokensOf(u) : RevokedAll(u)[t] = token[t]
         /\ \A t \in TokensOf(u) :
              /\ RevokedAll(u)[t] \in TokenRow
              /\ RevokedAll(u)[t] # None
              /\ RevokedAll(u)[t].revoked
              /\ RevokedAll(u)[t].user = token[t].user
              /\ RevokedAll(u)[t].expires = token[t].expires
              /\ RevokedAll(u)[t].next = token[t].next
              /\ RevokedAll(u)[t].prev = token[t].prev
<1>1. ASSUME NEW t \in TokensOf(u)
      PROVE  /\ RevokedAll(u)[t] \in TokenRow
             /\ RevokedAll(u)[t].revoked
             /\ RevokedAll(u)[t].user = token[t].user
             /\ RevokedAll(u)[t].expires = token[t].expires
             /\ RevokedAll(u)[t].next = token[t].next
             /\ RevokedAll(u)[t].prev = token[t].prev
  <2>1. t \in Tokens /\ token[t] \in TokenRow
    BY DEF TokensOf, TypeOK
  <2>2. RevokedAll(u)[t] = [token[t] EXCEPT !.revoked = TRUE]
    BY <2>1 DEF RevokedAll
  <2> QED
    BY <2>1, <2>2 DEF TokenRow
<1>2. \A t \in Tokens \ TokensOf(u) : RevokedAll(u)[t] = token[t]
  BY DEF RevokedAll
<1>3. RevokedAll(u) = [t \in Tokens |-> RevokedAll(u)[t]]
  BY DEF RevokedAll
<1>4. \A t \in Tokens : RevokedAll(u)[t] \in TokenRow \cup {None}
  BY <1>1, <1>2 DEF TypeOK
<1> QED
  BY <1>1, <1>2, <1>3, <1>4, NoneIsNoRow

\* A logout changes nothing but one revocation.
LEMMA LoggedOutRow ==
  ASSUME TypeOK, NEW t \in Tokens, Logout(t)
  PROVE  /\ token' \in [Tokens -> TokenRow \cup {None}]
         /\ token'[t] \in TokenRow
         /\ token'[t] # None
         /\ token'[t].revoked
         /\ token'[t].user = token[t].user
         /\ token'[t].expires = token[t].expires
         /\ token'[t].next = token[t].next
         /\ token'[t].prev = token[t].prev
         /\ \A x \in Tokens : x # t => token'[x] = token[x]
<1>1. token[t] \in TokenRow
  BY DEF Logout, Live, TypeOK
<1>2. token' = [token EXCEPT ![t] = [token[t] EXCEPT !.revoked = TRUE]]
  BY DEF Logout
<1>3. [token[t] EXCEPT !.revoked = TRUE] \in TokenRow
  BY <1>1 DEF TokenRow
<1> QED
  BY <1>1, <1>2, <1>3, NoneIsNoRow DEF TokenRow, TypeOK

-----------------------------------------------------------------------------
\* A request that is in a phase holds what the phase needs.
Holds(st) ==
    /\ st \in Request
    /\ st.phase = "create" => st.email \in Emails
    /\ st.phase \in {"issue", "rotate", "answer", "erase"} => st.user \in Users
    /\ st.phase \in {"rotate", "answer"} => st.token \in Tokens

\* Moving one request on keeps the others as they are.
LEMMA GotoHolds ==
  ASSUME TypeOK, NEW r \in Requests, NEW st, Holds(st), Goto(r, st)
  PROVE  /\ request' \in [Requests -> Request]
         /\ \A q \in Requests : Holds(request'[q])
         /\ request'[r] = st
         /\ \A q \in Requests : q # r => request'[q] = request[q]
  BY DEF Goto, TypeOK, Holds

\* The states of a request that the steps move to.
LEMMA HoldsStates ==
  /\ Holds(Idle)
  /\ \A u \in Users : Holds([Idle EXCEPT !.phase = "issue", !.user = u])
  /\ \A e \in Emails : Holds([Idle EXCEPT !.phase = "create", !.email = e])
  /\ \A u \in Users : Holds([Idle EXCEPT !.phase = "erase", !.user = u])
  /\ \A u \in Users, t \in Tokens :
       Holds([Idle EXCEPT !.phase = "rotate", !.user = u, !.token = t])
  /\ \A u \in Users, t \in Tokens :
       Holds([Idle EXCEPT !.phase = "answer", !.user = u, !.token = t])
  BY DEF Holds, Request, Idle, Phase

\* Every step keeps the type invariant.
LEMMA TypeOKInductive == TypeOK /\ [Next]_vars => TypeOK'
<1> SUFFICES ASSUME TypeOK, [Next]_vars PROVE TypeOK'
  OBVIOUS
<1> DEFINE RequestsOK == request' \in [Requests -> Request] /\ \A q \in Requests : Holds(request'[q])
<1>typed. ASSUME RequestsOK,
                 user' \in [Users -> UserRow \cup {None}],
                 token' \in [Tokens -> TokenRow \cup {None}],
                 audits' \subseteq (Reason \X Users), now' \in Nat, born' \subseteq Users,
                 minted' \subseteq Tokens, held' \subseteq Tokens,
                 clients' \subseteq Users, forfeited' \subseteq Users
          PROVE  TypeOK'
  BY <1>typed DEF TypeOK, Holds
<1>same. request' = request => RequestsOK
  BY DEF TypeOK, Holds
<1> HIDE DEF RequestsOK
<1>1. ASSUME NEW r \in Requests, NEW u \in Users, CreateGuest(r, u) PROVE TypeOK'
  <2>1. RequestsOK
    BY <1>1, GotoHolds, HoldsStates DEF CreateGuest, RequestsOK
  <2>2. user' \in [Users -> UserRow \cup {None}]
    BY <1>1 DEF CreateGuest, NewUser, UserRow, Status, TypeOK
  <2> QED
    BY <1>typed, <1>1, <2>1, <2>2 DEF CreateGuest, NewUser, TypeOK
<1>2. ASSUME NEW r \in Requests, NEW e \in Emails, SignupLookup(r, e) PROVE TypeOK'
  <2>1. RequestsOK
    BY <1>2, GotoHolds, HoldsStates DEF SignupLookup, RequestsOK
  <2> QED
    BY <1>typed, <1>2, <2>1 DEF SignupLookup, TypeOK
<1>3. ASSUME NEW r \in Requests, NEW u \in Users, SignupCreate(r, u) PROVE TypeOK'
  <2>1. RequestsOK
    BY <1>3, GotoHolds, HoldsStates DEF SignupCreate, RequestsOK
  <2>2. request[r].email \in Emails
    BY <1>3 DEF SignupCreate, TypeOK
  <2>3. user' \in [Users -> UserRow \cup {None}] /\ born' \subseteq Users
    BY <1>3, <2>2 DEF SignupCreate, NewUser, UserRow, Status, TypeOK
  <2> QED
    BY <1>typed, <1>3, <2>1, <2>3 DEF SignupCreate, TypeOK
<1>4. ASSUME NEW r \in Requests, NEW u \in Users, LoginLookup(r, u) PROVE TypeOK'
  <2>1. RequestsOK
    BY <1>4, GotoHolds, HoldsStates DEF LoginLookup, RequestsOK
  <2> QED
    BY <1>typed, <1>4, <2>1 DEF LoginLookup, TypeOK
<1>5. ASSUME NEW r \in Requests, NEW n \in Tokens, Issue(r, n) PROVE TypeOK'
  <2>1. request[r].user \in Users
    BY <1>5 DEF Issue, TypeOK
  <2>2. NewToken(request[r].user, None) \in TokenRow
    BY <2>1, NewTokenRow
  <2>3. RequestsOK
    BY <1>5, <2>1, GotoHolds, HoldsStates DEF Issue, RequestsOK
  <2> QED
    BY <1>typed, <1>5, <2>2, <2>3 DEF TypeOK, Issue
<1>6. ASSUME NEW r \in Requests, NEW t \in Tokens, RefreshLookup(r, t) PROVE TypeOK'
  <2>1. token[t].user \in Users
    BY <1>6 DEF RefreshLookup, Refreshable, Live, TypeOK, TokenRow
  <2>2. RequestsOK
    BY <1>6, <2>1, GotoHolds, HoldsStates DEF RefreshLookup, AfterLookup, RequestsOK
  <2> QED
    BY <1>typed, <1>6, <2>2 DEF RefreshLookup, TypeOK
<1>7. ASSUME NEW r \in Requests, NEW n \in Tokens, Rotate(r, n) PROVE TypeOK'
  <2> DEFINE t == request[r].token
  <2>1. t \in Tokens
    BY <1>7 DEF Rotate, TypeOK
  <2>2. CASE token[t] # None
    <3>1. token[t] \in TokenRow /\ token[t].user \in Users
      BY <2>1, <2>2 DEF TypeOK, TokenRow
    <3>2. Rotated(t, n) \in [Tokens -> TokenRow \cup {None}]
      <4>1. NewToken(token[t].user, t) \in TokenRow
        BY <2>1, <3>1, NewTokenRow
      <4>2. [token[t] EXCEPT !.revoked = TRUE, !.next = n] \in TokenRow
        BY <3>1 DEF TokenRow
      <4> QED
        BY <4>1, <4>2 DEF Rotated, TypeOK
    <3>3. RequestsOK
      BY <1>7, <2>1, <2>2, <3>1, GotoHolds, HoldsStates DEF Rotate, RequestsOK
    <3> QED
      BY <1>typed, <1>7, <2>1, <2>2, <3>2, <3>3 DEF TypeOK, Rotate
  <2>3. CASE token[t] = None
    <3>1. RequestsOK
      BY <1>7, <2>3, GotoHolds, HoldsStates DEF Rotate, RequestsOK
    <3> QED
      BY <1>typed, <1>7, <2>3, <3>1 DEF TypeOK, Rotate
  <2> QED
    BY <2>2, <2>3
<1>8. ASSUME NEW r \in Requests, Answer(r) PROVE TypeOK'
  <2>1. RequestsOK
    BY <1>8, GotoHolds, HoldsStates DEF Answer, RequestsOK
  <2>2. request[r].token \in Tokens /\ request[r].user \in Users
    BY <1>8 DEF Answer, TypeOK
  <2> QED
    BY <1>typed, <1>8, <2>1, <2>2 DEF Answer, TypeOK
<1>9. ASSUME NEW t \in Tokens, Logout(t) PROVE TypeOK'
  <2>1. token[t].user \in Users
    BY <1>9 DEF Logout, Live, TypeOK, TokenRow
  <2> QED
    BY <1>typed, <1>same, <1>9, <2>1, LoggedOutRow DEF TypeOK, Logout
<1>10. ASSUME NEW u \in Users, RequestAccountDeletion(u) PROVE TypeOK'
  <2>1. [user[u] EXCEPT !.status = "DELETION_REQUESTED"] \in UserRow
    BY <1>10 DEF RequestAccountDeletion, Exists, TypeOK, UserRow, Status
  <2>2. user' \in [Users -> UserRow \cup {None}]
    BY <1>10, <2>1 DEF RequestAccountDeletion, Deactivated, TypeOK
  <2> QED
    BY <1>typed, <1>same, <1>10, <2>2, RevokedAllRows DEF TypeOK, RequestAccountDeletion, Reason
<1>11. ASSUME NEW r \in Requests, NEW u \in Users, AuditErase(r, u) PROVE TypeOK'
  <2>1. RequestsOK
    BY <1>11, GotoHolds, HoldsStates DEF AuditErase, RequestsOK
  <2> QED
    BY <1>typed, <1>11, <2>1 DEF TypeOK, AuditErase, AuditedNow, Reason
<1>12. ASSUME NEW r \in Requests, Erase(r) PROVE TypeOK'
  <2>1. RequestsOK
    BY <1>12, GotoHolds, HoldsStates DEF Erase, RequestsOK
  <2> QED
    BY <1>typed, <1>12, <2>1 DEF TypeOK, Erase, WithoutTokensOf
<1>13. ASSUME NEW r \in Requests, Abandon(r) PROVE TypeOK'
  <2>1. RequestsOK
    BY <1>13, GotoHolds, HoldsStates DEF Abandon, RequestsOK
  <2>2. request[r].phase \in {"issue", "answer"} => request[r].user \in Users
    BY DEF TypeOK
  <2> QED
    BY <1>typed, <1>13, <2>1, <2>2 DEF TypeOK, Abandon
<1>14. CASE Tick
  BY <1>typed, <1>same, <1>14 DEF TypeOK, Tick
<1>15. CASE UNCHANGED vars
  BY <1>15 DEF TypeOK, vars
<1> QED
  BY <1>1, <1>2, <1>3, <1>4, <1>5, <1>6, <1>7, <1>8, <1>9, <1>10, <1>11, <1>12,
     <1>13, <1>14, <1>15 DEF Next

\* Type correctness of the account tables and of the requests.
THEOREM AccountsTypeCorrect == Spec => []TypeOK
<1>1. Init => TypeOK
  BY DEF Init, TypeOK, Request, Idle, Phase
<1> QED
  BY <1>1, TypeOKInductive, PTL DEF Spec

-----------------------------------------------------------------------------
TokensInv ==
    /\ TypeOK
    /\ Freshness
    /\ NoOrphanTokens
    /\ ExpiresBounded
    /\ RotationChain

\* Freshness of ids follows a request that moves on to a state whose token, if
\* it has one, has been minted.
LEMMA FreshnessKept ==
  ASSUME TypeOK, Freshness, NEW r \in Requests, NEW st, Holds(st), Goto(r, st),
         st.phase \in {"rotate", "answer"} => st.token \in minted',
         \A u \in Users : user'[u] # None => u \in born',
         \A t \in Tokens : token'[t] # None => t \in minted',
         held' \subseteq minted', minted \subseteq minted'
  PROVE  Freshness'
<1>1. /\ request'[r] = st
      /\ \A q \in Requests : q # r => request'[q] = request[q]
  BY GotoHolds
<1> QED
  BY <1>1 DEF Freshness

\* A step that stores no token keeps the facts about tokens when it removes no
\* user and does not turn the clock back.
LEMMA TokensUntouched ==
  ASSUME TokensInv, TypeOK', Freshness', token' = token, now' >= now,
         \A u \in Users : user[u] # None => user'[u] # None
  PROVE  TokensInv'
<1>1. \A t \in Tokens : token[t] # None => token[t].user \in Users /\ token[t].expires \in Nat
  BY DEF TokensInv, TypeOK, TokenRow
<1>2. NoOrphanTokens'
  BY <1>1 DEF TokensInv, NoOrphanTokens
<1>3. now \in Nat /\ now' \in Nat /\ RefreshLifetime \in Nat
  BY LifetimeAssumption DEF TokensInv, TypeOK
<1>4. ExpiresBounded'
  BY <1>1, <1>3 DEF TokensInv, ExpiresBounded
<1>5. RotationChain'
  BY DEF TokensInv, RotationChain
<1> QED
  BY <1>2, <1>4, <1>5 DEF TokensInv

\* A step that only revokes tokens keeps them too.
LEMMA TokensRevoked ==
  ASSUME TokensInv, TypeOK', Freshness', now' = now,
         \A u \in Users : user[u] # None => user'[u] # None,
         \A t \in Tokens : token[t] = None => token'[t] = None,
         \A t \in Tokens : token[t] # None =>
            /\ token'[t] # None
            /\ token[t].revoked => token'[t].revoked
            /\ token'[t].user = token[t].user
            /\ token'[t].expires = token[t].expires
            /\ token'[t].next = token[t].next
            /\ token'[t].prev = token[t].prev
  PROVE  TokensInv'
<1>1. \A t \in Tokens : token[t] # None =>
        token[t].user \in Users /\ token[t].expires \in Nat /\ token[t].next \in Tokens \cup {None}
  BY DEF TokensInv, TypeOK, TokenRow
<1>2. NoOrphanTokens'
  BY <1>1 DEF TokensInv, NoOrphanTokens
<1>3. ExpiresBounded'
  BY DEF TokensInv, ExpiresBounded
<1>4. RotationChain'
  <2> SUFFICES ASSUME NEW t \in Tokens, token'[t] # None, token'[t].next # None
               PROVE  LET n == token'[t].next
                      IN  /\ token'[t].revoked
                          /\ token'[n] # None
                          /\ token'[n].user = token'[t].user
                          /\ token'[n].prev = t
                          /\ token'[n].expires >= token'[t].expires
    BY DEF RotationChain
  <2>1. token[t] # None /\ token[t].next # None /\ token[t].next \in Tokens
    BY <1>1
  <2> QED
    BY <2>1 DEF TokensInv, RotationChain
<1> QED
  BY <1>2, <1>3, <1>4 DEF TokensInv

\* A step that stores one new token for an existing user, and at most revokes
\* its predecessor and links it to the new one, keeps them as well.
LEMMA TokenStored ==
  ASSUME TokensInv, TypeOK', Freshness', now' = now, user' = user,
         NEW n \in Tokens \ minted, NEW u \in Users, user[u] # None,
         NEW p \in Tokens \cup {None},
         token'[n] = NewToken(u, p),
         p # None => /\ p # n
                     /\ token[p] # None
                     /\ token[p].user = u
                     /\ token'[p] # None
                     /\ token'[p].user = u
                     /\ token'[p].expires = token[p].expires
                     /\ token'[p].prev = token[p].prev
                     /\ token'[p].revoked
                     /\ token'[p].next = n,
         \A t \in Tokens : t # n /\ t # p => token'[t] = token[t]
  PROVE  TokensInv'
<1> USE NoneDistinct
<1>1. /\ token'[n] # None
      /\ token'[n].user = u
      /\ token'[n].expires = now + RefreshLifetime
      /\ token'[n].next = None
      /\ token'[n].prev = p
  BY NewTokenRow DEF TokensInv
<1>2. token[n] = None
  BY DEF TokensInv, Freshness
<1>3. \A t \in Tokens : token[t] # None =>
        /\ token[t].user \in Users
        /\ token[t].expires \in Nat
        /\ token[t].expires <= now + RefreshLifetime
        /\ token[t].next \in Tokens \cup {None}
  BY DEF TokensInv, TypeOK, TokenRow, ExpiresBounded
<1>4. now \in Nat /\ RefreshLifetime \in Nat
  BY LifetimeAssumption DEF TokensInv, TypeOK
<1>5. \A t \in Tokens : t # n =>
        /\ (token'[t] = None) = (token[t] = None)
        /\ token[t] # None => /\ token'[t].user = token[t].user
                              /\ token'[t].expires = token[t].expires
                              /\ token'[t].prev = token[t].prev
  OBVIOUS
<1>6. NoOrphanTokens'
  BY <1>1, <1>3, <1>5 DEF TokensInv, NoOrphanTokens
<1>7. ExpiresBounded'
  BY <1>1, <1>3, <1>4, <1>5 DEF ExpiresBounded
<1>8. RotationChain'
  <2> SUFFICES ASSUME NEW t \in Tokens, token'[t] # None, token'[t].next # None
               PROVE  LET m == token'[t].next
                      IN  /\ token'[t].revoked
                          /\ token'[m] # None
                          /\ token'[m].user = token'[t].user
                          /\ token'[m].prev = t
                          /\ token'[m].expires >= token'[t].expires
    BY DEF RotationChain
  <2>1. t # n
    BY <1>1
  <2>2. CASE t = p
    BY <1>1, <1>3, <1>4, <2>1, <2>2
  <2>3. CASE t # p
    <3>1. token'[t] = token[t]
      BY <2>1, <2>3
    <3> DEFINE m == token[t].next
    <3>2. /\ m \in Tokens
          /\ token[t].revoked
          /\ token[m] # None
          /\ token[m].user = token[t].user
          /\ token[m].prev = t
          /\ token[m].expires >= token[t].expires
      BY <1>3, <3>1 DEF TokensInv, RotationChain
    <3>3. m # n
      BY <1>2, <3>2
    <3> QED
      BY <1>5, <3>1, <3>2, <3>3
  <2> QED
    BY <2>2, <2>3
<1> QED
  BY <1>6, <1>7, <1>8 DEF TokensInv

\* The facts about tokens hold initially.
LEMMA InitTokensInv == Init => TokensInv
  BY DEF Init, TokensInv, TypeOK, Freshness, NoOrphanTokens, ExpiresBounded, RotationChain,
         Request, Idle, Phase

\* Every step keeps the facts about tokens.
LEMMA TokensInvInductive == TokensInv /\ [Next]_vars => TokensInv'
<1> SUFFICES ASSUME TokensInv, [Next]_vars PROVE TokensInv'
  OBVIOUS
<1>typed. TypeOK /\ TypeOK' /\ Freshness
  BY TypeOKInductive DEF TokensInv
<1>clock. now \in Nat
  BY <1>typed DEF TypeOK
<1> USE NoneDistinct
<1>1. ASSUME NEW r \in Requests, NEW u \in Users, CreateGuest(r, u) PROVE TokensInv'
  <2>1. Freshness'
    BY <1>typed, <1>1, FreshnessKept, HoldsStates DEF CreateGuest, NewUser, Freshness, Idle, TypeOK
  <2>2. \A v \in Users : user[v] # None => user'[v] # None
    BY <1>typed, <1>1 DEF CreateGuest, NewUser, Freshness, TypeOK
  <2> QED
    BY <1>typed, <1>clock, <1>1, <2>1, <2>2, TokensUntouched DEF CreateGuest
<1>2. ASSUME NEW r \in Requests, NEW e \in Emails, SignupLookup(r, e) PROVE TokensInv'
  <2>1. Freshness'
    BY <1>typed, <1>2, FreshnessKept, HoldsStates DEF SignupLookup, Freshness, Idle
  <2> QED
    BY <1>typed, <1>clock, <1>2, <2>1, TokensUntouched DEF SignupLookup
<1>3. ASSUME NEW r \in Requests, NEW u \in Users, SignupCreate(r, u) PROVE TokensInv'
  <2>1. \A v \in Users : user[v] # None => user'[v] # None
    <3>1. CASE UniqueViolation(request[r].email)
      BY <1>3, <3>1 DEF SignupCreate
    <3>2. CASE ~UniqueViolation(request[r].email)
      BY <1>typed, <1>3, <3>2 DEF SignupCreate, NewUser, Freshness, TypeOK
    <3> QED
      BY <3>1, <3>2
  <2>2. Freshness'
    <3>1. CASE UniqueViolation(request[r].email)
      BY <1>typed, <1>3, <3>1, FreshnessKept, HoldsStates DEF SignupCreate, Freshness, Idle
    <3>2. CASE ~UniqueViolation(request[r].email)
      BY <1>typed, <1>3, <3>2, FreshnessKept, HoldsStates DEF SignupCreate, NewUser, Freshness, Idle, TypeOK
    <3> QED
      BY <3>1, <3>2
  <2> QED
    BY <1>typed, <1>clock, <1>3, <2>1, <2>2, TokensUntouched DEF SignupCreate
<1>4. ASSUME NEW r \in Requests, NEW u \in Users, LoginLookup(r, u) PROVE TokensInv'
  <2>1. Freshness'
    BY <1>typed, <1>4, FreshnessKept, HoldsStates DEF LoginLookup, Freshness, Idle
  <2> QED
    BY <1>typed, <1>clock, <1>4, <2>1, TokensUntouched DEF LoginLookup
<1>5. ASSUME NEW r \in Requests, NEW n \in Tokens, Issue(r, n) PROVE TokensInv'
  <2>1. request[r].user \in Users
    BY <1>typed, <1>5 DEF Issue, TypeOK
  <2>2. CASE Exists(request[r].user)
    <3>1. PICK u \in Users : u = request[r].user
      BY <2>1
    <3>2. /\ n \in Tokens \ minted
          /\ token' = [token EXCEPT ![n] = NewToken(u, None)]
          /\ minted' = minted \cup {n}
          /\ Goto(r, [Idle EXCEPT !.phase = "answer", !.user = u, !.token = n])
          /\ user[u] # None
          /\ user' = user /\ now' = now /\ born' = born /\ held' = held
      BY <1>5, <2>2, <3>1 DEF Issue, UserReference, Exists
    <3>3. Freshness'
      BY <1>typed, <3>2, FreshnessKept, HoldsStates DEF Freshness, Idle, TypeOK
    <3>4. /\ token'[n] = NewToken(u, None)
          /\ \A t \in Tokens : t # n => token'[t] = token[t]
      BY <1>typed, <3>2 DEF TypeOK
    <3> QED
      BY <1>typed, <3>2, <3>3, <3>4, TokenStored
  <2>3. CASE ~Exists(request[r].user)
    <3>1. Freshness'
      BY <1>typed, <1>5, <2>3, FreshnessKept, HoldsStates DEF Issue, UserReference, Freshness, Idle
    <3> QED
      BY <1>typed, <1>clock, <1>5, <2>3, <3>1, TokensUntouched DEF Issue, UserReference
  <2> QED
    BY <2>2, <2>3
<1>6. ASSUME NEW r \in Requests, NEW t \in Tokens, RefreshLookup(r, t) PROVE TokensInv'
  <2>1. token[t].user \in Users /\ t \in minted
    BY <1>typed, <1>6 DEF RefreshLookup, Refreshable, Live, TypeOK, TokenRow, Freshness
  <2>2. Freshness'
    BY <1>typed, <1>6, <2>1, FreshnessKept, HoldsStates DEF RefreshLookup, AfterLookup, Freshness, Idle
  <2> QED
    BY <1>typed, <1>clock, <1>6, <2>2, TokensUntouched DEF RefreshLookup
<1>7. ASSUME NEW r \in Requests, NEW n \in Tokens, Rotate(r, n) PROVE TokensInv'
  <2>1. PICK t \in Tokens : t = request[r].token
    BY <1>typed, <1>7 DEF Rotate, TypeOK
  <2>2. CASE token[t] # None
    <3>1. PICK u \in Users : u = token[t].user
      BY <1>typed, <2>2 DEF TypeOK, TokenRow
    <3>2. /\ n \in Tokens \ minted
          /\ token' = Rotated(t, n)
          /\ minted' = minted \cup {n}
          /\ Goto(r, [Idle EXCEPT !.phase = "answer", !.user = u, !.token = n])
          /\ user' = user /\ now' = now /\ born' = born /\ held' = held
      BY <1>7, <2>1, <2>2, <3>1 DEF Rotate
    <3>3. t \in minted /\ t # n /\ user[u] # None
      BY <1>typed, <2>2, <3>1, <3>2 DEF Freshness, TokensInv, NoOrphanTokens
    <3>4. \A x \in Tokens : token'[x] # None => x \in minted'
      BY <1>typed, <2>2, <3>2, <3>3, RotatedRows DEF Freshness
    <3>5. Freshness'
      BY <1>typed, <3>2, <3>4, FreshnessKept, HoldsStates DEF Freshness, Idle
    <3>6. /\ token'[n] = NewToken(u, t)
          /\ token'[t] # None
          /\ token'[t].user = u
          /\ token'[t].expires = token[t].expires
          /\ token'[t].prev = token[t].prev
          /\ token'[t].revoked
          /\ token'[t].next = n
          /\ \A x \in Tokens : x # n /\ x # t => token'[x] = token[x]
      BY <1>typed, <2>2, <3>1, <3>2, <3>3, RotatedRows
    <3> QED
      BY <1>typed, <2>2, <3>1, <3>2, <3>3, <3>5, <3>6, TokenStored
  <2>3. CASE token[t] = None
    <3>1. Freshness'
      BY <1>typed, <1>7, <2>1, <2>3, FreshnessKept, HoldsStates DEF Rotate, Freshness, Idle
    <3> QED
      BY <1>typed, <1>clock, <1>7, <2>1, <2>3, <3>1, TokensUntouched DEF Rotate
  <2> QED
    BY <2>2, <2>3
<1>8. ASSUME NEW r \in Requests, Answer(r) PROVE TokensInv'
  <2>1. Freshness'
    BY <1>typed, <1>8, FreshnessKept, HoldsStates DEF Answer, Freshness, Idle
  <2> QED
    BY <1>typed, <1>clock, <1>8, <2>1, TokensUntouched DEF Answer
<1>9. ASSUME NEW t \in Tokens, Logout(t) PROVE TokensInv'
  <2>1. token[t] # None
    BY <1>9 DEF Logout, Live
  <2>2. \A x \in Tokens : (token'[x] = None) = (token[x] = None)
    BY <1>typed, <1>9, <2>1, LoggedOutRow
  <2>3. Freshness'
    BY <1>typed, <1>9, <2>2 DEF Logout, Freshness
  <2> QED
    BY <1>typed, <1>9, <2>2, <2>3, LoggedOutRow, TokensRevoked DEF Logout
<1>10. ASSUME NEW u \in Users, RequestAccountDeletion(u) PROVE TokensInv'
  <2>1. [user[u] EXCEPT !.status = "DELETION_REQUESTED"] \in UserRow
    BY <1>typed, <1>10 DEF RequestAccountDeletion, Exists, TypeOK, UserRow, Status
  <2>2. \A v \in Users : (user'[v] = None) = (user[v] = None)
    BY <1>typed, <1>10, <2>1, NoneIsNoRow DEF RequestAccountDeletion, Deactivated, Exists, TypeOK
  <2>3. token' = RevokedAll(u) /\ now' = now
    BY <1>10 DEF RequestAccountDeletion
  <2>4. /\ \A t \in Tokens : token[t] = None => token'[t] = None
        /\ \A t \in Tokens : token[t] # None =>
            /\ token'[t] # None
            /\ token[t].revoked => token'[t].revoked
            /\ token'[t].user = token[t].user
            /\ token'[t].expires = token[t].expires
            /\ token'[t].next = token[t].next
            /\ token'[t].prev = token[t].prev
    <3>1. \A t \in Tokens : token[t] = None => t \in Tokens \ TokensOf(u)
      BY DEF TokensOf
    <3> QED
      BY <1>typed, <2>3, <3>1, RevokedAllRows
  <2>5. Freshness'
    BY <1>typed, <1>10, <2>2, <2>4 DEF RequestAccountDeletion, Freshness
  <2> QED
    BY <1>typed, <2>2, <2>3, <2>4, <2>5, TokensRevoked
<1>11. ASSUME NEW r \in Requests, NEW u \in Users, AuditErase(r, u) PROVE TokensInv'
  <2>1. Freshness'
    BY <1>typed, <1>11, FreshnessKept, HoldsStates DEF AuditErase, Freshness, Idle
  <2> QED
    BY <1>typed, <1>clock, <1>11, <2>1, TokensUntouched DEF AuditErase
<1>12. ASSUME NEW r \in Requests, Erase(r) PROVE TokensInv'
  <2>1. PICK u \in Users : u = request[r].user
    BY <1>typed, <1>12 DEF Erase, TypeOK
  <2>2. CASE Exists(u)
    <3>1. /\ user' = [user EXCEPT ![u] = None]
          /\ token' = WithoutTokensOf(u)
          /\ now' = now /\ born' = born /\ held' = held /\ minted' = minted
          /\ Goto(r, Idle)
      BY <1>12, <2>1, <2>2 DEF Erase
    <3>2. /\ \A t \in TokensOf(u) : token'[t] = None
          /\ \A t \in Tokens \ TokensOf(u) : token'[t] = token[t]
      BY <3>1 DEF WithoutTokensOf, TokensOf
    <3>3. Freshness'
      <4>1. \A v \in Users : user'[v] # None => v \in born'
        BY <1>typed, <3>1 DEF Freshness, TypeOK
      <4>2. \A t \in Tokens : token'[t] # None => t \in minted'
        BY <1>typed, <3>1, <3>2 DEF Freshness
      <4> QED
        BY <1>typed, <3>1, <4>1, <4>2, FreshnessKept, HoldsStates DEF Freshness, Idle
    <3>4. NoOrphanTokens'
      <4> SUFFICES ASSUME NEW t \in Tokens, token'[t] # None PROVE user'[token'[t].user] # None
        BY DEF NoOrphanTokens
      <4>1. t \notin TokensOf(u)
        BY <3>2
      <4>2. token'[t] = token[t] /\ token[t] # None /\ token[t].user # u
        BY <3>2, <4>1 DEF TokensOf
      <4>3. token[t].user \in Users /\ user[token[t].user] # None
        BY <1>typed, <4>2 DEF TokensInv, NoOrphanTokens, TypeOK, TokenRow
      <4> QED
        BY <1>typed, <3>1, <4>2, <4>3 DEF TypeOK
    <3>5. ExpiresBounded'
      BY <1>typed, <3>1, <3>2 DEF TokensInv, ExpiresBounded
    <3>6. RotationChain'
      <4> SUFFICES ASSUME NEW t \in Tokens, token'[t] # None, token'[t].next # None
                   PROVE  LET n == token'[t].next
                          IN  /\ token'[t].revoked
                              /\ token'[n] # None
                              /\ token'[n].user = token'[t].user
                              /\ token'[n].prev = t
                              /\ token'[n].expires >= token'[t].expires
        BY DEF RotationChain
      <4>1. t \notin TokensOf(u)
        BY <3>2
      <4>2. token'[t] = token[t] /\ token[t] # None /\ token[t].user # u
        BY <3>2, <4>1 DEF TokensOf
      <4>3. token[t].next \in Tokens
        BY <1>typed, <4>2 DEF TypeOK, TokenRow
      <4>4. /\ token[t].revoked
            /\ token[token[t].next] # None
            /\ token[token[t].next].user = token[t].user
            /\ token[token[t].next].prev = t
            /\ token[token[t].next].expires >= token[t].expires
        BY <4>2, <4>3 DEF TokensInv, RotationChain
      <4>5. token[t].next \notin TokensOf(u)
        BY <4>2, <4>4 DEF TokensOf
      <4> QED
        BY <3>2, <4>2, <4>3, <4>4, <4>5
    <3> QED
      BY <1>typed, <3>3, <3>4, <3>5, <3>6 DEF TokensInv
  <2>3. CASE ~Exists(u)
    <3>1. Freshness'
      BY <1>typed, <1>12, <2>1, <2>3, FreshnessKept, HoldsStates DEF Erase, Freshness, Idle
    <3> QED
      BY <1>typed, <1>clock, <1>12, <2>1, <2>3, <3>1, TokensUntouched DEF Erase
  <2> QED
    BY <2>2, <2>3
<1>13. ASSUME NEW r \in Requests, Abandon(r) PROVE TokensInv'
  <2>1. Freshness'
    BY <1>typed, <1>13, FreshnessKept, HoldsStates DEF Abandon, Freshness, Idle
  <2> QED
    BY <1>typed, <1>clock, <1>13, <2>1, TokensUntouched DEF Abandon
<1>14. CASE Tick
  <2>1. Freshness'
    BY <1>typed, <1>14 DEF Tick, Freshness
  <2> QED
    BY <1>typed, <1>clock, <1>14, <2>1, TokensUntouched DEF Tick
<1>15. CASE UNCHANGED vars
  <2>1. Freshness'
    BY <1>typed, <1>15 DEF vars, Freshness
  <2> QED
    BY <1>typed, <1>clock, <1>15, <2>1, TokensUntouched DEF vars
<1> QED
  BY <1>1, <1>2, <1>3, <1>4, <1>5, <1>6, <1>7, <1>8, <1>9, <1>10, <1>11, <1>12,
     <1>13, <1>14, <1>15 DEF Next

\* The facts about tokens hold in every reachable state.
THEOREM TokensInvariant == Spec => []TokensInv
  BY InitTokensInv, TokensInvInductive, PTL DEF Spec

\* No token outlives its user.
THEOREM NoOrphans == Spec => []NoOrphanTokens
<1>1. TokensInv => NoOrphanTokens
  BY DEF TokensInv
<1> QED
  BY <1>1, TokensInvariant, PTL

\* replacedByHash links a revoked token to its successor.
THEOREM ChainsHold == Spec => []RotationChain
<1>1. TokensInv => RotationChain
  BY DEF TokensInv
<1> QED
  BY <1>1, TokensInvariant, PTL

-----------------------------------------------------------------------------
\* Of the two facts about users, the erasers' audit rows are what makes the
\* disappearance of a user an audited one.
UsersInv == TypeOK /\ Freshness /\ OneUserPerEmail /\ ErasersAudited /\ AuditTrail

\* AuditTrail, for one user.
Audited(v) ==
    /\ user[v] = None => <<"DATA_DELETE", v>> \in audits
    /\ user[v] # None /\ user[v].status = "DELETION_REQUESTED" =>
         <<"ACCOUNT_DELETION", v>> \in audits

\* No request is about to delete a user that was not about to before the step.
NoNewEraser ==
    \A q \in Requests : request'[q].phase = "erase" =>
        request[q].phase = "erase" /\ request'[q].user = request[q].user

\* Moving a request on to any other phase makes no new eraser.
LEMMA NoEraserAdded ==
  ASSUME TypeOK, NEW r \in Requests, NEW st, Holds(st), st.phase # "erase", Goto(r, st)
  PROVE  NoNewEraser
  BY GotoHolds DEF NoNewEraser

\* The states the other steps move to are such states.
LEMMA NoEraserStates ==
  /\ Idle.phase # "erase"
  /\ \A u \in Users : [Idle EXCEPT !.phase = "issue", !.user = u].phase # "erase"
  /\ \A e \in Emails : [Idle EXCEPT !.phase = "create", !.email = e].phase # "erase"
  /\ \A u \in Users, t \in Tokens :
       [Idle EXCEPT !.phase = "rotate", !.user = u, !.token = t].phase # "erase"
  /\ \A u \in Users, t \in Tokens :
       [Idle EXCEPT !.phase = "answer", !.user = u, !.token = t].phase # "erase"
  BY DEF Idle

\* Every step keeps the facts about users.
LEMMA UsersInvInductive == TokensInv /\ UsersInv /\ [Next]_vars => UsersInv'
<1> SUFFICES ASSUME TokensInv, UsersInv, [Next]_vars PROVE UsersInv'
  OBVIOUS
<1>0. TypeOK /\ Freshness /\ TypeOK' /\ Freshness'
  BY TokensInvInductive DEF TokensInv
<1>1. OneUserPerEmail /\ ErasersAudited /\ AuditTrail
  BY DEF UsersInv
\* The steps that touch neither users nor audit rows.
<1>2. ASSUME user' = user, audits' = audits, born' = born,
             NoNewEraser
      PROVE  UsersInv'
  BY <1>0, <1>1, <1>2 DEF UsersInv, NoNewEraser, OneUserPerEmail, Exists, ErasersAudited, AuditTrail
\* A new user whose email, if any, nobody has.
<1>3. ASSUME NEW u \in Users, NEW e \in Emails \cup {None}, NewUser(u, e),
             e # None => ~Registered(e), audits' = audits,
             NoNewEraser
      PROVE  UsersInv'
  <2>1. /\ user'[u] = [email |-> e, status |-> "ACTIVE"]
        /\ \A v \in Users : v # u => user'[v] = user[v]
        /\ born' = born \cup {u}
    BY <1>0, <1>3 DEF NewUser, TypeOK
  <2>2. user'[u] # None /\ user'[u].email = e /\ user'[u].status = "ACTIVE"
    BY <2>1, NoneIsNoRow DEF UserRow, Status
  <2>3. OneUserPerEmail'
    BY <1>1, <1>3, <2>1, <2>2 DEF OneUserPerEmail, Exists, Registered
  <2>4. ErasersAudited'
    BY <1>1, <1>3 DEF ErasersAudited, NoNewEraser
  <2>5. AuditTrail'
    <3> SUFFICES ASSUME NEW v \in Users, v \in born' PROVE Audited(v)'
      BY <1>0 DEF AuditTrail, Audited, TypeOK
    <3>1. CASE v = u
      BY <2>1, <2>2, <3>1 DEF Audited
    <3>2. CASE v # u
      BY <1>1, <1>3, <2>1, <3>2 DEF AuditTrail, Audited
    <3> QED
      BY <3>1, <3>2
  <2> QED
    BY <1>0, <2>3, <2>4, <2>5 DEF UsersInv
<1> USE NoneDistinct
<1>4. ASSUME NEW r \in Requests, NEW u \in Users, CreateGuest(r, u) PROVE UsersInv'
  <2>1. NoNewEraser
    BY <1>0, <1>4, NoEraserAdded, HoldsStates, NoEraserStates DEF CreateGuest
  <2>2. NewUser(u, None) /\ audits' = audits
    BY <1>4 DEF CreateGuest
  <2> QED
    BY <1>3, <2>1, <2>2
<1>5. ASSUME NEW r \in Requests, NEW e \in Emails, SignupLookup(r, e) PROVE UsersInv'
  <2>1. NoNewEraser
    BY <1>0, <1>5, NoEraserAdded, HoldsStates, NoEraserStates DEF SignupLookup
  <2> QED
    BY <1>2, <1>5, <2>1 DEF SignupLookup
<1>6. ASSUME NEW r \in Requests, NEW u \in Users, SignupCreate(r, u) PROVE UsersInv'
  <2>1. request[r].email \in Emails
    BY <1>0, <1>6 DEF SignupCreate, TypeOK
  <2>2. CASE UniqueViolation(request[r].email)
    <3>1. NoNewEraser
      BY <1>0, <1>6, <2>2, NoEraserAdded, HoldsStates, NoEraserStates DEF SignupCreate
    <3> QED
      BY <1>2, <1>6, <2>2, <3>1 DEF SignupCreate
  <2>3. CASE ~UniqueViolation(request[r].email)
    <3>1. NewUser(u, request[r].email) /\ ~Registered(request[r].email) /\ audits' = audits
      BY <1>6, <2>3 DEF SignupCreate, UniqueViolation
    <3>2. Goto(r, [Idle EXCEPT !.phase = "issue", !.user = u])
      BY <1>6, <2>3 DEF SignupCreate
    <3>3. NoNewEraser
      BY <1>0, <3>2, NoEraserAdded, HoldsStates, NoEraserStates
    <3> QED
      BY <1>3, <2>1, <3>1, <3>3
  <2> QED
    BY <2>2, <2>3
<1>7. ASSUME NEW r \in Requests, NEW u \in Users, LoginLookup(r, u) PROVE UsersInv'
  <2>1. NoNewEraser
    BY <1>0, <1>7, NoEraserAdded, HoldsStates, NoEraserStates DEF LoginLookup
  <2> QED
    BY <1>2, <1>7, <2>1 DEF LoginLookup
<1>8. ASSUME NEW r \in Requests, NEW n \in Tokens, Issue(r, n) PROVE UsersInv'
  <2>1. request[r].user \in Users
    BY <1>0, <1>8 DEF Issue, TypeOK
  <2>2. NoNewEraser
    BY <1>0, <1>8, <2>1, NoEraserAdded, HoldsStates, NoEraserStates DEF Issue
  <2> QED
    BY <1>2, <1>8, <2>2 DEF Issue
<1>9. ASSUME NEW r \in Requests, NEW t \in Tokens, RefreshLookup(r, t) PROVE UsersInv'
  <2>1. token[t].user \in Users
    BY <1>0, <1>9 DEF RefreshLookup, Refreshable, Live, TypeOK, TokenRow
  <2>2. NoNewEraser
    BY <1>0, <1>9, <2>1, NoEraserAdded, HoldsStates, NoEraserStates DEF RefreshLookup, AfterLookup
  <2> QED
    BY <1>2, <1>9, <2>2 DEF RefreshLookup
<1>10. ASSUME NEW r \in Requests, NEW n \in Tokens, Rotate(r, n) PROVE UsersInv'
  <2>1. request[r].token \in Tokens
    BY <1>0, <1>10 DEF Rotate, TypeOK
  <2>2. token[request[r].token] # None => token[request[r].token].user \in Users
    BY <1>0, <2>1 DEF TypeOK, TokenRow
  <2>3. NoNewEraser
    BY <1>0, <1>10, <2>1, <2>2, NoEraserAdded, HoldsStates, NoEraserStates DEF Rotate
  <2> QED
    BY <1>2, <1>10, <2>3 DEF Rotate
<1>11. ASSUME NEW r \in Requests, Answer(r) PROVE UsersInv'
  <2>1. NoNewEraser
    BY <1>0, <1>11, NoEraserAdded, HoldsStates, NoEraserStates DEF Answer
  <2> QED
    BY <1>2, <1>11, <2>1 DEF Answer
<1>12. ASSUME NEW t \in Tokens, Logout(t) PROVE UsersInv'
  BY <1>2, <1>12 DEF Logout, NoNewEraser
<1>13. ASSUME NEW u \in Users, RequestAccountDeletion(u) PROVE UsersInv'
  <2>1. user[u] \in UserRow
    BY <1>0, <1>13 DEF RequestAccountDeletion, Exists, TypeOK
  <2>2. /\ user'[u] # None /\ user'[u].email = user[u].email
        /\ \A v \in Users : v # u => user'[v] = user[v]
    <3>1. user'[u] = [user[u] EXCEPT !.status = "DELETION_REQUESTED"]
      BY <1>0, <1>13 DEF RequestAccountDeletion, Deactivated, TypeOK
    <3>2. user'[u] \in UserRow /\ user'[u].email = user[u].email
      BY <2>1, <3>1 DEF UserRow, Status
    <3>3. \A v \in Users : v # u => user'[v] = user[v]
      BY <1>0, <1>13 DEF RequestAccountDeletion, Deactivated, TypeOK
    <3> QED
      BY <3>2, <3>3, NoneIsNoRow
  <2>3. user[u] # None
    BY <2>1, NoneIsNoRow
  <2>4. OneUserPerEmail'
    BY <1>1, <2>2, <2>3 DEF OneUserPerEmail, Exists
  <2>5. /\ audits' = audits \cup {<<"ACCOUNT_DELETION", u>>}
        /\ request' = request /\ born' = born
    BY <1>13 DEF RequestAccountDeletion
  <2>6. ErasersAudited'
    BY <1>1, <2>5 DEF ErasersAudited
  <2>7. AuditTrail'
    <3> SUFFICES ASSUME NEW v \in Users, v \in born' PROVE Audited(v)'
      BY <1>0 DEF AuditTrail, Audited, TypeOK
    <3>1. CASE v = u
      BY <2>2, <2>5, <3>1 DEF Audited
    <3>2. CASE v # u
      BY <1>1, <2>2, <2>5, <3>2 DEF AuditTrail, Audited
    <3> QED
      BY <3>1, <3>2
  <2> QED
    BY <1>0, <2>4, <2>6, <2>7 DEF UsersInv
<1>14. ASSUME NEW r \in Requests, NEW u \in Users, AuditErase(r, u) PROVE UsersInv'
  <2>1. /\ request'[r].user = u
        /\ \A q \in Requests : q # r => request'[q] = request[q]
        /\ audits' = audits \cup {<<"DATA_DELETE", u>>}
        /\ user' = user /\ born' = born
    <3> DEFINE st == [Idle EXCEPT !.phase = "erase", !.user = u]
    <3>1. st.user = u
      BY DEF Idle
    <3>2. Holds(st)
      BY HoldsStates
    <3>3. Goto(r, st) /\ audits' = audits \cup {<<"DATA_DELETE", u>>} /\ user' = user /\ born' = born
      BY <1>14 DEF AuditErase, AuditedNow
    <3> HIDE DEF st
    <3> QED
      BY <1>0, <3>1, <3>2, <3>3, GotoHolds
  <2>2. ErasersAudited'
    BY <1>1, <2>1 DEF ErasersAudited
  <2>3. OneUserPerEmail' /\ AuditTrail'
    BY <1>1, <2>1 DEF OneUserPerEmail, AuditTrail, Exists
  <2> QED
    BY <1>0, <2>2, <2>3 DEF UsersInv
<1>15. ASSUME NEW r \in Requests, Erase(r) PROVE UsersInv'
  <2>1. PICK u \in Users : u = request[r].user
    BY <1>0, <1>15 DEF Erase, TypeOK
  <2>2. <<"DATA_DELETE", u>> \in audits
    BY <1>1, <1>15, <2>1 DEF Erase, ErasersAudited
  <2>3. /\ request'[r] = Idle
        /\ \A q \in Requests : q # r => request'[q] = request[q]
        /\ audits' = audits /\ born' = born
    BY <1>0, <1>15, GotoHolds, HoldsStates DEF Erase
  <2>4. \A v \in Users : user'[v] = user[v] \/ (v = u /\ user'[v] = None)
    BY <1>0, <1>15, <2>1 DEF Erase, TypeOK
  <2>5. OneUserPerEmail'
    BY <1>1, <2>4 DEF OneUserPerEmail, Exists
  <2>6. ErasersAudited'
    BY <1>1, <2>3 DEF ErasersAudited, Idle
  <2>7. AuditTrail'
    BY <1>0, <1>1, <2>2, <2>3, <2>4 DEF AuditTrail, TypeOK
  <2> QED
    BY <1>0, <2>5, <2>6, <2>7 DEF UsersInv
<1>16. ASSUME NEW r \in Requests, Abandon(r) PROVE UsersInv'
  <2>1. NoNewEraser
    BY <1>0, <1>16, NoEraserAdded, HoldsStates, NoEraserStates DEF Abandon
  <2> QED
    BY <1>2, <1>16, <2>1 DEF Abandon
<1>17. CASE Tick
  BY <1>2, <1>17 DEF Tick, NoNewEraser
<1>18. CASE UNCHANGED vars
  BY <1>2, <1>18 DEF vars, NoNewEraser
<1> QED
  BY <1>4, <1>5, <1>6, <1>7, <1>8, <1>9, <1>10, <1>11, <1>12, <1>13, <1>14, <1>15,
     <1>16, <1>17, <1>18 DEF Next

\* The facts about users hold in every reachable state.
THEOREM UsersInvariant == Spec => []UsersInv
<1>1. Init => UsersInv
  <2> SUFFICES ASSUME Init PROVE UsersInv
    OBVIOUS
  <2>1. TypeOK /\ Freshness
    BY InitTokensInv DEF TokensInv
  <2> QED
    BY <2>1 DEF Init, UsersInv, OneUserPerEmail, Exists, ErasersAudited, AuditTrail, Idle
<1> QED
  BY <1>1, UsersInvInductive, TokensInvariant, PTL DEF Spec

\* Concurrent signups of one email make one user.
THEOREM EmailsUnique == Spec => []OneUserPerEmail
<1>1. UsersInv => OneUserPerEmail
  BY DEF UsersInv
<1> QED
  BY <1>1, UsersInvariant, PTL

\* No user disappears, and no account starts closing, without its audit row.
THEOREM ErasuresAudited == Spec => []AuditTrail
<1>1. UsersInv => AuditTrail
  BY DEF UsersInv
<1> QED
  BY <1>1, UsersInvariant, PTL

-----------------------------------------------------------------------------
\* What a step may do to a revoked token.
StaysRevoked(t) ==
    \/ token'[t] # None /\ token'[t].revoked /\ token'[t].user = token[t].user
    \/ token'[t] = None /\ user'[token[t].user] = None

LEMMA RevokedForGood ==
  ASSUME TypeOK, Freshness, Next, NEW t \in Tokens, token[t] # None, token[t].revoked
  PROVE  StaysRevoked(t)
<1>1. token' = token => StaysRevoked(t)
  BY DEF StaysRevoked
<1>2. ASSUME NEW r \in Requests, NEW n \in Tokens, Issue(r, n) PROVE StaysRevoked(t)
  <2>1. CASE UserReference(request[r].user)
    <3>1. t # n
      BY <1>2, <2>1 DEF Issue, Freshness
    <3>2. token'[t] = token[t]
      BY <1>2, <2>1, <3>1 DEF Issue, TypeOK
    <3> QED
      BY <3>2 DEF StaysRevoked
  <2>2. CASE ~UserReference(request[r].user)
    BY <1>1, <1>2, <2>2 DEF Issue
  <2> QED
    BY <2>1, <2>2
<1>3. ASSUME NEW r \in Requests, NEW n \in Tokens, Rotate(r, n) PROVE StaysRevoked(t)
  <2>1. PICK p \in Tokens : p = request[r].token
    BY <1>3 DEF Rotate, TypeOK
  <2>2. CASE token[p] # None
    <3>1. n \notin minted /\ token' = Rotated(p, n)
      BY <1>3, <2>1, <2>2 DEF Rotate
    <3>2. n # p /\ n # t
      BY <2>2, <3>1 DEF Freshness
    <3>3. token'[t] # None /\ token'[t].revoked /\ token'[t].user = token[t].user
      BY <2>2, <3>1, <3>2, RotatedRows
    <3> QED
      BY <3>3 DEF StaysRevoked
  <2>3. CASE token[p] = None
    BY <1>1, <1>3, <2>1, <2>3 DEF Rotate
  <2> QED
    BY <2>2, <2>3
<1>4. ASSUME NEW x \in Tokens, Logout(x) PROVE StaysRevoked(t)
  BY <1>4, LoggedOutRow DEF StaysRevoked
<1>5. ASSUME NEW u \in Users, RequestAccountDeletion(u) PROVE StaysRevoked(t)
  BY <1>5, RevokedAllRows DEF RequestAccountDeletion, StaysRevoked
<1>6. ASSUME NEW r \in Requests, Erase(r) PROVE StaysRevoked(t)
  <2>1. PICK u \in Users : u = request[r].user
    BY <1>6 DEF Erase, TypeOK
  <2>2. CASE Exists(u) /\ t \in TokensOf(u)
    <3>1. token[t].user = u /\ token'[t] = None /\ user'[u] = None
      BY <1>6, <2>1, <2>2 DEF Erase, WithoutTokensOf, TokensOf, TypeOK
    <3> QED
      BY <3>1 DEF StaysRevoked
  <2>3. CASE Exists(u) /\ t \notin TokensOf(u)
    <3>1. token'[t] = token[t]
      BY <1>6, <2>1, <2>3 DEF Erase, WithoutTokensOf
    <3> QED
      BY <3>1 DEF StaysRevoked
  <2>4. CASE ~Exists(u)
    BY <1>1, <1>6, <2>1, <2>4 DEF Erase
  <2> QED
    BY <2>2, <2>3, <2>4
<1>7. ASSUME NEW r \in Requests, NEW u \in Users,
             CreateGuest(r, u) \/ SignupCreate(r, u) \/ LoginLookup(r, u) \/ AuditErase(r, u)
      PROVE  StaysRevoked(t)
  BY <1>1, <1>7 DEF CreateGuest, SignupCreate, LoginLookup, AuditErase
<1>8. ASSUME NEW r \in Requests, NEW e \in Emails, SignupLookup(r, e) PROVE StaysRevoked(t)
  BY <1>1, <1>8 DEF SignupLookup
<1>9. ASSUME NEW r \in Requests, NEW x \in Tokens, RefreshLookup(r, x) PROVE StaysRevoked(t)
  BY <1>1, <1>9 DEF RefreshLookup
<1>10. ASSUME NEW r \in Requests, Answer(r) \/ Abandon(r) PROVE StaysRevoked(t)
  BY <1>1, <1>10 DEF Answer, Abandon
<1>11. CASE Tick
  BY <1>1, <1>11 DEF Tick
<1> QED
  BY <1>2, <1>3, <1>4, <1>5, <1>6, <1>7, <1>8, <1>9, <1>10, <1>11 DEF Next

\* A revoked token is never usable again, whichever requests write to its row
\* after its revocation.
THEOREM RevocationKept == Spec => RevocationFinal
<1>1. TokensInv /\ [Next]_vars =>
        [\A t \in Tokens : token[t] # None /\ token[t].revoked => StaysRevoked(t)]_vars
  BY RevokedForGood DEF TokensInv
<1>2. (\A t \in Tokens : token[t] # None /\ token[t].revoked => StaysRevoked(t))
        => \A t \in Tokens : token[t] # None /\ token[t].revoked =>
             \/ token'[t] # None /\ token'[t].revoked /\ token'[t].user = token[t].user
             \/ token'[t] = None /\ user'[token[t].user] = None
  BY DEF StaysRevoked
<1>3. TokensInv /\ [Next]_vars =>
        [\A t \in Tokens : token[t] # None /\ token[t].revoked =>
             \/ token'[t] # None /\ token'[t].revoked /\ token'[t].user = token[t].user
             \/ token'[t] = None /\ user'[token[t].user] = None]_vars
  BY <1>1, <1>2
<1> QED
  BY <1>3, TokensInvariant, PTL DEF Spec, RevocationFinal

-----------------------------------------------------------------------------
\* A guest that is owed a token, and the ways to be owed none.
Guest(u) ==
    Exists(u) /\ user[u].email = None /\ user[u].status = "ACTIVE" /\ u \notin forfeited

AboutToServe(u) == \E r \in Requests : request[r].phase = "issue" /\ request[r].user = u

Served(u) == AboutToServe(u) \/ \E t \in TokensOf(u) : Live(t) /\ Reaching(t)

\* A request answers its own user: a lost reply counts against nobody else.
AnswersOwn ==
    \A r \in Requests :
        request[r].phase = "answer" /\ token[request[r].token] # None =>
            token[request[r].token].user = request[r].user

GuestInv == TokensInv /\ AnswersOwn /\ \A u \in Users : Guest(u) => Served(u)

LEMMA Moved ==
  ASSUME TypeOK, NEW r \in Requests, NEW st, Goto(r, st)
  PROVE  request'[r] = st /\ \A q \in Requests : q # r => request'[q] = request[q]
  BY DEF Goto, TypeOK

LEMMA Answering ==
  ASSUME TypeOK, NEW r \in Requests, NEW u, NEW t,
         Goto(r, [Idle EXCEPT !.phase = "answer", !.user = u, !.token = t])
  PROVE  /\ request'[r].phase = "answer" /\ request'[r].user = u /\ request'[r].token = t
         /\ \A q \in Requests : q # r => request'[q] = request[q]
<1> DEFINE st == [Idle EXCEPT !.phase = "answer", !.user = u, !.token = t]
<1>1. st.phase = "answer" /\ st.user = u /\ st.token = t
  BY DEF Idle
<1>2. Goto(r, st)
  OBVIOUS
<1> HIDE DEF st
<1> QED
  BY <1>1, <1>2, Moved

\* Requests that hold no token for a client come and go.
LEMMA GuestQuiet ==
  ASSUME GuestInv, TokensInv', NEW r \in Requests, NEW st, Goto(r, st),
         request[r].phase \notin {"issue", "answer"}, st.phase # "answer",
         token' = token, held' = held,
         \A u \in Users : Guest(u)' => Guest(u) \/ (st.phase = "issue" /\ st.user = u)
  PROVE  GuestInv'
<1>1. request'[r] = st /\ \A q \in Requests : q # r => request'[q] = request[q]
  BY Moved DEF GuestInv, TokensInv
<1>2. AnswersOwn'
  BY <1>1 DEF GuestInv, AnswersOwn
<1>3. ASSUME NEW u \in Users, Guest(u)' PROVE Served(u)'
  <2>1. CASE st.phase = "issue" /\ st.user = u
    BY <1>1, <2>1 DEF Served, AboutToServe
  <2>2. CASE Guest(u) /\ AboutToServe(u)
    BY <1>1, <2>2 DEF Served, AboutToServe
  <2>3. CASE Guest(u) /\ \E t \in TokensOf(u) : Live(t) /\ Reaching(t)
    BY <1>1, <2>3 DEF Served, TokensOf, Live, Reaching
  <2> QED
    BY <1>3, <2>1, <2>2, <2>3 DEF GuestInv, Served
<1> QED
  BY <1>2, <1>3 DEF GuestInv

\* Nothing that concerns guests changes.
LEMMA GuestUntouched ==
  ASSUME GuestInv, TokensInv', request' = request, token' = token, held' = held,
         user' = user, forfeited' = forfeited
  PROVE  GuestInv'
  BY DEF GuestInv, AnswersOwn, Guest, Exists, Served, AboutToServe, TokensOf, Live, Reaching

LEMMA GuestInvIssue ==
  ASSUME GuestInv, TokensInv', NEW r \in Requests, NEW n \in Tokens, Issue(r, n)
  PROVE  GuestInv'
<1>1. PICK v \in Users : v = request[r].user /\ request[r].phase = "issue"
  BY DEF Issue, GuestInv, TokensInv, TypeOK
<1>2. user' = user /\ forfeited' = forfeited /\ held' = held
  BY DEF Issue
<1>3. \A q \in Requests : q # r => request'[q] = request[q]
  BY Moved DEF Issue, GuestInv, TokensInv
<1>4. CASE ~Exists(v)
  <2>1. Goto(r, Idle) /\ token' = token
    BY <1>1, <1>4 DEF Issue, UserReference
  <2>2. request'[r] = Idle /\ Idle.phase = "idle"
    BY <2>1, Moved DEF GuestInv, TokensInv, Idle
  <2>3. AnswersOwn'
    BY <1>3, <2>1, <2>2 DEF GuestInv, AnswersOwn
  <2>4. ASSUME NEW u \in Users, Guest(u)' PROVE Served(u)'
    <3>1. Guest(u) /\ u # v
      BY <1>2, <1>4, <2>4 DEF Guest, Exists
    <3>2. CASE AboutToServe(u)
      BY <1>1, <1>3, <3>1, <3>2 DEF AboutToServe, Served
    <3>3. CASE \E t \in TokensOf(u) : Live(t) /\ Reaching(t)
      BY <1>1, <1>2, <1>3, <2>1, <3>3 DEF Served, TokensOf, Live, Reaching
    <3> QED
      BY <3>1, <3>2, <3>3 DEF GuestInv, Served
  <2> QED
    BY <2>3, <2>4 DEF GuestInv
<1>5. CASE Exists(v)
  <2>1. /\ n \notin minted /\ token' = [token EXCEPT ![n] = NewToken(v, None)]
        /\ Goto(r, [Idle EXCEPT !.phase = "answer", !.user = v, !.token = n])
    BY <1>1, <1>5 DEF Issue, UserReference
  <2>2. request'[r].phase = "answer" /\ request'[r].user = v /\ request'[r].token = n
    BY <2>1, Answering DEF GuestInv, TokensInv
  <2>3. /\ token'[n] # None /\ token'[n].user = v /\ ~token'[n].revoked
        /\ \A t \in Tokens : t # n => token'[t] = token[t]
        /\ token[n] = None
    BY <2>1, NewTokenRow DEF GuestInv, TokensInv, TypeOK, Freshness
  <2>4. AnswersOwn'
    <3> SUFFICES ASSUME NEW q \in Requests, request'[q].phase = "answer",
                        token'[request'[q].token] # None
                 PROVE  token'[request'[q].token].user = request'[q].user
      BY DEF AnswersOwn
    <3>1. CASE q = r
      BY <2>2, <2>3, <3>1
    <3>2. CASE q # r
      <4>1. request'[q] = request[q]
        BY <1>3, <3>2
      <4>2. request[q].token \in minted /\ request[q].token \in Tokens
        BY <4>1 DEF GuestInv, TokensInv, Freshness, TypeOK
      <4> QED
        BY <2>1, <2>3, <4>1, <4>2 DEF GuestInv, AnswersOwn
    <3> QED
      BY <3>1, <3>2
  <2>5. ASSUME NEW u \in Users, Guest(u)' PROVE Served(u)'
    <3>1. Guest(u)
      BY <1>2, <2>5 DEF Guest, Exists
    <3>2. CASE u = v
      <4>1. n \in TokensOf(u)' /\ Live(n)' /\ Reaching(n)'
        BY <2>2, <2>3, <3>2 DEF TokensOf, Live, Reaching
      <4> QED
        BY <4>1 DEF Served
    <3>3. CASE u # v /\ AboutToServe(u)
      BY <1>1, <1>3, <3>3 DEF AboutToServe, Served
    <3>4. ASSUME NEW t \in TokensOf(u), Live(t), Reaching(t) PROVE Served(u)'
      <4>1. t \in Tokens /\ t # n /\ token'[t] = token[t]
        BY <2>3, <3>4 DEF TokensOf
      <4>2. Reaching(t)'
        BY <1>1, <1>2, <1>3, <3>4 DEF Reaching
      <4> QED
        BY <3>4, <4>1, <4>2 DEF Served, TokensOf, Live
    <3> QED
      BY <3>1, <3>2, <3>3, <3>4 DEF GuestInv, Served
  <2> QED
    BY <2>4, <2>5 DEF GuestInv
<1> QED
  BY <1>4, <1>5

LEMMA GuestInvRotate ==
  ASSUME GuestInv, TokensInv', NEW r \in Requests, NEW n \in Tokens, Rotate(r, n)
  PROVE  GuestInv'
<1>1. PICK p \in Tokens : p = request[r].token /\ request[r].phase = "rotate"
  BY DEF Rotate, GuestInv, TokensInv, TypeOK
<1>2. user' = user /\ forfeited' = forfeited /\ held' = held
  BY DEF Rotate
<1>3. CASE token[p] = None
  <2>1. Goto(r, Idle) /\ token' = token
    BY <1>1, <1>3 DEF Rotate
  <2> QED
    BY <1>1, <1>2, <2>1, GuestQuiet DEF Idle, Guest, Exists
<1>4. CASE token[p] # None
  <2>1. PICK v \in Users : v = token[p].user
    BY <1>4 DEF GuestInv, TokensInv, TypeOK, TokenRow
  <2>2. /\ n \notin minted /\ token' = Rotated(p, n)
        /\ Goto(r, [Idle EXCEPT !.phase = "answer", !.user = v, !.token = n])
    BY <1>1, <1>4, <2>1 DEF Rotate
  <2>3. /\ request'[r].phase = "answer" /\ request'[r].user = v /\ request'[r].token = n
        /\ \A q \in Requests : q # r => request'[q] = request[q]
    BY <2>2, Answering DEF GuestInv, TokensInv
  <2>4. n # p /\ token[n] = None
    BY <1>4, <2>2 DEF GuestInv, TokensInv, Freshness
  <2>5. /\ token'[n] # None /\ token'[n].user = v /\ ~token'[n].revoked
        /\ token'[p] # None /\ token'[p].user = v
        /\ \A t \in Tokens : t # n /\ t # p => token'[t] = token[t]
    BY <1>4, <2>1, <2>2, <2>4, RotatedRows, NewTokenRow DEF GuestInv, TokensInv
  <2>6. AnswersOwn'
    <3> SUFFICES ASSUME NEW q \in Requests, request'[q].phase = "answer",
                        token'[request'[q].token] # None
                 PROVE  token'[request'[q].token].user = request'[q].user
      BY DEF AnswersOwn
    <3>1. CASE q = r
      BY <2>3, <2>5, <3>1
    <3>2. CASE q # r
      <4>1. request'[q] = request[q]
        BY <2>3, <3>2
      <4>2. request[q].token \in minted /\ request[q].token \in Tokens
        BY <4>1 DEF GuestInv, TokensInv, Freshness, TypeOK
      <4> QED
        BY <1>4, <2>1, <2>2, <2>5, <4>1, <4>2 DEF GuestInv, AnswersOwn
    <3> QED
      BY <3>1, <3>2
  <2>7. ASSUME NEW u \in Users, Guest(u)' PROVE Served(u)'
    <3>1. Guest(u)
      BY <1>2, <2>7 DEF Guest, Exists
    <3>2. CASE u = v
      <4>1. n \in TokensOf(u)' /\ Live(n)' /\ Reaching(n)'
        BY <2>3, <2>5, <3>2 DEF TokensOf, Live, Reaching
      <4> QED
        BY <4>1 DEF Served
    <3>3. CASE AboutToServe(u)
      BY <1>1, <2>3, <3>3 DEF AboutToServe, Served
    <3>4. ASSUME u # v, NEW t \in TokensOf(u), Live(t), Reaching(t) PROVE Served(u)'
      <4>1. t \in Tokens /\ t # n /\ t # p /\ token'[t] = token[t]
        BY <2>1, <2>4, <2>5, <3>4 DEF TokensOf
      <4>2. Reaching(t)'
        BY <1>1, <1>2, <2>3, <3>4 DEF Reaching
      <4> QED
        BY <3>4, <4>1, <4>2 DEF Served, TokensOf, Live
    <3> QED
      BY <3>1, <3>2, <3>3, <3>4 DEF GuestInv, Served
  <2> QED
    BY <2>6, <2>7 DEF GuestInv
<1> QED
  BY <1>3, <1>4

LEMMA GuestInvAnswer ==
  ASSUME GuestInv, TokensInv', NEW r \in Requests, Answer(r)
  PROVE  GuestInv'
<1>1. /\ request[r].phase = "answer" /\ Idle.phase = "idle" /\ request'[r] = Idle
      /\ \A q \in Requests : q # r => request'[q] = request[q]
      /\ token' = token /\ user' = user /\ forfeited' = forfeited
      /\ held' = held \cup {request[r].token}
  BY Moved DEF Answer, Idle, GuestInv, TokensInv
<1>2. AnswersOwn'
  BY <1>1 DEF GuestInv, AnswersOwn
<1>3. ASSUME NEW u \in Users, Guest(u)' PROVE Served(u)'
  <2>1. Guest(u)
    BY <1>1, <1>3 DEF Guest, Exists
  <2>2. CASE AboutToServe(u)
    BY <1>1, <2>2 DEF AboutToServe, Served
  <2>3. CASE \E t \in TokensOf(u) : Live(t) /\ Reaching(t)
    BY <1>1, <2>3 DEF Served, TokensOf, Live, Reaching
  <2> QED
    BY <2>1, <2>2, <2>3 DEF GuestInv, Served
<1> QED
  BY <1>2, <1>3 DEF GuestInv

LEMMA GuestInvAbandon ==
  ASSUME GuestInv, TokensInv', NEW r \in Requests, Abandon(r)
  PROVE  GuestInv'
<1>1. /\ Idle.phase = "idle" /\ request'[r] = Idle
      /\ \A q \in Requests : q # r => request'[q] = request[q]
      /\ token' = token /\ user' = user /\ held' = held /\ forfeited \subseteq forfeited'
  BY Moved DEF Abandon, Idle, GuestInv, TokensInv
<1>2. AnswersOwn'
  BY <1>1 DEF GuestInv, AnswersOwn
<1>3. ASSUME NEW u \in Users, Guest(u)' PROVE Served(u)'
  <2>1. Guest(u) /\ ~ (request[r].phase \in {"issue", "answer"} /\ request[r].user = u)
    BY <1>1, <1>3 DEF Abandon, Guest, Exists
  <2>2. CASE AboutToServe(u)
    BY <1>1, <2>1, <2>2 DEF AboutToServe, Served
  <2>3. ASSUME NEW t \in TokensOf(u), Live(t), Reaching(t) PROVE Served(u)'
    <3>1. ~ (request[r].phase = "answer" /\ request[r].token = t)
      BY <2>1, <2>3 DEF GuestInv, AnswersOwn, TokensOf
    <3>2. Reaching(t)'
      BY <1>1, <2>3, <3>1 DEF Reaching
    <3> QED
      BY <1>1, <2>3, <3>2 DEF Served, TokensOf, Live
  <2> QED
    BY <2>1, <2>2, <2>3 DEF GuestInv, Served
<1> QED
  BY <1>2, <1>3 DEF GuestInv

\* Tokens of one user are revoked or removed, and that user is owed none.
LEMMA GuestsElsewhere ==
  ASSUME GuestInv, TokensInv', NEW v \in Users, ~Guest(v)',
         \A u \in Users : Guest(u)' => Guest(u),
         \A t \in Tokens : token[t] # None /\ token[t].user # v => token'[t] = token[t],
         \A t \in Tokens : token'[t] # None => token[t] # None /\ token'[t].user = token[t].user,
         held' = held,
         \A q \in Requests : request'[q] = request[q] \/ request'[q] = Idle,
         \A q \in Requests : request[q].phase \in {"issue", "answer"} => request'[q] = request[q]
  PROVE  GuestInv'
<1>1. Idle.phase = "idle"
  BY DEF Idle
<1>2. AnswersOwn'
  BY <1>1 DEF GuestInv, AnswersOwn, TokensInv, TypeOK
<1>3. ASSUME NEW u \in Users, Guest(u)' PROVE Served(u)'
  <2>1. Guest(u) /\ u # v
    BY <1>3
  <2>2. CASE AboutToServe(u)
    BY <2>2 DEF AboutToServe, Served
  <2>3. ASSUME NEW t \in TokensOf(u), Live(t), Reaching(t) PROVE Served(u)'
    BY <2>1, <2>3 DEF Served, TokensOf, Live, Reaching
  <2> QED
    BY <2>1, <2>2, <2>3 DEF GuestInv, Served
<1> QED
  BY <1>2, <1>3 DEF GuestInv

LEMMA GuestInvLogout ==
  ASSUME GuestInv, TokensInv', NEW t \in Tokens, Logout(t)
  PROVE  GuestInv'
<1>1. PICK v \in Users : v = token[t].user
  BY DEF Logout, Live, GuestInv, TokensInv, TypeOK, TokenRow
<1>2. forfeited' = forfeited \cup {v} /\ user' = user /\ held' = held /\ request' = request
  BY <1>1 DEF Logout
<1>3. /\ ~Guest(v)'
      /\ \A u \in Users : Guest(u)' => Guest(u)
  BY <1>2 DEF Guest, Exists
<1>4. /\ \A x \in Tokens : token[x] # None /\ token[x].user # v => token'[x] = token[x]
      /\ \A x \in Tokens : token'[x] # None => token[x] # None /\ token'[x].user = token[x].user
  <2>1. token[t] # None
    BY DEF Logout, Live
  <2> QED
    BY <1>1, <2>1, LoggedOutRow DEF GuestInv, TokensInv
<1> QED
  BY <1>2, <1>3, <1>4, GuestsElsewhere

LEMMA GuestInvDeletion ==
  ASSUME GuestInv, TokensInv', NEW v \in Users, RequestAccountDeletion(v)
  PROVE  GuestInv'
<1>1. /\ forfeited' = forfeited /\ held' = held /\ request' = request
      /\ user' = Deactivated(v) /\ token' = RevokedAll(v)
  BY DEF RequestAccountDeletion
<1>2. user'[v].status = "DELETION_REQUESTED" /\ \A u \in Users : u # v => user'[u] = user[u]
  <2>1. user[v] \in UserRow
    BY DEF RequestAccountDeletion, Exists, GuestInv, TokensInv, TypeOK
  <2>2. [user[v] EXCEPT !.status = "DELETION_REQUESTED"].status = "DELETION_REQUESTED"
    BY <2>1 DEF UserRow
  <2>3. user' = [user EXCEPT ![v] = [user[v] EXCEPT !.status = "DELETION_REQUESTED"]]
    BY <1>1 DEF Deactivated
  <2> QED
    BY <2>2, <2>3 DEF GuestInv, TokensInv, TypeOK
<1>3. /\ ~Guest(v)'
      /\ \A u \in Users : Guest(u)' => Guest(u)
  BY <1>1, <1>2 DEF Guest, Exists
<1>4. /\ \A x \in Tokens : token[x] # None /\ token[x].user # v => token'[x] = token[x]
      /\ \A x \in Tokens : token'[x] # None => token[x] # None /\ token'[x].user = token[x].user
  BY <1>1, RevokedAllRows DEF GuestInv, TokensInv, TokensOf
<1> QED
  BY <1>1, <1>3, <1>4, GuestsElsewhere

LEMMA GuestInvErase ==
  ASSUME GuestInv, TokensInv', NEW r \in Requests, Erase(r)
  PROVE  GuestInv'
<1>1. PICK v \in Users : v = request[r].user /\ request[r].phase = "erase"
  BY DEF Erase, GuestInv, TokensInv, TypeOK
<1>2. forfeited' = forfeited /\ held' = held /\ Goto(r, Idle)
  BY DEF Erase
<1>3. CASE ~Exists(v)
  <2>1. token' = token /\ user' = user
    BY <1>1, <1>3 DEF Erase
  <2> QED
    BY <1>1, <1>2, <2>1, GuestQuiet DEF Idle, Guest, Exists
<1>4. CASE Exists(v)
  <2>1. user' = [user EXCEPT ![v] = None] /\ token' = WithoutTokensOf(v)
    BY <1>1, <1>4 DEF Erase
  <2>2. user'[v] = None /\ \A u \in Users : u # v => user'[u] = user[u]
    BY <2>1 DEF GuestInv, TokensInv, TypeOK
  <2>3. /\ ~Guest(v)'
        /\ \A u \in Users : Guest(u)' => Guest(u)
    BY <1>2, <2>2 DEF Guest, Exists
  <2>4. /\ \A x \in Tokens : token[x] # None /\ token[x].user # v => token'[x] = token[x]
        /\ \A x \in Tokens : token'[x] # None => token[x] # None /\ token'[x].user = token[x].user
    BY <2>1 DEF WithoutTokensOf, TokensOf
  <2>5. /\ request'[r] = Idle
        /\ \A q \in Requests : q # r => request'[q] = request[q]
    BY <1>2, Moved DEF GuestInv, TokensInv
  <2> QED
    BY <1>1, <1>2, <2>3, <2>4, <2>5, GuestsElsewhere
<1> QED
  BY <1>3, <1>4

\* Lookups and creations: what a request moves to.
LEMMA Waiting ==
  ASSUME NEW u, NEW e, NEW t
  PROVE  /\ [Idle EXCEPT !.phase = "issue", !.user = u].phase = "issue"
         /\ [Idle EXCEPT !.phase = "issue", !.user = u].user = u
         /\ [Idle EXCEPT !.phase = "create", !.email = e].phase = "create"
         /\ [Idle EXCEPT !.phase = "erase", !.user = u].phase = "erase"
         /\ [Idle EXCEPT !.phase = "rotate", !.user = u, !.token = t].phase = "rotate"
         /\ Idle.phase = "idle"
  BY DEF Idle

LEMMA GuestInvInductive == GuestInv /\ [Next]_vars => GuestInv'
<1> SUFFICES ASSUME GuestInv, [Next]_vars PROVE GuestInv'
  OBVIOUS
<1>typed. TokensInv' /\ TypeOK
  BY TokensInvInductive DEF GuestInv, TokensInv
<1>1. ASSUME NEW r \in Requests, NEW u \in Users, CreateGuest(r, u) PROVE GuestInv'
  <2>1. \A v \in Users : v # u => user'[v] = user[v]
    BY <1>typed, <1>1 DEF CreateGuest, NewUser, TypeOK
  <2>2. forfeited' = forfeited /\ token' = token /\ held' = held
    BY <1>1 DEF CreateGuest
  <2>3. \A v \in Users : Guest(v)' => Guest(v) \/ v = u
    BY <2>1, <2>2 DEF Guest, Exists
  <2> DEFINE st == [Idle EXCEPT !.phase = "issue", !.user = u]
  <2>4. st.phase = "issue" /\ st.user = u
    BY DEF Idle
  <2>5. Goto(r, st) /\ request[r].phase = "idle"
    BY <1>1 DEF CreateGuest
  <2> HIDE DEF st
  <2> QED
    BY <1>typed, <2>2, <2>3, <2>4, <2>5, GuestQuiet
<1>2. ASSUME NEW r \in Requests, NEW e \in Emails, SignupLookup(r, e) PROVE GuestInv'
  <2>1. \A v \in Users : Guest(v)' => Guest(v)
    BY <1>2 DEF SignupLookup, Guest, Exists
  <2> QED
    BY <1>typed, <1>2, <2>1, Waiting, GuestQuiet DEF SignupLookup
<1>3. ASSUME NEW r \in Requests, NEW u \in Users, SignupCreate(r, u) PROVE GuestInv'
  <2>1. CASE UniqueViolation(request[r].email)
    <3>1. \A v \in Users : Guest(v)' => Guest(v)
      BY <1>3, <2>1 DEF SignupCreate, Guest, Exists
    <3> QED
      BY <1>typed, <1>3, <2>1, <3>1, Waiting, GuestQuiet DEF SignupCreate
  <2>2. CASE ~UniqueViolation(request[r].email)
    <3>1. /\ Goto(r, [Idle EXCEPT !.phase = "issue", !.user = u])
          /\ NewUser(u, request[r].email)
          /\ forfeited' = forfeited /\ token' = token /\ held' = held
          /\ request[r].phase = "create"
      BY <1>3, <2>2 DEF SignupCreate
    <3>2. \A v \in Users : v # u => user'[v] = user[v]
      BY <1>typed, <3>1 DEF NewUser, TypeOK
    <3>3. \A v \in Users : Guest(v)' => Guest(v) \/ v = u
      BY <3>1, <3>2 DEF Guest, Exists
    <3> DEFINE st == [Idle EXCEPT !.phase = "issue", !.user = u]
    <3>4. st.phase = "issue" /\ st.user = u
      BY DEF Idle
    <3>5. Goto(r, st)
      BY <3>1
    <3> HIDE DEF st
    <3> QED
      BY <1>typed, <3>1, <3>3, <3>4, <3>5, GuestQuiet
  <2> QED
    BY <2>1, <2>2
<1>4. ASSUME NEW r \in Requests, NEW u \in Users, LoginLookup(r, u) PROVE GuestInv'
  <2>1. \A v \in Users : Guest(v)' => Guest(v)
    BY <1>4 DEF LoginLookup, Guest, Exists
  <2> QED
    BY <1>typed, <1>4, <2>1, Waiting, GuestQuiet DEF LoginLookup
<1>5. ASSUME NEW r \in Requests, NEW t \in Tokens, RefreshLookup(r, t) PROVE GuestInv'
  <2>1. \A v \in Users : Guest(v)' => Guest(v)
    BY <1>5 DEF RefreshLookup, Guest, Exists
  <2> DEFINE st == AfterLookup(t)
  <2>2. st.phase = "rotate"
    BY DEF AfterLookup, Idle
  <2>3. /\ Goto(r, st) /\ request[r].phase = "idle"
        /\ token' = token /\ held' = held
    BY <1>5 DEF RefreshLookup
  <2> HIDE DEF st
  <2> QED
    BY <1>typed, <2>1, <2>2, <2>3, GuestQuiet
<1>6. ASSUME NEW r \in Requests, NEW u \in Users, AuditErase(r, u) PROVE GuestInv'
  <2>1. \A v \in Users : Guest(v)' => Guest(v)
    BY <1>6 DEF AuditErase, Guest, Exists
  <2> QED
    BY <1>typed, <1>6, <2>1, Waiting, GuestQuiet DEF AuditErase
<1>7. CASE Tick \/ UNCHANGED vars
  BY <1>typed, <1>7, GuestUntouched DEF Tick, vars
<1> QED
  BY <1>typed, <1>1, <1>2, <1>3, <1>4, <1>5, <1>6, <1>7, GuestInvIssue, GuestInvRotate,
     GuestInvAnswer, GuestInvAbandon, GuestInvLogout, GuestInvDeletion, GuestInvErase DEF Next

\* No interleaving of refreshes costs a guest its account: an active guest that
\* gave nothing up and missed no reply holds a usable token, or is about to.
THEOREM GuestsServed == Spec => []GuestNotStranded
<1>1. Init => GuestInv
  <2> SUFFICES ASSUME Init PROVE GuestInv
    OBVIOUS
  <2>1. TokensInv
    BY InitTokensInv
  <2>2. AnswersOwn /\ \A u \in Users : ~Guest(u)
    <3>1. \A r \in Requests : request[r].phase = "idle"
      BY DEF Init, Idle
    <3>2. \A u \in Users : user[u] = None
      BY DEF Init
    <3> QED
      BY <3>1, <3>2 DEF AnswersOwn, Guest, Exists
  <2> QED
    BY <2>1, <2>2 DEF GuestInv
<1>2. GuestInv => GuestNotStranded
  BY DEF GuestInv, GuestNotStranded, Guest, Served, AboutToServe
<1> QED
  BY <1>1, <1>2, GuestInvInductive, PTL DEF Spec
-----------------------------------------------------------------------------
Closing(u) == Exists(u) /\ user[u].status = "DELETION_REQUESTED"

\* A refresh under way rotates a token of the user it was let in for.
RotatesOwn ==
    \A r \in Requests :
        request[r].phase = "rotate" /\ token[request[r].token] # None =>
            token[request[r].token].user = request[r].user

Room(u) ==
    /\ IsFiniteSet(RotatedLive(u))
    /\ Cardinality(RotatedLive(u)) + Cardinality(Rotating(u)) <= Cardinality(Requests)

ClosingInv == TokensInv /\ RotatesOwn /\ \A u \in Users : Closing(u) => Room(u)

\* Sets that have room keep it when they shrink.
LEMMA RoomForSubsets ==
  ASSUME NEW A, NEW B \in SUBSET Requests, NEW C, NEW D, C \subseteq A, D \subseteq B,
         IsFiniteSet(A), Cardinality(A) + Cardinality(B) <= Cardinality(Requests)
  PROVE  IsFiniteSet(C) /\ Cardinality(C) + Cardinality(D) <= Cardinality(Requests)
<1>1. IsFiniteSet(B) /\ Cardinality(Requests) \in Nat
  BY RequestsFinite, FS_Subset, FS_CardinalityType
<1>2. /\ IsFiniteSet(C) /\ Cardinality(C) <= Cardinality(A)
      /\ IsFiniteSet(D) /\ Cardinality(D) <= Cardinality(B)
  BY <1>1, FS_Subset
<1>3. /\ Cardinality(A) \in Nat /\ Cardinality(B) \in Nat
      /\ Cardinality(C) \in Nat /\ Cardinality(D) \in Nat
  BY <1>1, <1>2, FS_CardinalityType
<1> QED
  BY <1>1, <1>2, <1>3

\* They keep it when an element goes over from one set to the other.
LEMMA RoomForMove ==
  ASSUME NEW A, NEW B \in SUBSET Requests, NEW n, NEW r \in B,
         IsFiniteSet(A), Cardinality(A) + Cardinality(B) <= Cardinality(Requests)
  PROVE  /\ IsFiniteSet(A \cup {n})
         /\ Cardinality(A \cup {n}) + Cardinality(B \ {r}) <= Cardinality(Requests)
<1>1. IsFiniteSet(B) /\ Cardinality(Requests) \in Nat
  BY RequestsFinite, FS_Subset, FS_CardinalityType
<1>2. /\ IsFiniteSet(A \cup {n})
      /\ Cardinality(A \cup {n}) = Cardinality(A) \/ Cardinality(A \cup {n}) = Cardinality(A) + 1
  BY FS_AddElement
<1>3. Cardinality(B \ {r}) = Cardinality(B) - 1
  BY <1>1, FS_RemoveElement
<1>4. Cardinality(A) \in Nat /\ Cardinality(B) \in Nat
  BY <1>1, FS_CardinalityType
<1> QED
  BY <1>1, <1>2, <1>3, <1>4

\* A step that lets no refresh of a closing account in, closes no account and
\* leaves no usable rotated token behind keeps the room.
LEMMA ClosingUntouched ==
  ASSUME ClosingInv, TokensInv', RotatesOwn',
         \A u \in Users : Closing(u)' =>
            /\ Closing(u)
            /\ RotatedLive(u)' \subseteq RotatedLive(u)
            /\ Rotating(u)' \subseteq Rotating(u)
  PROVE  ClosingInv'
<1>1. ASSUME NEW u \in Users, Closing(u)' PROVE Room(u)'
  <2>1. /\ Room(u)
        /\ RotatedLive(u)' \subseteq RotatedLive(u)
        /\ Rotating(u)' \subseteq Rotating(u)
    BY <1>1 DEF ClosingInv
  <2>2. Rotating(u) \in SUBSET Requests
    BY DEF Rotating
  <2>3. /\ IsFiniteSet(RotatedLive(u)')
        /\ Cardinality(RotatedLive(u)') + Cardinality(Rotating(u)') <= Cardinality(Requests)
    BY <2>1, <2>2, RoomForSubsets DEF Room
  <2> QED
    BY <2>3 DEF Room
<1> QED
  BY <1>1 DEF ClosingInv

\* A step that stores no token and moves one request on to another phase than
\* rotate keeps the facts about refreshes.
LEMMA ClosingQuiet ==
  ASSUME ClosingInv, TokensInv', NEW r \in Requests, NEW st, Goto(r, st), st.phase # "rotate",
         \A t \in Tokens : token'[t] = token[t] \/ token'[t] = None,
         \A u \in Users : Closing(u)' => Closing(u)
  PROVE  ClosingInv'
<1>1. /\ request'[r] = st
      /\ \A q \in Requests : q # r => request'[q] = request[q]
  BY DEF ClosingInv, TokensInv, TypeOK, Goto
<1>2. \A q \in Requests : request'[q].phase = "rotate" =>
        request'[q] = request[q] /\ request[q].token \in Tokens
  BY <1>1 DEF ClosingInv, TokensInv, TypeOK
<1>3. RotatesOwn'
  BY <1>2 DEF ClosingInv, RotatesOwn
<1>4. \A u \in Users : Rotating(u)' \subseteq Rotating(u)
  BY <1>2 DEF Rotating
<1>5. \A u \in Users : RotatedLive(u)' \subseteq RotatedLive(u)
  BY DEF RotatedLive, TokensOf, Live
<1> QED
  BY <1>3, <1>4, <1>5, ClosingUntouched

\* Issuing a token leaves no rotated one: it has no predecessor.
LEMMA ClosingIssue ==
  ASSUME ClosingInv, TokensInv', NEW r \in Requests, NEW n \in Tokens, Issue(r, n)
  PROVE  ClosingInv'
<1> DEFINE u == request[r].user
<1>typed. TokensInv /\ TypeOK
  BY DEF ClosingInv, TokensInv
<1>1. u \in Users /\ user' = user
  BY <1>typed DEF Issue, TypeOK
<1>2. CASE ~UserReference(u)
  <2>1. Goto(r, Idle) /\ token' = token
    BY <1>2 DEF Issue
  <2> QED
    BY <1>1, <2>1, Waiting, ClosingQuiet DEF Closing, Exists
<1>3. CASE UserReference(u)
  <2> DEFINE st == [Idle EXCEPT !.phase = "answer", !.user = u, !.token = n]
  <2>1. /\ n \notin minted
        /\ token' = [token EXCEPT ![n] = NewToken(u, None)]
        /\ Goto(r, st)
    BY <1>3 DEF Issue
  <2>2. st.phase = "answer"
    BY DEF Idle
  <2> HIDE DEF st
  <2>3. /\ NewToken(u, None).prev = None
        /\ token'[n] = NewToken(u, None)
        /\ \A t \in Tokens : t # n => token'[t] = token[t]
    BY <1>typed, <1>1, <2>1, NewTokenRow DEF TypeOK
  <2>4. /\ request'[r] = st
        /\ \A q \in Requests : q # r => request'[q] = request[q]
    BY <1>typed, <2>1 DEF TypeOK, Goto
  <2>5. \A q \in Requests : request'[q].phase = "rotate" =>
          /\ request'[q] = request[q]
          /\ request[q].token \in Tokens
          /\ request[q].token # n
    BY <1>typed, <2>1, <2>2, <2>4 DEF TypeOK, TokensInv, Freshness
  <2>6. RotatesOwn'
    BY <2>3, <2>5 DEF ClosingInv, RotatesOwn
  <2>7. \A v \in Users : Rotating(v)' \subseteq Rotating(v)
    BY <2>5 DEF Rotating
  <2>8. \A v \in Users : RotatedLive(v)' \subseteq RotatedLive(v)
    BY <2>3 DEF RotatedLive, TokensOf, Live
  <2> QED
    BY <1>1, <2>6, <2>7, <2>8, ClosingUntouched DEF Closing, Exists
<1> QED
  BY <1>2, <1>3

\* A rotation turns one refresh under way into one usable token.
LEMMA ClosingRotate ==
  ASSUME ClosingInv, TokensInv', NEW r \in Requests, NEW n \in Tokens, Rotate(r, n)
  PROVE  ClosingInv'
<1> DEFINE t == request[r].token
<1>typed. TokensInv /\ TypeOK
  BY DEF ClosingInv, TokensInv
<1>1. t \in Tokens /\ user' = user /\ request[r].phase = "rotate"
  BY <1>typed DEF Rotate, TypeOK
<1>2. CASE token[t] = None
  <2>1. Goto(r, Idle) /\ token' = token
    BY <1>2 DEF Rotate
  <2> QED
    BY <1>1, <2>1, Waiting, ClosingQuiet DEF Closing, Exists
<1>3. CASE token[t] # None
  <2> DEFINE u == token[t].user
             st == [Idle EXCEPT !.phase = "answer", !.user = u, !.token = n]
  <2>1. /\ n \notin minted
        /\ token' = Rotated(t, n)
        /\ Goto(r, st)
    BY <1>3 DEF Rotate
  <2>2. st.phase = "answer"
    BY DEF Idle
  <2> HIDE DEF st
  <2>3. t # n /\ u \in Users /\ u = request[r].user
    BY <1>typed, <1>1, <1>3, <2>1 DEF TokensInv, Freshness, TypeOK, TokenRow, ClosingInv, RotatesOwn
  <2>4. /\ token'[t].revoked /\ token'[t].user = u /\ token'[t] # None
        /\ token'[n] = NewToken(u, t)
        /\ \A x \in Tokens : x # t /\ x # n => token'[x] = token[x]
    BY <1>typed, <1>1, <1>3, <2>1, <2>3, RotatedRows
  <2>5. NewToken(u, t).user = u
    BY DEF NewToken
  <2>6. /\ request'[r] = st
        /\ \A q \in Requests : q # r => request'[q] = request[q]
    BY <1>typed, <2>1 DEF TypeOK, Goto
  <2>7. \A q \in Requests : request'[q].phase = "rotate" =>
          /\ q # r
          /\ request'[q] = request[q]
          /\ request[q].token \in Tokens
          /\ request[q].token # n
    BY <1>typed, <2>1, <2>2, <2>6 DEF TypeOK, TokensInv, Freshness
  <2>8. RotatesOwn'
    BY <1>3, <2>4, <2>7 DEF ClosingInv, RotatesOwn
  <2>9. ASSUME NEW v \in Users, Closing(v)' PROVE Room(v)'
    <3>1. Room(v)
      BY <1>1, <2>9 DEF ClosingInv, Closing, Exists
    <3>2. Rotating(v) \in SUBSET Requests /\ Rotating(v)' \subseteq Rotating(v) \ {r}
      BY <2>7 DEF Rotating
    <3>3. CASE v = u
      <4>1. r \in Rotating(v)
        BY <1>1, <2>3, <3>3 DEF Rotating
      <4>2. RotatedLive(v)' \subseteq RotatedLive(v) \cup {n}
        BY <2>4 DEF RotatedLive, TokensOf, Live
      <4>3. /\ IsFiniteSet(RotatedLive(v) \cup {n})
            /\ Cardinality(RotatedLive(v) \cup {n}) + Cardinality(Rotating(v) \ {r})
                 <= Cardinality(Requests)
        BY <3>1, <3>2, <4>1, RoomForMove DEF Room
      <4>4. /\ IsFiniteSet(RotatedLive(v)')
            /\ Cardinality(RotatedLive(v)') + Cardinality(Rotating(v)') <= Cardinality(Requests)
        BY <3>2, <4>2, <4>3, RoomForSubsets
      <4> QED
        BY <4>4 DEF Room
    <3>4. CASE v # u
      <4>1. RotatedLive(v)' \subseteq RotatedLive(v)
        BY <2>4, <2>5, <3>4 DEF RotatedLive, TokensOf, Live
      <4>2. /\ IsFiniteSet(RotatedLive(v)')
            /\ Cardinality(RotatedLive(v)') + Cardinality(Rotating(v)') <= Cardinality(Requests)
        BY <3>1, <3>2, <4>1, RoomForSubsets DEF Room
      <4> QED
        BY <4>2 DEF Room
    <3> QED
      BY <3>3, <3>4
  <2> QED
    BY <2>8, <2>9 DEF ClosingInv
<1> QED
  BY <1>2, <1>3

\* A refresh that is let in belongs to an active user.
LEMMA ClosingRefreshLookup ==
  ASSUME ClosingInv, TokensInv', NEW r \in Requests, NEW t \in Tokens, RefreshLookup(r, t)
  PROVE  ClosingInv'
<1>typed. TokensInv /\ TypeOK
  BY DEF ClosingInv, TokensInv
<1> DEFINE st == AfterLookup(t)
<1>1. st.phase = "rotate" /\ st.user = token[t].user /\ st.token = t
  BY DEF AfterLookup, Idle
<1>2. /\ Goto(r, st)
      /\ token' = token /\ user' = user
      /\ user[token[t].user].status = "ACTIVE"
  BY DEF RefreshLookup, Refreshable
<1> HIDE DEF st
<1>3. /\ request'[r] = st
      /\ \A q \in Requests : q # r => request'[q] = request[q]
  BY <1>typed, <1>2 DEF TypeOK, Goto
<1>4. RotatesOwn'
  BY <1>1, <1>2, <1>3 DEF ClosingInv, RotatesOwn
<1>5. ASSUME NEW u \in Users, Closing(u)'
      PROVE  /\ Closing(u)
             /\ RotatedLive(u)' \subseteq RotatedLive(u)
             /\ Rotating(u)' \subseteq Rotating(u)
  <2>1. Closing(u) /\ u # token[t].user
    BY <1>2, <1>5 DEF Closing, Exists
  <2>2. RotatedLive(u)' \subseteq RotatedLive(u)
    BY <1>2 DEF RotatedLive, TokensOf, Live
  <2>3. Rotating(u)' \subseteq Rotating(u)
    BY <1>1, <1>3, <2>1 DEF Rotating
  <2> QED
    BY <2>1, <2>2, <2>3
<1> QED
  BY <1>4, <1>5, ClosingUntouched

\* An account starts closing without a usable token.
LEMMA ClosingDeletion ==
  ASSUME ClosingInv, TokensInv', NEW u \in Users, RequestAccountDeletion(u)
  PROVE  ClosingInv'
<1>typed. TokensInv /\ TypeOK
  BY DEF ClosingInv, TokensInv
<1>1. token' = RevokedAll(u) /\ request' = request /\ user' = Deactivated(u)
  BY DEF RequestAccountDeletion
<1>2. /\ \A t \in Tokens \ TokensOf(u) : token'[t] = token[t]
      /\ \A t \in TokensOf(u) : /\ token'[t].revoked
                                /\ token'[t].user = token[t].user
                                /\ token'[t] # None
                                /\ token[t] # None
  BY <1>typed, <1>1, RevokedAllRows DEF TokensOf
<1>3. \A t \in Tokens : token'[t] # None => token[t] # None /\ token'[t].user = token[t].user
  BY <1>2
<1>4. RotatesOwn'
  BY <1>typed, <1>1, <1>3 DEF ClosingInv, RotatesOwn, TypeOK
<1>5. ASSUME NEW v \in Users, Closing(v)' PROVE Room(v)'
  <2>1. Rotating(v)' = Rotating(v) /\ Rotating(v) \in SUBSET Requests
    BY <1>1 DEF Rotating
  <2>2. CASE v = u
    <3>1. RotatedLive(v)' = {}
      BY <1>2, <2>2 DEF RotatedLive, TokensOf, Live
    <3>2. IsFiniteSet({}) /\ Cardinality({}) = 0
      BY FS_EmptySet
    <3>3. IsFiniteSet(Rotating(v)) /\ Cardinality(Rotating(v)) <= Cardinality(Requests)
      BY <2>1, RequestsFinite, FS_Subset
    <3>4. Cardinality(Rotating(v)) \in Nat
      BY <3>3, FS_CardinalityType
    <3>5. /\ IsFiniteSet(RotatedLive(v)')
          /\ Cardinality(RotatedLive(v)') + Cardinality(Rotating(v)') <= Cardinality(Requests)
      BY <2>1, <3>1, <3>2, <3>3, <3>4
    <3> QED
      BY <3>5 DEF Room
  <2>3. CASE v # u
    <3>1. Closing(v)
      BY <1>typed, <1>1, <1>5, <2>3 DEF Closing, Exists, Deactivated, TypeOK
    <3>2. RotatedLive(v)' \subseteq RotatedLive(v)
      BY <1>2 DEF RotatedLive, TokensOf, Live
    <3>3. /\ IsFiniteSet(RotatedLive(v)')
          /\ Cardinality(RotatedLive(v)') + Cardinality(Rotating(v)') <= Cardinality(Requests)
      BY <2>1, <3>1, <3>2, RoomForSubsets DEF ClosingInv, Room
    <3> QED
      BY <3>3 DEF Room
  <2> QED
    BY <2>2, <2>3
<1> QED
  BY <1>4, <1>5 DEF ClosingInv

LEMMA ClosingInvInductive == ClosingInv /\ [Next]_vars => ClosingInv'
<1> SUFFICES ASSUME ClosingInv, [Next]_vars PROVE ClosingInv'
  OBVIOUS
<1>typed. TokensInv' /\ TypeOK
  BY TokensInvInductive DEF ClosingInv, TokensInv
<1>1. ASSUME NEW r \in Requests, NEW u \in Users, CreateGuest(r, u) PROVE ClosingInv'
  <2> DEFINE st == [Idle EXCEPT !.phase = "issue", !.user = u]
  <2>1. NewUser(u, None) /\ Goto(r, st) /\ token' = token
    BY <1>1 DEF CreateGuest
  <2>2. \A v \in Users : Closing(v)' => Closing(v)
    BY <1>typed, <2>1 DEF NewUser, Closing, Exists, TypeOK
  <2>3. st.phase # "rotate"
    BY DEF Idle
  <2> HIDE DEF st
  <2> QED
    BY <1>typed, <2>1, <2>2, <2>3, ClosingQuiet
<1>2. ASSUME NEW r \in Requests, NEW e \in Emails, SignupLookup(r, e) PROVE ClosingInv'
  BY <1>typed, <1>2, Waiting, ClosingQuiet DEF SignupLookup, Closing, Exists
<1>3. ASSUME NEW r \in Requests, NEW u \in Users, SignupCreate(r, u) PROVE ClosingInv'
  <2>1. CASE UniqueViolation(request[r].email)
    <3>1. Goto(r, Idle) /\ user' = user /\ token' = token
      BY <1>3, <2>1 DEF SignupCreate
    <3> QED
      BY <1>typed, <3>1, Waiting, ClosingQuiet DEF Closing, Exists
  <2>2. CASE ~UniqueViolation(request[r].email)
    <3> DEFINE st == [Idle EXCEPT !.phase = "issue", !.user = u]
    <3>1. NewUser(u, request[r].email) /\ Goto(r, st) /\ token' = token
      BY <1>3, <2>2 DEF SignupCreate
    <3>2. \A v \in Users : Closing(v)' => Closing(v)
      BY <1>typed, <3>1 DEF NewUser, Closing, Exists, TypeOK
    <3>3. st.phase # "rotate"
      BY DEF Idle
    <3> HIDE DEF st
    <3> QED
      BY <1>typed, <3>1, <3>2, <3>3, ClosingQuiet
  <2> QED
    BY <2>1, <2>2
<1>4. ASSUME NEW r \in Requests, NEW u \in Users, LoginLookup(r, u) PROVE ClosingInv'
  BY <1>typed, <1>4, Waiting, ClosingQuiet DEF LoginLookup, Closing, Exists
<1>5. ASSUME NEW r \in Requests, Answer(r) PROVE ClosingInv'
  BY <1>typed, <1>5, Waiting, ClosingQuiet DEF Answer, Closing, Exists
<1>6. ASSUME NEW t \in Tokens, Logout(t) PROVE ClosingInv'
  <2>1. /\ token'[t].revoked
        /\ token'[t].user = token[t].user
        /\ token[t] # None
        /\ \A x \in Tokens : x # t => token'[x] = token[x]
    BY <1>typed, <1>6, LoggedOutRow DEF Logout, Live
  <2>2. request' = request /\ user' = user
    BY <1>6 DEF Logout
  <2>3. RotatesOwn'
    BY <1>typed, <2>1, <2>2 DEF ClosingInv, RotatesOwn, TypeOK
  <2>4. \A u \in Users : RotatedLive(u)' \subseteq RotatedLive(u)
    BY <2>1 DEF RotatedLive, TokensOf, Live
  <2>5. \A u \in Users : Rotating(u)' \subseteq Rotating(u)
    BY <2>2 DEF Rotating
  <2> QED
    BY <1>typed, <2>2, <2>3, <2>4, <2>5, ClosingUntouched DEF Closing, Exists
<1>7. ASSUME NEW r \in Requests, NEW u \in Users, AuditErase(r, u) PROVE ClosingInv'
  BY <1>typed, <1>7, Waiting, ClosingQuiet DEF AuditErase, Closing, Exists
<1>8. ASSUME NEW r \in Requests, Erase(r) PROVE ClosingInv'
  <2>1. Goto(r, Idle)
    BY <1>8 DEF Erase
  <2>2. \A t \in Tokens : token'[t] = token[t] \/ token'[t] = None
    BY <1>8 DEF Erase, WithoutTokensOf
  <2>3. \A v \in Users : Closing(v)' => Closing(v)
    BY <1>typed, <1>8 DEF Erase, Closing, Exists, TypeOK
  <2> QED
    BY <1>typed, <2>1, <2>2, <2>3, Waiting, ClosingQuiet
<1>9. ASSUME NEW r \in Requests, Abandon(r) PROVE ClosingInv'
  BY <1>typed, <1>9, Waiting, ClosingQuiet DEF Abandon, Closing, Exists
<1>10. CASE Tick \/ UNCHANGED vars
  <2>1. request' = request /\ user' = user /\ token' = token
    BY <1>10 DEF Tick, vars
  <2>2. RotatesOwn'
    BY <2>1 DEF ClosingInv, RotatesOwn
  <2> QED
    BY <1>typed, <2>1, <2>2, ClosingUntouched
    DEF Closing, Exists, Rotating, RotatedLive, TokensOf, Live
<1> QED
  BY <1>1, <1>2, <1>3, <1>4, <1>5, <1>6, <1>7, <1>8, <1>9, <1>10, <1>typed, ClosingIssue,
     ClosingRotate, ClosingRefreshLookup, ClosingDeletion DEF Next

\* A closing account is left at most one usable rotated token for each request
\* that was in flight, whatever the number of refreshes and of tokens.
THEOREM ClosingBounded == Spec => []ClosingAccountBounded
<1>1. Init => ClosingInv
  <2> SUFFICES ASSUME Init PROVE ClosingInv
    OBVIOUS
  <2>1. TokensInv
    BY InitTokensInv
  <2>2. \A r \in Requests : request[r].phase = "idle"
    BY DEF Init, Idle
  <2>3. \A u \in Users : ~Closing(u)
    BY DEF Init, Closing, Exists
  <2> QED
    BY <2>1, <2>2, <2>3 DEF ClosingInv, RotatesOwn
<1>2. ClosingInv => ClosingAccountBounded
  BY DEF ClosingInv, ClosingAccountBounded, Closing, Room
<1> QED
  BY <1>1, <1>2, ClosingInvInductive, PTL DEF Spec
=============================================================================
