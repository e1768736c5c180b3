----------------------------- MODULE Accounts -----------------------------
(***************************************************************************)
(* Users and their refresh tokens: AuthService                             *)
(* (src/src/auth/auth.service.ts) and PrivacyService.deleteUserData        *)
(* (src/src/privacy/privacy.service.ts) over the tables User, AuthAccount, *)
(* RefreshToken and DeletedDataAudit.                                      *)
(*                                                                         *)
(*   guest:    CreateGuest ------------------------> Issue ---> Answer     *)
(*   signup:   SignupLookup ---> SignupCreate -----> Issue ---> Answer     *)
(*   login:    LoginLookup ------------------------> Issue ---> Answer     *)
(*   refresh:  RefreshLookup ----------------------> Rotate --> Answer     *)
(*   delete data:  AuditErase ---------------------> Erase                 *)
(*                                                                         *)
(* A request suspends between the steps of its line.  An AuthAccount lives *)
(* and dies with its user: it is created in the same statement and removed *)
(* by the same cascade, so looking one up is looking the user up by email. *)
(***************************************************************************)
EXTENDS Integers, FiniteSets

CONSTANTS
    Requests,         \* requests that can be in flight at the same time
    Users,            \* ids that user.create can generate
    Tokens,           \* values that createOpaqueToken can generate
    Emails,           \* addresses people sign up with
    RefreshLifetime,  \* REFRESH_TOKEN_EXPIRES_IN, in days
    MaxTime,          \* bound on the clock, in days
    None              \* no row, no value

ASSUME RequestsFinite == IsFiniteSet(Requests)
ASSUME LifetimeAssumption == RefreshLifetime \in Nat /\ MaxTime \in Nat
ASSUME NoneDistinct == None \notin Users /\ None \notin Tokens /\ None \notin Emails

Status == {"ACTIVE", "DELETION_REQUESTED"}

\* USER_REQUESTED_ACCOUNT_DELETION and USER_REQUESTED_DATA_DELETE.  The cascade
\* clears the userId of an audit row; the row stays.
Reason == {"ACCOUNT_DELETION", "DATA_DELETE"}

\* A User row; a guest (isGuest) is a user without an email.
UserRow == [email: Emails \cup {None}, status: Status]

\* A RefreshToken row.  `next` is replacedByHash; `prev`, the token this one
\* was rotated from, is not stored by the program.
TokenRow == [user: Users, expires: Nat, revoked: BOOLEAN,
             next: Tokens \cup {None}, prev: Tokens \cup {None}]

ASSUME NoneIsNoRow == None \notin UserRow /\ None \notin TokenRow

Phase == {"idle", "create", "issue", "rotate", "answer", "erase"}

\* What a request holds across an await.
Request == [phase: Phase, user: Users \cup {None}, email: Emails \cup {None},
            token: Tokens \cup {None}]

VARIABLES
    user,       \* User table
    token,      \* RefreshToken table, by token value
    audits,     \* DeletedDataAudit table: reason and user it was written for
    request,    \* the requests in flight
    now,        \* the clock
    born,       \* user ids generated so far
    minted,     \* token values stored so far
    held,       \* refresh tokens that reached a client
    clients,    \* users whose access token reached a client
    forfeited   \* users that gave a refresh token up, or whose reply was lost

vars == <<user, token, audits, request, now, born, minted, held, clients, forfeited>>

Idle == [phase |-> "idle", user |-> None, email |-> None, token |-> None]

Init ==
    /\ user = [u \in Users |-> None]
    /\ token = [t \in Tokens |-> None]
    /\ audits = {}
    /\ request = [r \in Requests |-> Idle]
    /\ now = 0
    /\ born = {}
    /\ minted = {}
    /\ held = {}
    /\ clients = {}
    /\ forfeited = {}

-----------------------------------------------------------------------------
Exists(u) == u # None /\ user[u] # None
Registered(e) == \E u \in Users : Exists(u) /\ user[u].email = e
TokensOf(u) == {t \in Tokens : token[t] # None /\ token[t].user = u}
Live(t) == token[t] # None /\ ~token[t].revoked

Goto(r, st) == request' = [request EXCEPT ![r] = st]

NewUser(u, e) ==
    /\ u \in Users \ born
    /\ born' = born \cup {u}
    /\ user' = [user EXCEPT ![u] = [email |-> e, status |-> "ACTIVE"]]

\* A row for a token nobody has seen before, valid from now on.
NewToken(u, parent) ==
    [user |-> u, expires |-> now + RefreshLifetime, revoked |-> FALSE,
     next |-> None, prev |-> parent]

-----------------------------------------------------------------------------
\* createGuest: the user and its GUEST account are one statement.
CreateGuest(r, u) ==
    /\ request[r].phase = "idle"
    /\ NewUser(u, None)
    /\ Goto(r, [Idle EXCEPT !.phase = "issue", !.user = u])
    /\ UNCHANGED <<token, audits, now, minted, held, clients, forfeited>>

\* signup, up to its first await: a registered email is refused.
SignupLookup(r, e) ==
    /\ request[r].phase = "idle"
    /\ ~Registered(e)
    /\ Goto(r, [Idle EXCEPT !.phase = "create", !.email = e])
    /\ UNCHANGED <<user, token, audits, now, born, minted, held, clients, forfeited>>

\* Mutant: no unique index.
NotUnique(e) == FALSE

\* The unique index on User.email.
UniqueViolation(e) == Registered(e)

\* signup after bcrypt.hash: user.create, which fails if another signup of the
\* email came first.
SignupCreate(r, u) ==
    LET e == request[r].email
    IN  /\ request[r].phase = "create"
        /\ IF UniqueViolation(e)
           THEN Goto(r, Idle) /\ UNCHANGED <<user, born>>
           ELSE NewUser(u, e) /\ Goto(r, [Idle EXCEPT !.phase = "issue", !.user = u])
        /\ UNCHANGED <<token, audits, now, minted, held, clients, forfeited>>

\* login with the right password; the status of the user is not looked at.
LoginLookup(r, u) ==
    /\ request[r].phase = "idle"
    /\ Exists(u) /\ user[u].email # None
    /\ Goto(r, [Idle EXCEPT !.phase = "issue", !.user = u])
    /\ UNCHANGED <<user, token, audits, now, born, minted, held, clients, forfeited>>

\* Mutant: no foreign key.
NoReference(u) == TRUE

\* The foreign key from RefreshToken to User.
UserReference(u) == Exists(u)

\* issueTokens: refreshToken.create, refused when the user is gone.
Issue(r, n) ==
    LET u == request[r].user
    IN  /\ request[r].phase = "issue"
        /\ IF UserReference(u)
           THEN /\ n \in Tokens \ minted
                /\ token' = [token EXCEPT ![n] = NewToken(u, None)]
                /\ minted' = minted \cup {n}
                /\ Goto(r, [Idle EXCEPT !.phase = "answer", !.user = u, !.token = n])
           ELSE Goto(r, Idle) /\ UNCHANGED <<token, minted>>
        /\ UNCHANGED <<user, audits, now, born, held, clients, forfeited>>

\* Mutant: like login, refresh does not look at the status.
RefreshableByAnyone(t) == Live(t) /\ token[t].expires >= now

\* refresh, up to its first await.
Refreshable(t) ==
    /\ Live(t)
    /\ token[t].expires >= now
    /\ user[token[t].user].status = "ACTIVE"

\* Mutant: the row that was looked up is forgotten.
ForgetLookup(t) == [Idle EXCEPT !.phase = "rotate", !.user = token[t].user]

AfterLookup(t) == [Idle EXCEPT !.phase = "rotate", !.user = token[t].user, !.token = t]

RefreshLookup(r, t) ==
    /\ request[r].phase = "idle"
    /\ t \in held
    /\ Refreshable(t)
    /\ Goto(r, AfterLookup(t))
    /\ UNCHANGED <<user, token, audits, now, born, minted, held, clients, forfeited>>

\* Mutant: the old row is linked but not revoked.
RotatedUnrevoked(t, n) ==
    [token EXCEPT ![t] = [@ EXCEPT !.next = n], ![n] = NewToken(token[t].user, t)]

\* The transaction of refresh: revoke by id, whatever the row has become, and
\* store the successor.
Rotated(t, n) ==
    [token EXCEPT ![t] = [@ EXCEPT !.revoked = TRUE, !.next = n],
                  ![n] = NewToken(token[t].user, t)]

\* refresh, the rest; the update fails, and with it the transaction, when the
\* row is gone.
Rotate(r, n) ==
    LET t == request[r].token
    IN  /\ request[r].phase = "rotate"
        /\ IF token[t] # None
           THEN /\ n \in Tokens \ minted
                /\ token' = Rotated(t, n)
                /\ minted' = minted \cup {n}
                /\ Goto(r, [Idle EXCEPT !.phase = "answer", !.user = token[t].user, !.token = n])
           ELSE Goto(r, Idle) /\ UNCHANGED <<token, minted>>
        /\ UNCHANGED <<user, audits, now, born, held, clients, forfeited>>

\* The access token is signed and both tokens reach the client.
Answer(r) ==
    /\ request[r].phase = "answer"
    /\ held' = held \cup {request[r].token}
    /\ clients' = clients \cup {request[r].user}
    /\ Goto(r, Idle)
    /\ UNCHANGED <<user, token, audits, now, born, minted, forfeited>>

\* logout: one updateMany on the unrevoked row of this hash.
Logout(t) ==
    /\ t \in held
    /\ Live(t)
    /\ token' = [token EXCEPT ![t].revoked = TRUE]
    /\ forfeited' = forfeited \cup {token[t].user}
    /\ UNCHANGED <<user, audits, request, now, born, minted, held, clients>>

\* Mutant: the revocation date is toggled instead of set.
RevokedAllToggling(u) ==
    [t \in Tokens |-> IF t \in TokensOf(u) THEN [token[t] EXCEPT !.revoked = ~@] ELSE token[t]]

\* requestAccountDeletion: one transaction, refused when the user is gone.
RevokedAll(u) ==
    [t \in Tokens |-> IF t \in TokensOf(u) THEN [token[t] EXCEPT !.revoked = TRUE] ELSE token[t]]

\* Mutant: the user stays active.
NotDeactivated(u) == user

Deactivated(u) == [user EXCEPT ![u].status = "DELETION_REQUESTED"]

RequestAccountDeletion(u) ==
    /\ u \in clients
    /\ Exists(u)
    /\ user' = Deactivated(u)
    /\ token' = RevokedAll(u)
    /\ audits' = audits \cup {<<"ACCOUNT_DELETION", u>>}
    /\ UNCHANGED <<request, now, born, minted, held, clients, forfeited>>

\* Mutant: the audit row is left to a later job.
AuditedLater(u) == audits

AuditedNow(u) == audits \cup {<<"DATA_DELETE", u>>}

\* deleteUserData: the audit row, already marked completed; its foreign key
\* needs the user.
AuditErase(r, u) ==
    /\ request[r].phase = "idle"
    /\ u \in clients
    /\ Exists(u)
    /\ audits' = AuditedNow(u)
    /\ Goto(r, [Idle EXCEPT !.phase = "erase", !.user = u])
    /\ UNCHANGED <<user, token, now, born, minted, held, clients, forfeited>>

\* deleteUserData: user.delete, which cascades; it fails when another request
\* has deleted the user.
WithoutTokensOf(u) == [t \in Tokens |-> IF t \in TokensOf(u) THEN None ELSE token[t]]

Erase(r) ==
    LET u == request[r].user
    IN  /\ request[r].phase = "erase"
        /\ IF Exists(u)
           THEN user' = [user EXCEPT ![u] = None] /\ token' = WithoutTokensOf(u)
           ELSE UNCHANGED <<user, token>>
        /\ Goto(r, Idle)
        /\ UNCHANGED <<audits, now, born, minted, held, clients, forfeited>>

\* A statement fails, the process dies, or the reply is lost: the writes of
\* the request stay, its tokens reach nobody.
Abandon(r) ==
    /\ request[r].phase # "idle"
    /\ forfeited' = IF request[r].phase \in {"issue", "answer"}
                    THEN forfeited \cup {request[r].user}
                    ELSE forfeited
    /\ Goto(r, Idle)
    /\ UNCHANGED <<user, token, audits, now, born, minted, held, clients>>

Tick ==
    /\ now < MaxTime
    /\ now' = now + 1
    /\ UNCHANGED <<user, token, audits, request, born, minted, held, clients, forfeited>>

Next ==
    \/ \E r \in Requests, u \in Users : CreateGuest(r, u)
    \/ \E r \in Requests, e \in Emails : SignupLookup(r, e)
    \/ \E r \in Requests, u \in Users : SignupCreate(r, u)
    \/ \E r \in Requests, u \in Users : LoginLookup(r, u)
    \/ \E r \in Requests, n \in Tokens : Issue(r, n)
    \/ \E r \in Requests, t \in Tokens : RefreshLookup(r, t)
    \/ \E r \in Requests, n \in Tokens : Rotate(r, n)
    \/ \E r \in Requests : Answer(r)
    \/ \E t \in Tokens : Logout(t)
    \/ \E u \in Users : RequestAccountDeletion(u)
    \/ \E r \in Requests, u \in Users : AuditErase(r, u)
    \/ \E r \in Requests : Erase(r)
    \/ \E r \in Requests : Abandon(r)
    \/ Tick

Spec == Init /\ [][Next]_vars

-----------------------------------------------------------------------------
TypeOK ==
    /\ user \in [Users -> UserRow \cup {None}]
    /\ token \in [Tokens -> TokenRow \cup {None}]
    /\ audits \subseteq (Reason \X Users)
    /\ request \in [Requests -> Request]
    /\ \A r \in Requests :
         /\ request[r].phase = "create" => request[r].email \in Emails
         /\ request[r].phase \in {"issue", "rotate", "answer", "erase"} => request[r].user \in Users
         /\ request[r].phase \in {"rotate", "answer"} => request[r].token \in Tokens
    /\ now \in Nat
    /\ born \subseteq Users
    /\ minted \subseteq Tokens
    /\ held \subseteq Tokens
    /\ clients \subseteq Users
    /\ forfeited \subseteq Users

\* The cascade leaves no token of a deleted user behind, whatever requests were
\* in flight when it ran: a late issueTokens or refresh cannot bring one back
\* (auth.service.ts:126-138, 180-186, privacy.service.ts:110).
NoOrphanTokens == \A t \in Tokens : token[t] # None => user[token[t].user] # None

\* A token that was rotated away is revoked, and its replacedByHash leads to a
\* stored token of the same user that was rotated from it and expires no
\* sooner (auth.service.ts:126-138), even when two refreshes of it overlapped.
RotationChain ==
    \A t \in Tokens :
        token[t] # None /\ token[t].next # None =>
            LET n == token[t].next
            IN  /\ token[t].revoked
                /\ token[n] # None
                /\ token[n].user = token[t].user
                /\ token[n].prev = t
                /\ token[n].expires >= token[t].expires

\* Two signups that both found the email free still make one user
\* (auth.service.ts:46-70).
OneUserPerEmail ==
    \A u, v \in Users :
        Exists(u) /\ Exists(v) /\ user[u].email # None /\ user[u].email = user[v].email => u = v

\* The tokens in a client's hands, or on their way there.
Reaching(t) == t \in held \/ \E r \in Requests : request[r].phase = "answer" /\ request[r].token = t

\* A guest cannot log in again, so its refresh token is its identity.  An
\* active guest that has not logged out and missed no reply has an unrevoked
\* token, or is about to get one, however its refreshes interleave
\* (auth.service.ts:28-43, 105-146).
GuestNotStranded ==
    \A u \in Users :
        Exists(u) /\ user[u].email = None /\ user[u].status = "ACTIVE" /\ u \notin forfeited =>
            \/ \E r \in Requests : request[r].phase = "issue" /\ request[r].user = u
            \/ \E t \in TokensOf(u) : Live(t) /\ Reaching(t)

\* The rotated tokens of u that are still usable rows.
RotatedLive(u) == {t \in TokensOf(u) : Live(t) /\ token[t].prev # None}

\* The refreshes of u that have passed their check.
Rotating(u) == {r \in Requests : request[r].phase = "rotate" /\ request[r].user = u}

\* A request for account deletion revokes every token, and refreshes that had
\* passed their check before it can each leave one more: those and the tokens
\* they left are never more than the requests in flight, however long the
\* account stays closing (auth.service.ts:112-138, 156-171).
ClosingAccountBounded ==
    \A u \in Users :
        Exists(u) /\ user[u].status = "DELETION_REQUESTED" =>
            Cardinality(RotatedLive(u)) + Cardinality(Rotating(u)) <= Cardinality(Requests)

\* No user's data disappears without an audit row, and no account is closing
\* without one, whatever fails in between (auth.service.ts:156-169,
\* privacy.service.ts:102-112).
AuditTrail ==
    \A u \in born :
        /\ user[u] = None => <<"DATA_DELETE", u>> \in audits
        /\ user[u] # None /\ user[u].status = "DELETION_REQUESTED" =>
             <<"ACCOUNT_DELETION", u>> \in audits

\* Revocation is final: a revoked row stays revoked with its owner, until the
\* cascade removes the row together with its user.
RevocationFinal ==
    [][\A t \in Tokens : token[t] # None /\ token[t].revoked =>
         \/ token'[t] # None /\ token'[t].revoked /\ token'[t].user = token[t].user
         \/ token'[t] = None /\ user'[token[t].user] = None]_vars

\* 'On deletion ... refresh tokens are removed or tombstoned': an account whose
\* deletion was requested has no unrevoked token.
DeletionRevokesTokens ==
    \A t \in Tokens : Live(t) => user[token[t].user].status = "ACTIVE"
=============================================================================
