------------------------------- MODULE Intake -------------------------------
(***************************************************************************)
(* The way of a request with a body through the server:                    *)
(*                                                                         *)
(*   Receive --> Guard --> Pipe --> Serve --> Close                        *)
(*                           \----> Envelope --> Entry ... Entry --> Close *)
(*                                                                         *)
(* PrivacyGuardInterceptor sees the body as parsed, the ValidationPipe     *)
(* checks it against the handler's DTO class, and the service gets it.     *)
(* What services do is in the other modules, except for POST               *)
(* /sync/activity-sessions: SyncService.upsertActivitySessions checks the  *)
(* body a third time and answers entry by entry.                           *)
(***************************************************************************)
EXTENDS Payloads

CONSTANTS
    Bodies,   \* Bodies[h]: what clients send to the handler h
    Tokens    \* refresh tokens that the server issues, as texts

Handlers == {"activity", "push", "summary", "snapshot", "updateMe", "signup", "login", "refresh"}

\* The class of the handler's body.
Dto(h) ==
    CASE h = "activity" -> SafeActivitySessionsUpsertRequest
      [] h = "push"     -> SyncPush
      [] h = "summary"  -> UploadSessionSummary
      [] h = "snapshot" -> CharacterSnapshot
      [] h = "updateMe" -> UpdateUser
      [] h = "signup"   -> Signup
      [] h = "login"    -> Login
      [] h = "refresh"  -> Refresh

\* Mutant: signup has no policy.
PolicyOfLogin(h) == IF h = "login" THEN {"password"} ELSE {}

\* @PrivacyPolicy of the handler; logout is as refresh.
Allowed(h) ==
    CASE h \in {"signup", "login"} -> {"password"}
      [] h = "refresh"             -> {"refreshtoken"}
      [] OTHER                     -> {}

\* Clients send a JSON object, and a text has the marks that its form admits.
ASSUME BodiesAssumption ==
    \A h \in Handlers : \A v \in Bodies[h] :
        IsBody(v) /\ v[<<>>].kind = "object" /\ MarksAdmitted(v, Nested(Dto(h)))

VARIABLES
    request,   \* the request at hand: handler, body and stage
    results,   \* entries of it answered so far: "accepted" or "rejected"
    stored,    \* what the services got of it, as places in its body
    reply      \* its answer

vars == <<request, results, stored, reply>>

Idle == [handler |-> "refresh", body |-> [p \in {<<>>} |-> Null], stage |-> "idle"]

Init == request = Idle /\ results = <<>> /\ stored = {} /\ reply = "none"

At(stage) == request.stage = stage
Goto(stage) == request' = [request EXCEPT !.stage = stage]

\* Mutant: an answer without a reply.
Silent(what) == Goto("answered") /\ UNCHANGED reply

Answered(what) == Goto("answered") /\ reply' = what

\* The body parser.
Receive(h, body) ==
    /\ At("idle")
    /\ request' = [handler |-> h, body |-> body, stage |-> "received"]
    /\ UNCHANGED <<results, stored, reply>>

\* PrivacyGuardInterceptor, before the pipes.
Guard ==
    /\ At("received")
    /\ IF GuardRefuses(request.body, Allowed(request.handler))
       THEN Answered("forbidden")
       ELSE Goto("guarded") /\ UNCHANGED reply
    /\ UNCHANGED <<results, stored>>

\* The ValidationPipe.
Pipe ==
    /\ At("guarded")
    /\ IF Conforms(request.body, Nested(Dto(request.handler)))
       THEN Goto("admitted") /\ UNCHANGED reply
       ELSE Answered("invalid")
    /\ UNCHANGED <<results, stored>>

\* The service of any other handler gets the body; what it answers is not known
\* here.
Serve ==
    /\ At("admitted")
    /\ request.handler # "activity"
    /\ stored' = {<<>>}
    /\ Answered("served")
    /\ UNCHANGED results

\* The number of sessions in the batch at hand.
Entries == request.body[Sessions].len

\* The reply: success unless an entry was rejected.
Summarised(outcomes) ==
    IF \E i \in DOMAIN outcomes : outcomes[i] = "rejected" THEN "partial" ELSE "ok"

Envelope ==
    /\ At("admitted")
    /\ request.handler = "activity"
    /\ IF ~EnvelopeAccepted(request.body) THEN Answered("unsafe")
       ELSE IF Entries = 0 THEN Answered("ok")
       ELSE Goto("entries") /\ UNCHANGED reply
    /\ UNCHANGED <<results, stored>>

\* One round of the loop: an accepted entry is stored at once.  safeClientSessionId
\* reads a field of the entry before it is checked, so a null ends the loop.
Entry ==
    LET entry == SessionAt(Len(results) + 1)
        outcome == IF EntryAccepted(request.body, entry) THEN "accepted" ELSE "rejected"
    IN  /\ At("entries")
        /\ \/ /\ request.body[entry] = Null
              /\ Answered("error")
              /\ UNCHANGED <<results, stored>>
           \/ /\ request.body[entry] # Null
              /\ results' = Append(results, outcome)
              /\ stored' = IF outcome = "accepted" THEN stored \cup {entry} ELSE stored
              /\ IF Len(results') = Entries
                 THEN Answered(Summarised(results'))
                 ELSE UNCHANGED <<request, reply>>

\* The reply is sent; what was stored is the business of other modules.
Close ==
    /\ At("answered")
    /\ request' = Idle /\ results' = <<>> /\ stored' = {} /\ reply' = "none"

Advance == Guard \/ Pipe \/ Serve \/ Envelope \/ Entry \/ Close

Next == Advance \/ \E h \in Handlers : \E body \in Bodies[h] : Receive(h, body)

Spec == Init /\ [][Next]_vars

-----------------------------------------------------------------------------
TypeOK ==
    /\ request.handler \in Handlers
    /\ request.stage \in {"idle", "received", "guarded", "admitted", "entries", "answered"}
    /\ results \in Seq({"accepted", "rejected"})
    /\ reply \in {"none", "served", "ok", "partial", "error", "forbidden", "invalid", "unsafe"}
    /\ At("answered") <=> reply # "none"

\* No service gets a text that the guard knows to be raw, or a name it forbids,
\* however deep in the body, except the one name that the handler's policy
\* allows (privacy-guard.service.ts:117-207, auth.controller.ts:20-41).
OnlySafeStored ==
    \A s \in stored : \A p \in Below(request.body, s) :
        /\ ~Marked(request.body[p], GuardMarks)
        /\ ~Named(p, GuardNames \ Allowed(request.handler))

\* A body of the handler's class without raw texts, and without a null in a list,
\* is never refused: no field of a class has a name that a scan forbids, and no
\* policy is missing.
PlainServed ==
    /\ At("answered")
    /\ \A p \in DOMAIN request.body :
         ~Marked(request.body[p], Marks) /\ (request.body[p] = Null => IsField(Last(p)))
    /\ Conforms(request.body, Nested(Dto(request.handler)))
    => reply \in {"served", "ok", "partial"}

BodyRule == Nested(Dto(request.handler))

\* The third check agrees with the first two.  Once the pipe has admitted a
\* batch, its envelope is accepted, an entry is rejected only for a null or for a
\* list in the place of an object, and the loop fails only at a null
\* (activity-session-sync.dto.ts:40-164, safe-sync-payload.validator.ts:75-182,
\* sync.service.ts:295-321).
RejectedForOddOnly ==
    /\ reply # "unsafe"
    /\ \A i \in DOMAIN results :
         results[i] = "rejected" =>
            \E p \in Below(request.body, SessionAt(i)) : Odd(request.body, BodyRule, p)
    /\ reply = "error" => request.body[SessionAt(Len(results) + 1)] = Null

\* An enum without one of its values, or a bucket that is no object.
Malformed(p) ==
    \/ RuleAt(BodyRule, p) = Word("enum") /\ ~(request.body[p].kind = "text" /\ request.body[p].fits)
    \/ RuleAt(BodyRule, p) = Nested(SafeBucket) /\ request.body[p].kind # "object"

\* 'malformed enum or bucket values reject the whole request before partial
\* persistence' (Docs/openapi/safe-sync.openapi.yaml:22-24).  Of a session with
\* another fault lines 24-25 allow a report of its own.
RejectedAsAWhole ==
    /\ At("answered")
    /\ request.handler = "activity"
    /\ \E p \in DOMAIN request.body : Malformed(p)
    => stored = {}

\* 'refreshToken is accepted only by auth endpoints' (README.md:27): the guard
\* lets pass what the server has issued.
IssuedTokensPass ==
    /\ request.handler = "refresh"
    /\ DOMAIN request.body = {<<>>, <<Field("refreshToken")>>}
    /\ request.body[<<Field("refreshToken")>>] \in Tokens
    => reply # "forbidden"
=============================================================================
