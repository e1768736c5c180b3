--------------------------- MODULE IntakeProofs ---------------------------
(***************************************************************************)
(* The guarantees of Intake and ClientContract, for every set of bodies    *)
(* and bundles.  IntakeInv says what is known of the body at hand at each  *)
(* stage, and what each reply tells of it; what follows from that for the  *)
(* body itself is in PayloadsProofs.                                       *)
(***************************************************************************)
EXTENDS ClientContract, PayloadsProofs

Passed == ~GuardRefuses(request.body, Allowed(request.handler))
Admitted == Passed /\ Conforms(request.body, Nested(Dto(request.handler)))
ActivityAdmitted == Admitted /\ request.handler = "activity" /\ EnvelopeAccepted(request.body)

\* The body is what somebody has sent, and has passed what is before its stage.
StageInv ==
    /\ request = [handler |-> request.handler, body |-> request.body, stage |-> request.stage]
    /\ ~At("idle") => request.body \in Bodies[request.handler]
    /\ At("guarded") => Passed
    /\ At("admitted") => Admitted
    /\ At("entries") => ActivityAdmitted /\ Len(results) < Entries
    /\ ~At("entries") /\ ~At("answered") => results = <<>> /\ stored = {}

\* The entries answered are the first ones of an admitted batch, and the
\* rejected ones have failed their check.  Only what is admitted is stored.
EntriesInv ==
    /\ stored # {} => Admitted
    /\ results # <<>> => ActivityAdmitted /\ Len(results) <= Entries
    /\ \A i \in DOMAIN results : results[i] = "rejected" => ~EntryAccepted(request.body, SessionAt(i))

\* A reply tells how far the body has come.
ReplyInv ==
    /\ reply = "forbidden" => ~Passed
    /\ reply \in {"invalid", "unsafe", "served", "ok", "partial", "error"} => Passed
    /\ reply = "invalid" => ~Conforms(request.body, Nested(Dto(request.handler)))
    /\ reply = "unsafe" => Admitted /\ request.handler = "activity" /\ ~EnvelopeAccepted(request.body)
    /\ reply = "served" => request.handler # "activity"
    /\ reply = "ok" => Len(results) = Entries
    /\ reply = "partial" => \E i \in DOMAIN results : results[i] = "rejected"
    /\ reply = "error" => /\ ActivityAdmitted /\ Len(results) < Entries
                          /\ request.body[SessionAt(Len(results) + 1)] = Null

\* The inductive invariant.
IntakeInv == TypeOK /\ StageInv /\ EntriesInv /\ ReplyInv

-----------------------------------------------------------------------------
(* Each step keeps the invariant.                                          *)

LEMMA GotoFacts ==
  ASSUME StageInv, NEW s, Goto(s)
  PROVE  /\ request'.stage = s /\ request'.handler = request.handler /\ request'.body = request.body
         /\ request' = [handler |-> request'.handler, body |-> request'.body, stage |-> request'.stage]
  BY DEF StageInv, Goto

LEMMA IntakeInit == Init => IntakeInv
  BY DEF Init, Idle, Handlers, IntakeInv, TypeOK, At, StageInv, EntriesInv, ReplyInv

LEMMA ReceiveStep ==
  ASSUME IntakeInv, NEW h \in Handlers, NEW body \in Bodies[h], Receive(h, body)
  PROVE  IntakeInv'
  BY DEF Receive, IntakeInv, TypeOK, At, StageInv, EntriesInv, ReplyInv

LEMMA CloseStep ==
  ASSUME IntakeInv, Close
  PROVE  IntakeInv'
  BY DEF Close, Idle, Handlers, IntakeInv, TypeOK, At, StageInv, EntriesInv, ReplyInv

LEMMA GuardStep ==
  ASSUME IntakeInv, Guard
  PROVE  IntakeInv'
  <1>1. At("received") /\ results = <<>> /\ stored = {} /\ UNCHANGED <<results, stored>> /\ reply = "none"
    BY DEF Guard, IntakeInv, StageInv, TypeOK, At
  <1>2. CASE Passed
    <2>1. Goto("guarded") /\ UNCHANGED reply
      BY <1>2 DEF Guard, Passed
    <2>2. /\ request'.stage = "guarded" /\ request'.handler = request.handler /\ request'.body = request.body
          /\ request' = [handler |-> request'.handler, body |-> request'.body, stage |-> request'.stage]
      BY <2>1, GotoFacts DEF IntakeInv
    <2>3. Passed'
      BY <1>2, <2>2 DEF Passed
    <2> QED
      BY <1>1, <2>1, <2>2, <2>3 DEF IntakeInv, TypeOK, At, StageInv, EntriesInv, ReplyInv
  <1>3. CASE ~Passed
    <2>1. Goto("answered") /\ reply' = "forbidden"
      BY <1>3 DEF Guard, Passed, Answered
    <2>2. /\ request'.stage = "answered" /\ request'.handler = request.handler /\ request'.body = request.body
          /\ request' = [handler |-> request'.handler, body |-> request'.body, stage |-> request'.stage]
      BY <2>1, GotoFacts DEF IntakeInv
    <2>3. ~Passed'
      BY <1>3, <2>2 DEF Passed
    <2> QED
      BY <1>1, <2>1, <2>2, <2>3 DEF IntakeInv, TypeOK, At, StageInv, EntriesInv, ReplyInv
  <1> QED
    BY <1>2, <1>3

LEMMA PipeStep ==
  ASSUME IntakeInv, Pipe
  PROVE  IntakeInv'
  <1>1. /\ At("guarded") /\ results = <<>> /\ stored = {} /\ UNCHANGED <<results, stored>>
        /\ reply = "none" /\ Passed
    BY DEF Pipe, IntakeInv, StageInv, TypeOK, At
  <1>2. CASE Conforms(request.body, Nested(Dto(request.handler)))
    <2>1. Goto("admitted") /\ UNCHANGED reply
      BY <1>2 DEF Pipe
    <2>2. /\ request'.stage = "admitted" /\ request'.handler = request.handler /\ request'.body = request.body
          /\ request' = [handler |-> request'.handler, body |-> request'.body, stage |-> request'.stage]
      BY <2>1, GotoFacts DEF IntakeInv
    <2>3. Admitted'
      BY <1>1, <1>2, <2>2 DEF Passed, Admitted
    <2> QED
      BY <1>1, <2>1, <2>2, <2>3 DEF IntakeInv, TypeOK, At, StageInv, EntriesInv, ReplyInv
  <1>3. CASE ~Conforms(request.body, Nested(Dto(request.handler)))
    <2>1. Goto("answered") /\ reply' = "invalid"
      BY <1>3 DEF Pipe, Answered
    <2>2. /\ request'.stage = "answered" /\ request'.handler = request.handler /\ request'.body = request.body
          /\ request' = [handler |-> request'.handler, body |-> request'.body, stage |-> request'.stage]
      BY <2>1, GotoFacts DEF IntakeInv
    <2>3. Passed' /\ ~Conforms(request'.body, Nested(Dto(request'.handler)))
      BY <1>1, <1>3, <2>2 DEF Passed
    <2> QED
      BY <1>1, <2>1, <2>2, <2>3 DEF IntakeInv, TypeOK, At, StageInv, EntriesInv, ReplyInv
  <1> QED
    BY <1>2, <1>3

LEMMA ServeStep ==
  ASSUME IntakeInv, Serve
  PROVE  IntakeInv'
  <1>1. /\ At("admitted") /\ results = <<>> /\ UNCHANGED results
        /\ reply = "none" /\ Admitted /\ request.handler # "activity"
    BY DEF Serve, IntakeInv, StageInv, TypeOK, At
  <1>2. Goto("answered") /\ reply' = "served"
    BY DEF Serve, Answered
  <1>3. /\ request'.stage = "answered" /\ request'.handler = request.handler /\ request'.body = request.body
        /\ request' = [handler |-> request'.handler, body |-> request'.body, stage |-> request'.stage]
    BY <1>2, GotoFacts DEF IntakeInv
  <1>4. Passed' /\ Admitted'
    BY <1>1, <1>3 DEF Passed, Admitted
  <1> QED
    BY <1>1, <1>2, <1>3, <1>4 DEF IntakeInv, TypeOK, At, StageInv, EntriesInv, ReplyInv

\* An accepted envelope has a list of sessions.
LEMMA EntriesCount ==
  ASSUME NEW v, IsBody(v), EnvelopeAccepted(v)
  PROVE  v[Sessions].len \in Nat
  BY EveryPlaceReached DEF EnvelopeAccepted, ListUpTo, Node

LEMMA BodyFacts ==
  ASSUME NEW h \in Handlers, NEW v \in Bodies[h]
  PROVE  IsBody(v) /\ v[<<>>].kind = "object" /\ MarksAdmitted(v, Nested(Dto(h)))
  BY BodiesAssumption

LEMMA EnvelopeStep ==
  ASSUME IntakeInv, Envelope
  PROVE  IntakeInv'
  <1>1. /\ At("admitted") /\ results = <<>> /\ stored = {} /\ UNCHANGED <<results, stored>>
        /\ reply = "none" /\ Admitted /\ request.handler = "activity" /\ IsBody(request.body)
    BY BodyFacts DEF Envelope, IntakeInv, StageInv, TypeOK, At
  <1>2. CASE ~EnvelopeAccepted(request.body)
    <2>1. Goto("answered") /\ reply' = "unsafe"
      BY <1>2 DEF Envelope, Answered
    <2>2. /\ request'.stage = "answered" /\ request'.handler = request.handler /\ request'.body = request.body
          /\ request' = [handler |-> request'.handler, body |-> request'.body, stage |-> request'.stage]
      BY <2>1, GotoFacts DEF IntakeInv
    <2>3. Passed' /\ Admitted' /\ ~EnvelopeAccepted(request'.body)
      BY <1>1, <1>2, <2>2 DEF Passed, Admitted
    <2> QED
      BY <1>1, <2>1, <2>2, <2>3 DEF IntakeInv, TypeOK, At, StageInv, EntriesInv, ReplyInv
  <1>3. CASE EnvelopeAccepted(request.body) /\ Entries = 0
    <2>1. Goto("answered") /\ reply' = "ok"
      BY <1>3 DEF Envelope, Answered
    <2>2. /\ request'.stage = "answered" /\ request'.handler = request.handler /\ request'.body = request.body
          /\ request' = [handler |-> request'.handler, body |-> request'.body, stage |-> request'.stage]
      BY <2>1, GotoFacts DEF IntakeInv
    <2>3. Passed' /\ Len(results') = Entries'
      BY <1>1, <1>3, <2>2 DEF Passed, Admitted, Entries
    <2> QED
      BY <1>1, <2>1, <2>2, <2>3 DEF IntakeInv, TypeOK, At, StageInv, EntriesInv, ReplyInv
  <1>4. CASE EnvelopeAccepted(request.body) /\ Entries # 0
    <2>1. Goto("entries") /\ UNCHANGED reply
      BY <1>4 DEF Envelope
    <2>2. /\ request'.stage = "entries" /\ request'.handler = request.handler /\ request'.body = request.body
          /\ request' = [handler |-> request'.handler, body |-> request'.body, stage |-> request'.stage]
      BY <2>1, GotoFacts DEF IntakeInv
    <2>3. Entries \in Nat /\ Entries' = Entries
      BY <1>1, <1>4, <2>2, EntriesCount DEF Entries
    <2>4. Passed' /\ Admitted' /\ ActivityAdmitted' /\ Len(results') < Entries'
      BY <1>1, <1>4, <2>2, <2>3 DEF Passed, Admitted, ActivityAdmitted
    <2> QED
      BY <1>1, <2>1, <2>2, <2>4 DEF IntakeInv, TypeOK, At, StageInv, EntriesInv, ReplyInv
  <1> QED
    BY <1>2, <1>3, <1>4

LEMMA EntryStep ==
  ASSUME IntakeInv, Entry
  PROVE  IntakeInv'
  <1> DEFINE entry == SessionAt(Len(results) + 1)
             outcome == IF EntryAccepted(request.body, entry) THEN "accepted" ELSE "rejected"
             Body == request.body
  <1>0. CASE Body[entry] = Null /\ Answered("error") /\ UNCHANGED <<results, stored>>
    <2>1. /\ request'.stage = "answered" /\ request'.handler = request.handler /\ request'.body = Body
          /\ request' = [handler |-> request'.handler, body |-> request'.body, stage |-> request'.stage]
          /\ reply' = "error"
      BY <1>0, GotoFacts DEF Answered, IntakeInv
    <2>2. At("entries") /\ ActivityAdmitted /\ Len(results) < Entries
      BY DEF Entry, IntakeInv, StageInv
    <2>3. /\ Passed' /\ Admitted' /\ ActivityAdmitted' /\ Len(results') < Entries'
          /\ request'.body[SessionAt(Len(results') + 1)] = Null
      BY <1>0, <2>1, <2>2 DEF Passed, Admitted, ActivityAdmitted, Entries
    <2>4. EntriesInv'
      BY <1>0, <2>1, <2>3 DEF EntriesInv, IntakeInv, Entries
    <2>5. ReplyInv'
      BY <2>1, <2>3 DEF ReplyInv
    <2>6. TypeOK' /\ StageInv'
      BY <1>0, <2>1, <2>2 DEF TypeOK, StageInv, At, IntakeInv
    <2> QED
      BY <2>4, <2>5, <2>6 DEF IntakeInv
  <1> SUFFICES ASSUME ~(Body[entry] = Null /\ Answered("error") /\ UNCHANGED <<results, stored>>)
               PROVE  IntakeInv'
    BY <1>0
  <1>1. /\ At("entries") /\ reply = "none" /\ IsBody(Body) /\ ActivityAdmitted /\ Admitted /\ Passed
        /\ Len(results) < Entries /\ results \in Seq({"accepted", "rejected"})
    BY BodyFacts DEF Entry, IntakeInv, StageInv, TypeOK, At, ActivityAdmitted, Admitted
  <1>2. Entries \in Nat /\ Len(results) \in Nat
    BY <1>1, EntriesCount, LenProperties DEF Entries, ActivityAdmitted
  <1>3. /\ results' = Append(results, outcome) /\ stored' \in {stored, stored \cup {entry}}
        /\ IF Len(results') = Entries THEN Answered(Summarised(results')) ELSE UNCHANGED <<request, reply>>
    BY DEF Entry
  <1>4. /\ results' \in Seq({"accepted", "rejected"}) /\ Len(results') = Len(results) + 1
        /\ results'[Len(results) + 1] = outcome /\ \A i \in 1 .. Len(results) : results'[i] = results[i]
        /\ DOMAIN results' = 1 .. Len(results) + 1 /\ results' # <<>>
    <2>1. outcome \in {"accepted", "rejected"}
      OBVIOUS
    <2> HIDE DEF outcome
    <2> QED
      BY <1>1, <1>3, <2>1, AppendProperties, LenProperties
  <1>5. Len(results') <= Entries
    BY <1>1, <1>2, <1>4
  <1>6. \A i \in DOMAIN results' : results'[i] = "rejected" => ~EntryAccepted(Body, SessionAt(i))
    <2> TAKE i \in DOMAIN results'
    <2>1. CASE i = Len(results) + 1
      BY <1>4, <2>1
    <2>2. CASE i \in 1 .. Len(results)
      <3>1. i \in DOMAIN results
        BY <1>1, <2>2, LenProperties
      <3> QED
        BY <1>4, <2>2, <3>1 DEF IntakeInv, EntriesInv
    <2> QED
      BY <1>2, <1>4, <2>1, <2>2
  <1> HIDE DEF outcome, entry
  <1>7. request'.handler = request.handler /\ request'.body = Body
        /\ request' = [handler |-> request'.handler, body |-> request'.body, stage |-> request'.stage]
    <2>1. CASE Len(results') = Entries
      BY <1>3, <2>1, GotoFacts DEF Answered, IntakeInv
    <2>2. CASE Len(results') # Entries
      BY <1>3, <2>2 DEF IntakeInv, StageInv
    <2> QED
      BY <2>1, <2>2
  <1>8. Passed' /\ Admitted' /\ ActivityAdmitted' /\ Entries' = Entries
    BY <1>1, <1>7 DEF Passed, Admitted, ActivityAdmitted, Entries
  <1>9. EntriesInv'
    BY <1>5, <1>6, <1>7, <1>8 DEF EntriesInv
  <1>10. request'.handler \in Handlers /\ request'.body \in Bodies[request'.handler]
    BY <1>1, <1>7 DEF IntakeInv, TypeOK, StageInv, At
  <1>11. CASE Len(results') = Entries
    <2>1. request'.stage = "answered" /\ reply' = Summarised(results')
      BY <1>3, <1>11, GotoFacts DEF Answered, IntakeInv
    <2>2. \/ reply' = "partial" /\ \E i \in DOMAIN results' : results'[i] = "rejected"
          \/ reply' = "ok"
      BY <2>1 DEF Summarised
    <2>3. ReplyInv'
      BY <1>8, <1>11, <2>2 DEF ReplyInv
    <2>4. TypeOK' /\ StageInv'
      BY <1>4, <1>7, <1>10, <2>1, <2>2 DEF TypeOK, StageInv, At
    <2> QED
      BY <1>9, <2>3, <2>4 DEF IntakeInv
  <1>12. CASE Len(results') # Entries
    <2>1. request' = request /\ reply' = "none"
      BY <1>1, <1>3, <1>12
    <2>2. Len(results') < Entries
      BY <1>2, <1>4, <1>5, <1>12
    <2>3. ReplyInv'
      BY <2>1 DEF ReplyInv
    <2>4. TypeOK' /\ StageInv'
      BY <1>1, <1>4, <1>7, <1>8, <1>10, <2>1, <2>2 DEF TypeOK, StageInv, At
    <2> QED
      BY <1>9, <2>3, <2>4 DEF IntakeInv
  <1> QED
    BY <1>11, <1>12

LEMMA IntakeInductive == IntakeInv /\ [Next]_vars => IntakeInv'
  <1> SUFFICES ASSUME IntakeInv, [Next]_vars PROVE IntakeInv'
    OBVIOUS
  <1>1. CASE Advance
    BY <1>1, GuardStep, PipeStep, ServeStep, EnvelopeStep, EntryStep, CloseStep DEF Advance
  <1>2. ASSUME NEW h \in Handlers, NEW body \in Bodies[h], Receive(h, body) PROVE IntakeInv'
    BY <1>2, ReceiveStep
  <1>3. CASE UNCHANGED vars
    BY <1>3 DEF vars, IntakeInv, TypeOK, At, StageInv, EntriesInv, ReplyInv, Entries, Passed, Admitted,
                ActivityAdmitted
  <1> QED
    BY <1>1, <1>2, <1>3 DEF Next

-----------------------------------------------------------------------------
(* What the invariant implies.                                             *)

\* The classes that a handler's class refers to have no forbidden name, except
\* the one that the handler's policy allows.
LEMMA HandlerClasses ==
  ASSUME NEW h \in Handlers
  PROVE  \E S : /\ Dto(h) \in S /\ \A s \in S : Made(s, ClassRules(S))
                /\ \A s \in S : Unnamed(s, GuardNames \ Allowed(h))
  <1>1. CASE h \in {"signup", "login"}
    <2>1. Dto(h) \in {Signup, Login} /\ Allowed(h) = {"password"}
      BY <1>1 DEF Dto, Allowed
    <2> WITNESS {Dto(h)}
    <2> QED
      BY <2>1, PolicyClasses
  <1>2. CASE h = "refresh"
    <2>1. Dto(h) = Refresh /\ Allowed(h) = {"refreshtoken"}
      BY <1>2 DEF Dto, Allowed
    <2> WITNESS {Dto(h)}
    <2> QED
      BY <2>1, PolicyClasses
  <1>3. CASE h \in {"activity", "push", "summary", "snapshot", "updateMe"}
    <2>1. Dto(h) \in OpenClasses /\ Allowed(h) = {}
      BY <1>3 DEF Dto, Allowed, OpenClasses
    <2> WITNESS OpenClasses
    <2> QED
      BY <2>1, OpenClassesMade, OpenClassesUnnamed
  <1> QED
    BY <1>1, <1>2, <1>3 DEF Handlers

\* Bodies of activity sessions that have come to their envelope pass it.
LEMMA NeverUnsafe ==
  ASSUME IntakeInv
  PROVE  reply # "unsafe"
  <1>1. SUFFICES ASSUME reply = "unsafe" PROVE FALSE
    OBVIOUS
  <1>2. /\ Admitted /\ request.handler = "activity" /\ ~EnvelopeAccepted(request.body)
        /\ request.body \in Bodies[request.handler] /\ request.handler \in Handlers
    BY <1>1 DEF IntakeInv, TypeOK, StageInv, ReplyInv, At
  <1>3. Nested(Dto(request.handler)) = BatchRule /\ Allowed(request.handler) = {}
    BY <1>2 DEF Dto, Allowed, BatchRule
  <1> QED
    BY <1>2, <1>3, BodyFacts, EnvelopePasses DEF Admitted, Passed

LEMMA SafeFromInv == IntakeInv => OnlySafeStored
  <1>1. SUFFICES ASSUME IntakeInv, NEW s \in stored, NEW p \in Below(request.body, s)
                 PROVE  /\ ~Marked(request.body[p], GuardMarks)
                        /\ ~Named(p, GuardNames \ Allowed(request.handler))
    BY DEF OnlySafeStored
  <1>2. Passed /\ p \in DOMAIN request.body
    BY <1>1 DEF IntakeInv, EntriesInv, Admitted, Below
  <1>3. IsBody(request.body)
    BY <1>1, BodyFacts DEF IntakeInv, TypeOK, StageInv, Handlers, At
  <1> QED
    BY <1>2, <1>3, GuardSeesAll DEF Passed

\* The place of a session is an item.
LEMMA SessionPlace ==
  ASSUME NEW i \in Nat \ {0}
  PROVE  ~IsField(Last(SessionAt(i)))
  <1> DEFINE S == {Field("sessions"), Item(i)}
  <1>1. Sessions \in Seq(S) /\ Item(i) \in S /\ Len(Sessions) = 1
    BY DEF Sessions
  <1> HIDE DEF S
  <1>2. Len(SessionAt(i)) = 2 /\ SessionAt(i)[2] = Item(i)
    <2>1. /\ Len(Append(Sessions, Item(i))) = Len(Sessions) + 1
          /\ Append(Sessions, Item(i))[Len(Sessions) + 1] = Item(i)
      BY <1>1, AppendProperties
    <2> QED
      BY <1>1, <2>1 DEF SessionAt
  <1>3. Last(SessionAt(i)) = Item(i)
    BY <1>2 DEF Last
  <1>4. Item(i)[2] # 0
    BY DEF Item
  <1> QED
    BY <1>3, <1>4 DEF IsField

\* A loop that has failed was at a session of the batch.
LEMMA FailedEntry ==
  ASSUME IntakeInv, reply = "error", IsBody(request.body)
  PROVE  LET i == Len(results) + 1
         IN  /\ i \in Nat \ {0} /\ i \in 1 .. request.body[Sessions].len
             /\ SessionAt(i) \in DOMAIN request.body /\ request.body[SessionAt(i)] = Null
  <1> DEFINE Body == request.body
  <1>1. /\ EnvelopeAccepted(Body) /\ Len(results) < Body[Sessions].len
        /\ Body[SessionAt(Len(results) + 1)] = Null /\ Len(results) \in Nat
    BY LenProperties DEF IntakeInv, TypeOK, ReplyInv, ActivityAdmitted, Entries
  <1>2. Sessions \in DOMAIN Body /\ Body[Sessions].kind = "list" /\ Body[Sessions].len \in Nat
    BY <1>1, EntriesCount DEF EnvelopeAccepted, ListUpTo
  <1>3. Len(results) + 1 \in 1 .. Body[Sessions].len
    BY <1>1, <1>2
  <1> QED
    BY <1>1, <1>2, <1>3 DEF IsBody, SessionAt

LEMMA ServedFromInv == IntakeInv => PlainServed
  <1> DEFINE Body == request.body
             h == request.handler
  <1>1. SUFFICES ASSUME IntakeInv, At("answered"), Conforms(Body, Nested(Dto(h))),
                        \A p \in DOMAIN Body :
                          ~Marked(Body[p], Marks) /\ (Body[p] = Null => IsField(Last(p)))
                 PROVE  reply \in {"served", "ok", "partial"}
    BY DEF PlainServed
  <1>2. h \in Handlers /\ IsBody(Body)
    BY <1>1, BodyFacts DEF IntakeInv, TypeOK, StageInv, At
  <1>3. Passed
    <2>1. PICK S : /\ Dto(h) \in S /\ \A s \in S : Made(s, ClassRules(S))
                   /\ \A s \in S : Unnamed(s, GuardNames \ Allowed(h))
      BY <1>2, HandlerClasses
    <2>2. ASSUME NEW p \in DOMAIN Body PROVE ~Named(p, GuardNames \ Allowed(h))
      BY <1>1, <1>2, <2>1, AdmittedNames
    <2>3. ASSUME NEW p \in DOMAIN Body PROVE ~Marked(Body[p], GuardMarks)
      BY <1>1 DEF Marked, GuardMarks
    <2> QED
      BY <2>2, <2>3 DEF Passed, GuardRefuses
  <1>4. reply # "forbidden" /\ reply # "invalid"
    BY <1>1, <1>3 DEF IntakeInv, ReplyInv
  <1>5. reply # "error"
    <2>1. SUFFICES ASSUME reply = "error" PROVE FALSE
      OBVIOUS
    <2>2. PICK i \in Nat \ {0} : SessionAt(i) \in DOMAIN Body /\ Body[SessionAt(i)] = Null
      BY <1>1, <1>2, <2>1, FailedEntry
    <2>3. ~IsField(Last(SessionAt(i)))
      BY SessionPlace
    <2> QED
      BY <1>1, <2>2, <2>3
  <1> QED
    BY <1>1, <1>4, <1>5, NeverUnsafe DEF IntakeInv, TypeOK

LEMMA RejectedFromInv == IntakeInv => RejectedForOddOnly
  <1> DEFINE Body == request.body
  <1>1. SUFFICES ASSUME IntakeInv, NEW i \in DOMAIN results, results[i] = "rejected"
                 PROVE  \E p \in Below(Body, SessionAt(i)) : Odd(Body, BodyRule, p)
    BY NeverUnsafe DEF RejectedForOddOnly, IntakeInv, ReplyInv
  <1>2. ~EntryAccepted(Body, SessionAt(i))
    BY <1>1 DEF IntakeInv, EntriesInv
  <1>3. results \in Seq({"accepted", "rejected"}) /\ i \in 1 .. Len(results) /\ Len(results) \in Nat
    BY <1>1, LenProperties DEF IntakeInv, TypeOK
  <1>4. /\ ActivityAdmitted /\ Admitted /\ Passed /\ request.handler = "activity"
        /\ Len(results) <= Body[Sessions].len
    BY <1>1, <1>3, EmptySeq DEF IntakeInv, EntriesInv, ActivityAdmitted, Admitted, Entries
  <1>5. IsBody(Body) /\ Body[<<>>].kind = "object" /\ MarksAdmitted(Body, Nested(Dto("activity")))
    <2>1. ~At("idle")
      BY <1>1, <1>3, EmptySeq DEF IntakeInv, StageInv, At
    <2> QED
      BY <1>1, <1>4, <2>1, BodyFacts DEF IntakeInv, StageInv, Handlers
  <1>6. Nested(Dto("activity")) = BatchRule /\ Allowed("activity") = {} /\ BodyRule = BatchRule
    BY <1>4 DEF Dto, Allowed, BatchRule, BodyRule
  <1>7. Conforms(Body, BatchRule) /\ ~GuardRefuses(Body, {})
    BY <1>4, <1>6 DEF Admitted, Passed
  <1>8. i \in 1 .. Body[Sessions].len
    <2>1. Body[Sessions].len \in Nat
      BY <1>5, <1>6, <1>7, EnvelopePasses
    <2> QED
      BY <1>3, <1>4, <2>1
  <1> QED
    BY <1>2, <1>5, <1>6, <1>7, <1>8, EntryPasses

-----------------------------------------------------------------------------
(* Theorems.                                                               *)

LEMMA IntakeInvHolds == Spec => []IntakeInv
  BY IntakeInit, IntakeInductive, PTL DEF Spec

\* Type correctness of the request at hand; it is answered exactly when there
\* is a reply.
THEOREM IntakeTypeCorrect == Spec => []TypeOK
  <1>1. IntakeInv => TypeOK
    BY DEF IntakeInv
  <1> QED
    BY <1>1, IntakeInvHolds, PTL

\* Whatever bodies are sent, no service gets a raw text or a forbidden name,
\* however deep it is (privacy-guard.service.ts:117-207).
THEOREM OnlySafe == Spec => []OnlySafeStored
  BY SafeFromInv, IntakeInvHolds, PTL

\* Whatever plain body of the handler's class is sent, it is served: no class has
\* a name that a scan forbids, and no policy is missing
\* (privacy-guard.service.ts:5-71, auth.controller.ts:19-45).
THEOREM PlainIsServed == Spec => []PlainServed
  BY ServedFromInv, IntakeInvHolds, PTL

\* Whatever batch is sent, the third check of it agrees with the class, except
\* for nulls and for lists in the place of an object, which class-validator looks
\* through: nothing else makes it reject an entry, and nothing but a null for a
\* session makes the loop fail (safe-sync-payload.validator.ts:75-182,
\* sync.service.ts:295-321).
THEOREM ChecksAgree == Spec => []RejectedForOddOnly
  BY RejectedFromInv, IntakeInvHolds, PTL

-----------------------------------------------------------------------------
(* ClientContract.                                                         *)

\* A published bundle has passed the script, and a request that comes from it
\* carries the fixture it is named for.
ContractInv ==
    /\ IntakeInv
    /\ bundle # None => bundle \in Bundles /\ Passes(bundle)
    /\ origin \in Fixtures \cup {"other"}
    /\ origin \in Fixtures /\ ~At("idle") =>
         /\ bundle # None /\ bundle[origin] # None
         /\ request.handler = "activity" /\ request.body = bundle[origin]

LEMMA ContractStarts == ContractInit => ContractInv
  BY IntakeInit DEF ContractInit, ContractInv, Init, Idle, At

\* What a client sends of a bundle is a body that clients send.
LEMMA FixtureSent ==
  ASSUME ContractInv, NEW f \in Fixtures, SendFixture(f)
  PROVE  bundle[f] \in Bodies["activity"] /\ Receive("activity", bundle[f])
  <1>1. bundle \in Bundles /\ bundle[f] # None /\ Receive("activity", bundle[f])
    BY DEF SendFixture, ContractInv
  <1>2. bundle[f] \in {b[g] : b \in Bundles, g \in Fixtures} \ {None}
    BY <1>1
  <1> QED
    BY <1>1, <1>2, BundlesAssumption

\* Every step of the contract is a step of the intake, or none.
LEMMA ContractStepIsNext == ContractInv /\ [ContractNext]_contractVars => [Next]_vars
  <1>1. SUFFICES ASSUME ContractInv, [ContractNext]_contractVars PROVE [Next]_vars
    OBVIOUS
  <1>2. CASE Publish
    BY <1>2 DEF Publish
  <1>3. ASSUME NEW f \in Fixtures, SendFixture(f) PROVE Next
    BY <1>1, <1>3, FixtureSent DEF Next, Handlers
  <1>4. CASE SendOther
    BY <1>4 DEF SendOther, Next
  <1>5. CASE Advance /\ UNCHANGED <<bundle, origin>>
    BY <1>5 DEF Next
  <1>6. CASE UNCHANGED contractVars
    BY <1>6 DEF contractVars
  <1> QED
    BY <1>1, <1>2, <1>3, <1>4, <1>5, <1>6 DEF ContractNext

\* On its way a request keeps its handler and its body.
LEMMA AdvanceKeepsBody ==
  ASSUME IntakeInv, Advance, request'.stage # "idle"
  PROVE  request.stage # "idle" /\ request'.handler = request.handler /\ request'.body = request.body
  BY DEF IntakeInv, StageInv, Advance, Guard, Pipe, Serve, Envelope, Entry, Close, Goto, Answered, At, Idle

LEMMA ContractInductive == ContractInv /\ [ContractNext]_contractVars => ContractInv'
  <1>1. SUFFICES ASSUME ContractInv, [ContractNext]_contractVars PROVE ContractInv'
    OBVIOUS
  <1>2. IntakeInv'
    BY <1>1, ContractStepIsNext, IntakeInductive DEF ContractInv
  <1>3. CASE Publish
    <2>1. At("idle") /\ UNCHANGED <<request, origin>> /\ bundle' \in Bundles /\ Passes(bundle')
      BY <1>3 DEF Publish, vars
    <2> QED
      BY <1>1, <1>2, <2>1 DEF ContractInv, At
  <1>4. ASSUME NEW f \in Fixtures, SendFixture(f) PROVE ContractInv'
    <2>1. /\ bundle # None /\ bundle[f] # None /\ UNCHANGED bundle /\ origin' = f
          /\ request'.handler = "activity" /\ request'.body = bundle[f]
      BY <1>4 DEF SendFixture, Receive
    <2> QED
      BY <1>1, <1>2, <2>1 DEF ContractInv, At
  <1>5. CASE SendOther
    <2>1. UNCHANGED bundle /\ origin' = "other" /\ "other" \notin Fixtures
      BY <1>5 DEF SendOther, Fixtures
    <2> QED
      BY <1>1, <1>2, <2>1 DEF ContractInv
  <1>6. CASE Advance /\ UNCHANGED <<bundle, origin>>
    <2>1. request'.stage # "idle" =>
            request.stage # "idle" /\ request'.handler = request.handler /\ request'.body = request.body
      BY <1>1, <1>6, AdvanceKeepsBody DEF ContractInv
    <2> QED
      BY <1>1, <1>2, <1>6, <2>1 DEF ContractInv, At
  <1>7. CASE UNCHANGED contractVars
    BY <1>1, <1>2, <1>7 DEF contractVars, vars, ContractInv, At
  <1> QED
    BY <1>1, <1>3, <1>4, <1>5, <1>6, <1>7 DEF ContractNext

LEMMA FixturesFromInv == ContractInv => PublishedFixturesBehave
  <1> DEFINE Body == request.body
  <1>1. SUFFICES ASSUME ContractInv, At("answered")
                 PROVE  /\ origin = "valid" => reply = "ok" /\ Len(results) = Entries
                        /\ origin = "unsafe" => reply = "forbidden"
                        /\ origin = "mixed" => stored = {}
    BY DEF PublishedFixturesBehave
  <1>2. /\ reply \in {"served", "ok", "partial", "error", "forbidden", "invalid", "unsafe"}
        /\ results \in Seq({"accepted", "rejected"}) /\ ReplyInv /\ EntriesInv /\ IntakeInv
    BY <1>1 DEF ContractInv, IntakeInv, TypeOK
  <1>3. Allowed("activity") = {} /\ Nested(Dto("activity")) = ActivityDto
    BY DEF Allowed, Dto, ActivityDto
  <1>4. ASSUME origin \in Fixtures
        PROVE  /\ bundle \in Bundles /\ Passes(bundle) /\ bundle[origin] # None
               /\ Body = bundle[origin] /\ request.handler = "activity"
    BY <1>1, <1>4 DEF ContractInv, At
  <1>5. ASSUME origin = "valid" PROVE reply = "ok" /\ Len(results) = Entries
    <2>1. ValidPasses(Body) /\ request.handler = "activity"
      BY <1>4, <1>5 DEF Passes, Fixtures
    <2>2. reply \notin {"forbidden", "invalid", "unsafe", "served"}
      BY <1>2, <1>3, <2>1 DEF ReplyInv, Passed, ValidPasses
    <2>4. reply # "error"
      <3>1. SUFFICES ASSUME reply = "error" PROVE FALSE
        OBVIOUS
      <3>2. IsBody(Body)
        BY <1>1, <1>2, <2>1, BodyFacts DEF IntakeInv, StageInv, Handlers, At
      <3>3. PICK i \in 1 .. Body[Sessions].len : Body[SessionAt(i)] = Null
        BY <1>2, <3>1, <3>2, FailedEntry
      <3>4. EntryAccepted(Body, SessionAt(i))
        BY <2>1, <3>3 DEF ValidPasses
      <3> QED
        BY <3>3, <3>4 DEF EntryAccepted, Null
    <2>3. ASSUME NEW i \in DOMAIN results, results[i] = "rejected" PROVE FALSE
      <3>1. i \in 1 .. Len(results) /\ Len(results) \in Nat
        BY <1>2, LenProperties
      <3>2. Len(results) <= Entries /\ IsBody(Body) /\ EnvelopeAccepted(Body)
        BY <1>1, <1>2, <2>1, <3>1, EmptySeq, BodyFacts
           DEF EntriesInv, IntakeInv, StageInv, Handlers, At, ValidPasses
      <3>3. Body[Sessions].len \in Nat
        BY <3>2, EntriesCount
      <3>4. i \in 1 .. Body[Sessions].len
        BY <3>1, <3>2, <3>3 DEF Entries
      <3>5. EntryAccepted(Body, SessionAt(i))
        BY <2>1, <3>4 DEF ValidPasses
      <3> QED
        BY <1>2, <2>3, <3>5 DEF EntriesInv
    <2> QED
      BY <1>2, <2>2, <2>3, <2>4 DEF ReplyInv
  <1>6. ASSUME origin = "unsafe" PROVE reply = "forbidden"
    <2>1. GuardRefuses(Body, {}) /\ request.handler = "activity"
      BY <1>4, <1>6 DEF Passes, Fixtures
    <2>2. ~Passed
      BY <1>3, <2>1 DEF Passed
    <2> QED
      BY <1>2, <2>2 DEF ReplyInv
  <1>7. ASSUME origin = "mixed" PROVE stored = {}
    <2>1. ~Conforms(Body, ActivityDto) /\ request.handler = "activity"
      BY <1>4, <1>7 DEF Passes, MixedPasses, Fixtures
    <2> QED
      BY <1>2, <1>3, <2>1 DEF EntriesInv, Admitted
  <1> QED
    BY <1>5, <1>6, <1>7

LEMMA ContractInvHolds == ContractSpec => []ContractInv
  BY ContractStarts, ContractInductive, PTL DEF ContractSpec

\* Whatever is published and sent, the server goes its way: the contract adds
\* nothing to what Intake allows, and all that is proved of Intake holds of it.
THEOREM ContractImplementsIntake == ContractSpec => Spec
  <1>1. ContractInit => Init
    BY DEF ContractInit
  <1> QED
    BY <1>1, ContractInvHolds, ContractStepIsNext, PTL DEF ContractSpec, Spec

\* Every bundle that the script lets pass tells the truth: the server stores all
\* of its valid fixture, refuses the unsafe one for its contents, and stores
\* nothing of the mixed one (validate-client-contract-bundle.ts:250-292).
THEOREM FixturesBehave == ContractSpec => []PublishedFixturesBehave
  BY FixturesFromInv, ContractInvHolds, PTL
=============================================================================
