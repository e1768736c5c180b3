-------------------------- MODULE PayloadsProofs --------------------------
(***************************************************************************)
(* What the rules of Payloads say of every body: which rules govern its    *)
(* places, and that the three rule sets agree on the bodies that the       *)
(* classes admit.                                                          *)
(***************************************************************************)
EXTENDS Payloads, SequenceTheorems, SetInduction

Steps == STRING \X Nat
Places == Seq(Steps)

\* The first steps of a place.
LEMMA BeforeFacts ==
  ASSUME NEW p \in Places, NEW k \in 0 .. Len(p)
  PROVE  /\ Before(p, k) \in Places
         /\ Len(Before(p, k)) = k
         /\ \A i \in 1 .. k : Before(p, k)[i] = p[i]
         /\ k < Len(p) => Before(p, k + 1) = Append(Before(p, k), p[k + 1])
  <1>1. \A j \in 0 .. Len(p) :
           /\ Before(p, j) \in Places
           /\ Len(Before(p, j)) = j
           /\ \A i \in 1 .. j : Before(p, j)[i] = p[i]
    BY SubSeqProperties DEF Before, Places
  <1>2. ASSUME k < Len(p) PROVE Before(p, k + 1) = Append(Before(p, k), p[k + 1])
    <2>1. p[k + 1] \in Steps
      BY <1>2, ElementOfSeq DEF Places
    <2> DEFINE s == Append(Before(p, k), p[k + 1])
    <2>2. Before(p, k) \in Places /\ Before(p, k + 1) \in Places
      BY <1>1, <1>2
    <2>3. /\ s \in Places /\ Len(s) = k + 1 /\ s[k + 1] = p[k + 1]
          /\ \A i \in 1 .. k : s[i] = p[i]
      BY <1>1, <2>1, <2>2, AppendProperties DEF Places
    <2>4. Len(Before(p, k + 1)) = k + 1 /\ \A i \in 1 .. k + 1 : Before(p, k + 1)[i] = p[i]
      BY <1>1, <1>2
    <2> HIDE DEF s
    <2>5. \A i \in 1 .. k + 1 : s[i] = Before(p, k + 1)[i]
      BY <2>3, <2>4
    <2>6. s = Before(p, k + 1)
      BY <2>2, <2>3, <2>4, <2>5, SeqEqual DEF Places
    <2> QED
      BY <2>6 DEF s
  <1> QED
    BY <1>1, <1>2

\* A place below the root is a step from the place above it.
LEMMA LastStep ==
  ASSUME NEW p \in Places, p # <<>>
  PROVE  /\ Len(p) \in Nat \ {0}
         /\ Front(p) = Before(p, Len(p) - 1)
         /\ Front(p) \in Places /\ Last(p) \in Steps
         /\ Len(Front(p)) = Len(p) - 1
         /\ p = Append(Front(p), Last(p))
  <1>1. Len(p) \in Nat \ {0}
    BY EmptySeq, LenProperties DEF Places
  <1>2. Front(p) = Before(p, Len(p) - 1)
    BY DEF Front, Before
  <1>3. Last(p) = p[Len(p)] /\ Last(p) \in Steps
    BY <1>1, ElementOfSeq DEF Last, Places
  <1>4. Before(p, Len(p)) = p
    BY SubSeqFull DEF Before, Places
  <1>5. /\ Before(p, Len(p) - 1) \in Places /\ Len(Before(p, Len(p) - 1)) = Len(p) - 1
        /\ Before(p, (Len(p) - 1) + 1) = Append(Before(p, Len(p) - 1), p[(Len(p) - 1) + 1])
    BY <1>1, BeforeFacts
  <1>6. (Len(p) - 1) + 1 = Len(p)
    BY <1>1
  <1> QED
    BY <1>1, <1>2, <1>3, <1>4, <1>5, <1>6

\* What is above a place other than s itself is still below s.
LEMMA PrefixOfFront ==
  ASSUME NEW s \in Places, NEW p \in Places, IsPrefix(s, p), p # s, p # <<>>
  PROVE  Front(p) \in Places /\ IsPrefix(s, Front(p))
  <1>1. Len(s) \in Nat /\ Len(p) \in Nat \ {0} /\ Front(p) \in Places /\ Len(Front(p)) = Len(p) - 1
    BY LastStep, LenProperties DEF Places
  <1>2. Len(s) <= Len(p) /\ Before(s, Len(s)) = s /\ Before(p, Len(s)) = s
    BY SubSeqFull DEF IsPrefix, Before, Places
  <1>3. Len(s) # Len(p)
    BY <1>2, SubSeqFull DEF Before, Places
  <1>4. /\ Before(Front(p), Len(s)) \in Places /\ Len(Before(Front(p), Len(s))) = Len(s)
        /\ \A i \in 1 .. Len(s) : Before(Front(p), Len(s))[i] = Front(p)[i]
    BY <1>1, <1>2, <1>3, BeforeFacts
  <1>5. \A i \in 1 .. Len(p) - 1 : Front(p)[i] = p[i]
    <2>1. Front(p) = Before(p, Len(p) - 1) /\ Len(p) - 1 \in 0 .. Len(p)
      BY <1>1, LastStep
    <2> QED
      BY <2>1, BeforeFacts
  <1>6. Len(s) \in 0 .. Len(p) /\ \A i \in 1 .. Len(s) : s[i] = p[i]
    BY <1>1, <1>2, BeforeFacts
  <1>7. \A i \in 1 .. Len(s) : Before(Front(p), Len(s))[i] = s[i]
    BY <1>1, <1>2, <1>3, <1>4, <1>5, <1>6
  <1>8. Before(Front(p), Len(s)) = s
    BY <1>4, <1>7, SeqEqual DEF Places
  <1>9. Len(s) <= Len(Front(p))
    BY <1>1, <1>2, <1>3
  <1>10. Before(s, Len(s)) = Before(Front(p), Len(s))
    BY <1>2, <1>8
  <1> QED
    BY <1>1, <1>9, <1>10 DEF IsPrefix, Before

\* A place is below itself, and below every place that is above one above it.
LEMMA PlaceBelowItself ==
  ASSUME NEW p \in Places
  PROVE  IsPrefix(p, p)
  BY LenProperties DEF IsPrefix, Places

LEMMA BelowFurther ==
  ASSUME NEW s \in Places, NEW p \in Places, NEW q \in Places, IsPrefix(s, p), IsPrefix(p, q)
  PROVE  IsPrefix(s, q)
  <1>1. /\ Len(s) \in Nat /\ Len(p) \in Nat /\ Len(q) \in Nat
        /\ Len(s) <= Len(p) /\ Len(p) <= Len(q)
    BY LenProperties DEF IsPrefix, Places
  <1>2. Before(p, Len(s)) = s /\ Before(q, Len(p)) = p
    BY SubSeqFull DEF IsPrefix, Before, Places
  <1>3. \A i \in 1 .. Len(s) : s[i] = p[i]
    BY <1>1, <1>2, BeforeFacts
  <1>4. \A i \in 1 .. Len(p) : p[i] = q[i]
    BY <1>1, <1>2, BeforeFacts
  <1>5. /\ Before(q, Len(s)) \in Places /\ Len(Before(q, Len(s))) = Len(s)
        /\ \A i \in 1 .. Len(s) : Before(q, Len(s))[i] = q[i]
    BY <1>1, BeforeFacts
  <1>6. \A i \in 1 .. Len(s) : Before(q, Len(s))[i] = s[i]
    BY <1>1, <1>3, <1>4, <1>5
  <1>7. Before(q, Len(s)) = s
    BY <1>5, <1>6, SeqEqual DEF Places
  <1>8. Before(s, Len(s)) = s
    BY SubSeqFull DEF Before, Places
  <1> QED
    BY <1>1, <1>7, <1>8 DEF IsPrefix, Before

-----------------------------------------------------------------------------
(* The rule of a place.                                                    *)

\* f gives the rules along the place p.
RulesAlong(rule, p, f) == f = [k \in 0 .. Len(p) |-> IF k = 0 THEN rule ELSE RuleBelow(f[k - 1], p[k])]

Along(rule, p) == CHOOSE f : RulesAlong(rule, p, f)

LEMMA RuleAtAlong ==
  ASSUME NEW rule, NEW p
  PROVE  RuleAt(rule, p) = Along(rule, p)[Len(p)]
  BY DEF RuleAt, Along, RulesAlong

\* There are rules along every place: the recursion is on its length.
LEMMA AlongExists ==
  ASSUME NEW rule, NEW S, NEW p \in Seq(S)
  PROVE  RulesAlong(rule, p, Along(rule, p))
  <1> DEFINE Upto(n, f) == f = [k \in 0 .. n |-> IF k = 0 THEN rule ELSE RuleBelow(f[k - 1], p[k])]
             T == {n \in Nat : \E f : Upto(n, f)}
  <1>1. 0 \in T
    <2>1. Upto(0, [k \in 0 .. 0 |-> rule])
      OBVIOUS
    <2> QED
      BY <2>1
  <1>2. ASSUME NEW n \in Nat, n \in T PROVE n + 1 \in T
    <2>1. PICK f : Upto(n, f)
      BY <1>2
    <2> DEFINE g == [k \in 0 .. n + 1 |-> IF k = n + 1 THEN RuleBelow(f[n], p[n + 1]) ELSE f[k]]
    <2>2. \A k \in 0 .. n : f[k] = IF k = 0 THEN rule ELSE RuleBelow(f[k - 1], p[k])
      BY <2>1
    <2>3. \A k \in 0 .. n + 1 : g[k] = IF k = 0 THEN rule ELSE RuleBelow(g[k - 1], p[k])
      <3> TAKE k \in 0 .. n + 1
      <3>1. CASE k = 0
        BY <2>2, <3>1
      <3>2. CASE k \in 1 .. n
        BY <2>2, <3>2
      <3>3. CASE k = n + 1
        BY <3>3
      <3> QED
        BY <3>1, <3>2, <3>3
    <2>4. g = [k \in 0 .. n + 1 |-> g[k]]
      OBVIOUS
    <2> HIDE DEF g
    <2>5. [k \in 0 .. n + 1 |-> g[k]] = [k \in 0 .. n + 1 |-> IF k = 0 THEN rule ELSE RuleBelow(g[k - 1], p[k])]
      BY <2>3
    <2>6. Upto(n + 1, g)
      BY <2>4, <2>5
    <2> QED
      BY <2>6
  <1>3. Nat \subseteq T
    <2> HIDE DEF T
    <2> QED
      BY <1>1, <1>2, NatSetInduction
  <1>4. \E f : RulesAlong(rule, p, f)
    BY <1>3, LenProperties DEF RulesAlong
  <1> QED
    BY <1>4 DEF Along

LEMMA AlongSteps ==
  ASSUME NEW rule, NEW S, NEW p \in Seq(S)
  PROVE  /\ Along(rule, p)[0] = rule
         /\ \A k \in 1 .. Len(p) : Along(rule, p)[k] = RuleBelow(Along(rule, p)[k - 1], p[k])
  <1> DEFINE f == Along(rule, p)
  <1>1. f = [k \in 0 .. Len(p) |-> IF k = 0 THEN rule ELSE RuleBelow(f[k - 1], p[k])]
    BY AlongExists DEF RulesAlong
  <1>2. Len(p) \in Nat
    BY LenProperties
  <1> HIDE DEF f
  <1>3. \A k \in 0 .. Len(p) : f[k] = IF k = 0 THEN rule ELSE RuleBelow(f[k - 1], p[k])
    BY <1>1
  <1>4. f[0] = rule /\ \A k \in 1 .. Len(p) : f[k] = RuleBelow(f[k - 1], p[k])
    BY <1>2, <1>3
  <1> QED
    BY <1>4 DEF f

\* At the root of a body its own rule governs.
LEMMA RuleAtRoot ==
  ASSUME NEW rule
  PROVE  RuleAt(rule, <<>>) = rule
  BY RuleAtAlong, AlongSteps, EmptySeq

\* One step further down governs the rule below.
LEMMA RuleAtAppend ==
  ASSUME NEW rule, NEW S, NEW p \in Seq(S), NEW step \in S
  PROVE  RuleAt(rule, Append(p, step)) = RuleBelow(RuleAt(rule, p), step)
  <1> DEFINE q == Append(p, step)
             f == Along(rule, p)
             g == Along(rule, q)
             T == {k \in Nat : k <= Len(p) => f[k] = g[k]}
  <1>1. /\ q \in Seq(S) /\ Len(p) \in Nat /\ Len(q) = Len(p) + 1 /\ q[Len(p) + 1] = step
        /\ \A i \in 1 .. Len(p) : q[i] = p[i]
    BY AppendProperties, LenProperties
  <1> HIDE DEF q
  <1>2. f[0] = rule /\ \A k \in 1 .. Len(p) : f[k] = RuleBelow(f[k - 1], p[k])
    BY AlongSteps
  <1>3. g[0] = rule /\ \A k \in 1 .. Len(q) : g[k] = RuleBelow(g[k - 1], q[k])
    BY <1>1, AlongSteps
  <1> HIDE DEF f, g
  <1>4. 0 \in T
    BY <1>2, <1>3
  <1>5. ASSUME NEW n \in Nat, n \in T PROVE n + 1 \in T
    <2>1. SUFFICES ASSUME n + 1 <= Len(p) PROVE f[n + 1] = g[n + 1]
      OBVIOUS
    <2>2. f[n] = g[n]
      BY <1>1, <1>5, <2>1
    <2>3. f[n + 1] = RuleBelow(f[n], p[n + 1])
      BY <1>1, <1>2, <2>1
    <2>4. g[n + 1] = RuleBelow(g[n], q[n + 1])
      BY <1>1, <1>3, <2>1
    <2>5. q[n + 1] = p[n + 1]
      BY <1>1, <2>1
    <2> QED
      BY <2>2, <2>3, <2>4, <2>5
  <1>6. f[Len(p)] = g[Len(p)]
    <2>1. Nat \subseteq T
      <3> HIDE DEF T
      <3> QED
        BY <1>4, <1>5, NatSetInduction
    <2> QED
      BY <1>1, <2>1
  <1>7. g[Len(q)] = RuleBelow(g[Len(p)], step)
    BY <1>1, <1>3
  <1>8. RuleAt(rule, p) = f[Len(p)] /\ RuleAt(rule, q) = g[Len(q)]
    BY RuleAtAlong DEF f, g
  <1> QED
    BY <1>6, <1>7, <1>8 DEF q

\* The same for a step that is given in the rules, not found in a body.
LEMMA RuleAtStep ==
  ASSUME NEW rule, NEW p \in Places, NEW step
  PROVE  /\ RuleAt(rule, Append(p, step)) = RuleBelow(RuleAt(rule, p), step)
         /\ Append(p, step) # <<>>
         /\ Front(Append(p, step)) = p /\ Last(Append(p, step)) = step
         /\ IsPrefix(p, Append(p, step))
  <1> DEFINE S == Steps \cup {step}
             q == Append(p, step)
  <1>1. p \in Seq(S) /\ step \in S
    BY SeqMonotonic DEF Places
  <1> HIDE DEF S
  <1>2. /\ q \in Seq(S) /\ Len(p) \in Nat /\ Len(q) = Len(p) + 1 /\ q[Len(p) + 1] = step
        /\ q # <<>> /\ \A i \in 1 .. Len(p) : q[i] = p[i]
    BY <1>1, AppendProperties, LenProperties
  <1> HIDE DEF q
  <1>3. SubSeq(q, 1, Len(p)) = p
    <2>1. /\ SubSeq(q, 1, Len(p)) \in Seq(S) /\ Len(SubSeq(q, 1, Len(p))) = Len(p)
          /\ \A i \in 1 .. Len(p) : SubSeq(q, 1, Len(p))[i] = q[i]
      BY <1>2, SubSeqProperties
    <2>2. \A i \in 1 .. Len(p) : SubSeq(q, 1, Len(p))[i] = p[i]
      BY <1>2, <2>1
    <2> QED
      BY <1>1, <2>1, <2>2, SeqEqual
  <1>4. Front(q) = p /\ Last(q) = step
    <2>1. Len(q) - 1 = Len(p)
      BY <1>2
    <2> QED
      BY <1>2, <1>3, <2>1 DEF Front, Last
  <1>5. IsPrefix(p, q)
    <2>1. SubSeq(p, 1, Len(p)) = p
      BY <1>1, SubSeqFull
    <2> QED
      BY <1>2, <1>3, <2>1 DEF IsPrefix
  <1>6. RuleAt(rule, q) = RuleBelow(RuleAt(rule, p), step)
    BY <1>1, RuleAtAppend DEF q
  <1> QED
    BY <1>2, <1>4, <1>5, <1>6 DEF q

\* The rule of a field of the root.
LEMMA RuleAtOneStep ==
  ASSUME NEW rule, NEW step
  PROVE  RuleAt(rule, <<step>>) = RuleBelow(rule, step)
  <1>1. <<>> \in Places
    BY EmptySeq DEF Places
  <1>2. RuleAt(rule, Append(<<>>, step)) = RuleBelow(RuleAt(rule, <<>>), step)
    BY <1>1, RuleAtStep
  <1> QED
    BY <1>2, RuleAtRoot

-----------------------------------------------------------------------------
(* Sets of rules that a body cannot leave on its way down.                 *)

Closed(R) == \A r \in R : \A step \in Steps : RuleBelow(r, step) \in R \cup {Undeclared}

\* Below a place governed by a rule of a closed set, a rule of the set governs
\* or none does.
LEMMA RuleAtClosed ==
  ASSUME NEW R, Closed(R), NEW rule, NEW s \in Places, NEW p \in Places, IsPrefix(s, p),
         RuleAt(rule, s) \in R
  PROVE  RuleAt(rule, p) \in R \cup {Undeclared}
  <1> DEFINE at(n) == RuleAt(rule, Before(p, Len(s) + n))
             T == {n \in Nat : n <= Len(p) - Len(s) => at(n) \in R \cup {Undeclared}}
  <1>1. Len(s) \in Nat /\ Len(p) \in Nat /\ Len(s) <= Len(p)
    BY LenProperties DEF IsPrefix, Places
  <1>2. Before(p, Len(s)) = s /\ Before(p, Len(p)) = p
    BY SubSeqFull DEF IsPrefix, Before, Places
  <1>3. 0 \in T
    <2>1. Len(s) + 0 = Len(s)
      BY <1>1
    <2> QED
      BY <1>2, <2>1
  <1>4. ASSUME NEW n \in Nat, n \in T PROVE n + 1 \in T
    <2>1. SUFFICES ASSUME n + 1 <= Len(p) - Len(s) PROVE at(n + 1) \in R \cup {Undeclared}
      OBVIOUS
    <2> DEFINE k == Len(s) + n
    <2>2. k \in 0 .. Len(p) /\ k < Len(p) /\ k + 1 \in 1 .. Len(p) /\ Len(s) + (n + 1) = k + 1
      BY <1>1, <2>1
    <2>3. at(n) \in R \cup {Undeclared}
      BY <1>1, <1>4, <2>1
    <2>4. p[k + 1] \in Steps
      BY <2>2, ElementOfSeq DEF Places
    <2>5. Before(p, k) \in Places /\ Before(p, k + 1) = Append(Before(p, k), p[k + 1])
      <3> HIDE DEF k
      <3> QED
        BY <2>2, BeforeFacts
    <2>6. at(n + 1) = RuleBelow(at(n), p[k + 1])
      <3>1. RuleAt(rule, Append(Before(p, k), p[k + 1])) = RuleBelow(RuleAt(rule, Before(p, k)), p[k + 1])
        <4> HIDE DEF k
        <4> QED
          BY <2>4, <2>5, RuleAtAppend DEF Places
      <3> QED
        BY <2>2, <2>5, <3>1
    <2>7. RuleBelow(Undeclared, p[k + 1]) = Undeclared
      BY DEF RuleBelow, Undeclared
    <2> QED
      BY <2>3, <2>4, <2>6, <2>7 DEF Closed
  <1>5. Nat \subseteq T
    <2> HIDE DEF T
    <2> QED
      BY <1>3, <1>4, NatSetInduction
  <1>6. Len(p) - Len(s) \in Nat /\ Len(s) + (Len(p) - Len(s)) = Len(p)
    BY <1>1
  <1>7. at(Len(p) - Len(s)) \in R \cup {Undeclared}
    BY <1>5, <1>6
  <1> QED
    BY <1>2, <1>6, <1>7

\* A class asks for nothing but rules of R.
Made(schema, R) ==
    /\ \A n \in DOMAIN schema.required : schema.required[n] \in R
    /\ \A n \in DOMAIN schema.optional : schema.optional[n] \in R

Declared(schema) == DOMAIN schema.required \cup DOMAIN schema.optional

\* No field of the class has one of these names.
Unnamed(schema, names) == \A n \in Declared(schema) : Lower(n) \notin names

Leaves == {Word(f) : f \in DOMAIN FormatMarks} \cup {Number}
Elements(S) == Leaves \cup {Nested(s) : s \in S} \cup {Sole(s) : s \in S}

\* The rules that are made from a set of classes.
ClassRules(S) == Elements(S) \cup {Several(r, max) : r \in Elements(S), max \in Nat}

\* A set of classes that refer to each other only is closed.
LEMMA ClassRulesClosed ==
  ASSUME NEW S, \A s \in S : Made(s, ClassRules(S))
  PROVE  Closed(ClassRules(S))
  <1>1. SUFFICES ASSUME NEW r \in ClassRules(S), NEW step \in Steps
                 PROVE  RuleBelow(r, step) \in ClassRules(S) \cup {Undeclared}
    BY DEF Closed
  <1>2. CASE r \in Leaves
    BY <1>2 DEF Leaves, Word, Number, RuleBelow
  <1>3. ASSUME NEW s \in S, r \in {Nested(s), Sole(s)}
        PROVE  RuleBelow(r, step) \in ClassRules(S) \cup {Undeclared}
    <2>1. r.form = "object" /\ r.schema = s
      BY <1>3 DEF Nested, Sole
    <2>2. Made(s, ClassRules(S))
      OBVIOUS
    <2> HIDE DEF ClassRules
    <2> QED
      BY <1>1, <2>1, <2>2 DEF Made, RuleBelow
  <1>4. ASSUME NEW e \in Elements(S), NEW max \in Nat, r = Several(e, max)
        PROVE  RuleBelow(r, step) \in ClassRules(S) \cup {Undeclared}
    <2>1. r.form = "list" /\ r.of = e
      BY <1>4 DEF Several
    <2> QED
      BY <2>1 DEF RuleBelow, ClassRules
  <1> QED
    BY <1>1, <1>2, <1>3, <1>4 DEF ClassRules, Elements

-----------------------------------------------------------------------------
(* The classes of the handlers.                                            *)

\* The formats by name, so that the provers can tell them apart.
Formats == {"id", "short", "version", "key", "enum", "date", "hash", "name", "nickname", "email", "secret"}

\* What a class asks for is made from its set of classes.
LEMMA RulesOfClasses ==
  ASSUME NEW S
  PROVE  /\ \A f \in Formats : Word(f) \in Elements(S)
         /\ Number \in Elements(S) /\ Flag = Number
         /\ \A s \in S : Nested(s) \in Elements(S) /\ Sole(s) \in Elements(S)
         /\ \A r \in Elements(S) :
              /\ r \in ClassRules(S)
              /\ \A max \in {MaxSessions, MaxWarnings, MaxBuckets, MaxUnlocked} :
                   Several(r, max) \in ClassRules(S)
  <1>1. Formats = DOMAIN FormatMarks
    BY DEF Formats, FormatMarks
  <1>2. Flag = Number
    BY DEF Flag, Number
  <1> QED
    BY <1>1, <1>2, LimitsAssumption DEF Leaves, Elements, ClassRules

\* The classes of the handlers that need no policy of the guard.
OpenClasses ==
    {SafeBucket, SafeActivitySession, SafeActivitySessionsUpsertRequest, StatDeltas,
     EvolutionProgressDelta, UploadSessionSummary, CharacterStats, CharacterEvolution,
     CharacterAppearance, CharacterSnapshot, UserProgression, AchievementProgress, Achievement,
     SettingsSync, SyncPush, UserSettings, UpdateUser}

\* No class of these refers to one that is not among them.
LEMMA OpenClassesMade == \A s \in OpenClasses : Made(s, ClassRules(OpenClasses))
  <1> DEFINE R == ClassRules(OpenClasses)
             E == Elements(OpenClasses)
  <1>1. \A f \in Formats : Word(f) \in E
    BY RulesOfClasses
  <1>2. Number \in E /\ Flag \in E
    BY RulesOfClasses
  <1>3. \A s \in OpenClasses : Nested(s) \in E /\ Sole(s) \in E
    BY RulesOfClasses
  <1>4. \A r \in E : r \in R
    BY RulesOfClasses
  <1>5. \A r \in E : /\ Several(r, MaxSessions) \in R /\ Several(r, MaxWarnings) \in R
                      /\ Several(r, MaxBuckets) \in R /\ Several(r, MaxUnlocked) \in R
    BY RulesOfClasses
  <1> HIDE DEF R, E
  <1>6. Made(SafeBucket, R)
    BY <1>1, <1>2, <1>4 DEF Made, SafeBucket, Schema, Formats
  <1>7. Made(SafeActivitySession, R)
    <2>1. Nested(SafeBucket) \in E
      BY <1>3 DEF OpenClasses
    <2> QED
      BY <1>1, <1>2, <1>4, <1>5, <2>1 DEF Made, SafeActivitySession, Schema, Formats
  <1>8. Made(SafeActivitySessionsUpsertRequest, R)
    <2>1. Nested(SafeActivitySession) \in E
      BY <1>3 DEF OpenClasses
    <2> QED
      BY <1>1, <1>2, <1>4, <1>5, <2>1 DEF Made, SafeActivitySessionsUpsertRequest, Schema, Formats
  <1>9. Made(StatDeltas, R)
    BY <1>1, <1>2, <1>4 DEF Made, StatDeltas, Schema, Formats
  <1>10. Made(EvolutionProgressDelta, R)
    BY <1>1, <1>2, <1>4 DEF Made, EvolutionProgressDelta, Schema, Formats
  <1>11. Made(UploadSessionSummary, R)
    <2>1. Nested(StatDeltas) \in E /\ Nested(EvolutionProgressDelta) \in E
      BY <1>3 DEF OpenClasses
    <2> QED
      BY <1>1, <1>2, <1>4, <1>5, <2>1 DEF Made, UploadSessionSummary, Schema, Formats
  <1>12. Made(CharacterStats, R)
    BY <1>1, <1>2, <1>4 DEF Made, CharacterStats, Schema, Formats
  <1>13. Made(CharacterEvolution, R)
    BY <1>1, <1>2, <1>4 DEF Made, CharacterEvolution, Schema, Formats
  <1>14. Made(CharacterAppearance, R)
    BY <1>1, <1>2, <1>4 DEF Made, CharacterAppearance, Schema, Formats
  <1>15. Made(CharacterSnapshot, R)
    <2>1. {Nested(CharacterStats), Nested(CharacterEvolution), Nested(CharacterAppearance)} \subseteq E
      BY <1>3 DEF OpenClasses
    <2> QED
      BY <1>1, <1>2, <1>4, <1>5, <2>1 DEF Made, CharacterSnapshot, Schema, Formats
  <1>16. Made(UserProgression, R)
    BY <1>1, <1>2, <1>4 DEF Made, UserProgression, Schema, Formats
  <1>17. Made(AchievementProgress, R)
    BY <1>1, <1>2, <1>4 DEF Made, AchievementProgress, Schema, Formats
  <1>18. Made(Achievement, R)
    <2>1. Nested(AchievementProgress) \in E
      BY <1>3 DEF OpenClasses
    <2> QED
      BY <1>1, <1>2, <1>4, <1>5, <2>1 DEF Made, Achievement, Schema, Formats
  <1>19. Made(SettingsSync, R)
    BY <1>1, <1>2, <1>4 DEF Made, SettingsSync, Schema, Formats
  <1>20. Made(SyncPush, R)
    <2>1. {Nested(UserProgression), Nested(CharacterSnapshot), Nested(UploadSessionSummary), Nested(Achievement), Nested(SettingsSync)} \subseteq E
      BY <1>3 DEF OpenClasses
    <2> QED
      BY <1>1, <1>2, <1>4, <1>5, <2>1 DEF Made, SyncPush, Schema, Formats
  <1>21. Made(UserSettings, R)
    BY <1>1, <1>2, <1>4 DEF Made, UserSettings, Schema, Formats
  <1>22. Made(UpdateUser, R)
    <2>1. Sole(UserSettings) \in E
      BY <1>3 DEF OpenClasses
    <2> QED
      BY <1>1, <1>2, <1>4, <1>5, <2>1 DEF Made, UpdateUser, Schema, Formats
  <1> QED
    BY <1>6, <1>7, <1>8, <1>9, <1>10, <1>11, <1>12, <1>13, <1>14, <1>15, <1>16, <1>17, <1>18,
       <1>19, <1>20, <1>21, <1>22 DEF OpenClasses, R

\* No field of these classes has a name that a list forbids.
LEMMA OpenClassesUnnamed == \A s \in OpenClasses : Unnamed(s, GuardNames) /\ Unnamed(s, ValidatorNames)
  <1>1. Unnamed(SafeBucket, GuardNames) /\ Unnamed(SafeBucket, ValidatorNames)
    BY DEF Unnamed, Declared, SafeBucket, Schema, GuardNames, ValidatorNames, Lower, LowerCase
  <1>2. Unnamed(SafeActivitySession, GuardNames) /\ Unnamed(SafeActivitySession, ValidatorNames)
    BY DEF Unnamed, Declared, SafeActivitySession, Schema, GuardNames, ValidatorNames, Lower, LowerCase
  <1>3. Unnamed(SafeActivitySessionsUpsertRequest, GuardNames) /\ Unnamed(SafeActivitySessionsUpsertRequest, ValidatorNames)
    BY DEF Unnamed, Declared, SafeActivitySessionsUpsertRequest, Schema, GuardNames, ValidatorNames, Lower, LowerCase
  <1>4. Unnamed(StatDeltas, GuardNames) /\ Unnamed(StatDeltas, ValidatorNames)
    BY DEF Unnamed, Declared, StatDeltas, Schema, GuardNames, ValidatorNames, Lower, LowerCase
  <1>5. Unnamed(EvolutionProgressDelta, GuardNames) /\ Unnamed(EvolutionProgressDelta, ValidatorNames)
    BY DEF Unnamed, Declared, EvolutionProgressDelta, Schema, GuardNames, ValidatorNames, Lower, LowerCase
  <1>6. Unnamed(UploadSessionSummary, GuardNames) /\ Unnamed(UploadSessionSummary, ValidatorNames)
    BY DEF Unnamed, Declared, UploadSessionSummary, Schema, GuardNames, ValidatorNames, Lower, LowerCase
  <1>7. Unnamed(CharacterStats, GuardNames) /\ Unnamed(CharacterStats, ValidatorNames)
    BY DEF Unnamed, Declared, CharacterStats, Schema, GuardNames, ValidatorNames, Lower, LowerCase
  <1>8. Unnamed(CharacterEvolution, GuardNames) /\ Unnamed(CharacterEvolution, ValidatorNames)
    BY DEF Unnamed, Declared, CharacterEvolution, Schema, GuardNames, ValidatorNames, Lower, LowerCase
  <1>9. Unnamed(CharacterAppearance, GuardNames) /\ Unnamed(CharacterAppearance, ValidatorNames)
    BY DEF Unnamed, Declared, CharacterAppearance, Schema, GuardNames, ValidatorNames, Lower, LowerCase
  <1>10. Unnamed(CharacterSnapshot, GuardNames) /\ Unnamed(CharacterSnapshot, ValidatorNames)
    BY DEF Unnamed, Declared, CharacterSnapshot, Schema, GuardNames, ValidatorNames, Lower, LowerCase
  <1>11. Unnamed(UserProgression, GuardNames) /\ Unnamed(UserProgression, ValidatorNames)
    BY DEF Unnamed, Declared, UserProgression, Schema, GuardNames, ValidatorNames, Lower, LowerCase
  <1>12. Unnamed(AchievementProgress, GuardNames) /\ Unnamed(AchievementProgress, ValidatorNames)
    BY DEF Unnamed, Declared, AchievementProgress, Schema, GuardNames, ValidatorNames, Lower, LowerCase
  <1>13. Unnamed(Achievement, GuardNames) /\ Unnamed(Achievement, ValidatorNames)
    BY DEF Unnamed, Declared, Achievement, Schema, GuardNames, ValidatorNames, Lower, LowerCase
  <1>14. Unnamed(SettingsSync, GuardNames) /\ Unnamed(SettingsSync, ValidatorNames)
    BY DEF Unnamed, Declared, SettingsSync, Schema, GuardNames, ValidatorNames, Lower, LowerCase
  <1>15. Unnamed(SyncPush, GuardNames) /\ Unnamed(SyncPush, ValidatorNames)
    BY DEF Unnamed, Declared, SyncPush, Schema, GuardNames, ValidatorNames, Lower, LowerCase
  <1>16. Unnamed(UserSettings, GuardNames) /\ Unnamed(UserSettings, ValidatorNames)
    BY DEF Unnamed, Declared, UserSettings, Schema, GuardNames, ValidatorNames, Lower, LowerCase
  <1>17. Unnamed(UpdateUser, GuardNames) /\ Unnamed(UpdateUser, ValidatorNames)
    BY DEF Unnamed, Declared, UpdateUser, Schema, GuardNames, ValidatorNames, Lower, LowerCase
  <1> QED
    BY <1>1, <1>2, <1>3, <1>4, <1>5, <1>6, <1>7, <1>8, <1>9, <1>10, <1>11, <1>12, <1>13, <1>14,
       <1>15, <1>16, <1>17 DEF OpenClasses

\* The classes of the handlers that the guard has a policy for have one more
\* name, the policy's.
LEMMA PolicyClasses ==
  /\ \A s \in {Signup, Login} : Made(s, ClassRules({s})) /\ Unnamed(s, GuardNames \ {"password"})
  /\ Made(Refresh, ClassRules({Refresh})) /\ Unnamed(Refresh, GuardNames \ {"refreshtoken"})
  <1>1. \A s : \A f \in Formats : Word(f) \in ClassRules({s})
    BY RulesOfClasses
  <1>2. ASSUME NEW s \in {Signup, Login, Refresh} PROVE Made(s, ClassRules({s}))
    <2> DEFINE R == ClassRules({s})
    <2>1. \A f \in Formats : Word(f) \in R
      BY <1>1
    <2> HIDE DEF R
    <2>2. s = Signup => Made(s, R)
      BY <2>1 DEF Made, Signup, Schema, Formats
    <2>3. s = Login => Made(s, R)
      BY <2>1 DEF Made, Login, Schema, Formats
    <2>4. s = Refresh => Made(s, R)
      BY <2>1 DEF Made, Refresh, Schema, Formats
    <2> QED
      BY <2>2, <2>3, <2>4 DEF R
  <1>3. \A s \in {Signup, Login} : Unnamed(s, GuardNames \ {"password"})
    BY DEF Unnamed, Declared, Signup, Login, Schema, GuardNames, Lower, LowerCase
  <1>4. Unnamed(Refresh, GuardNames \ {"refreshtoken"})
    BY DEF Unnamed, Declared, Refresh, Schema, GuardNames, Lower, LowerCase
  <1> QED
    BY <1>2, <1>3, <1>4

-----------------------------------------------------------------------------
(* What the guard and the ValidationPipe admit.                            *)

\* The descent of a scan gets to every place of a body.
LEMMA EveryPlaceReached ==
  ASSUME NEW v, IsBody(v), NEW p \in DOMAIN v
  PROVE  /\ p \in Places /\ v[p] \in Node
         /\ \A s \in Places : Descended(v, s, p)
         /\ p # <<>> => Front(p) \in DOMAIN v /\ Has(v[Front(p)], Last(p))
  <1>1. /\ p \in Places /\ v[p] \in Node
        /\ \A k \in 0 .. Len(p) - 1 : Before(p, k) \in DOMAIN v /\ Has(v[Before(p, k)], p[k + 1])
    BY DEF IsBody, Places, Steps
  <1>2. ASSUME NEW s \in Places PROVE Descended(v, s, p)
    <2>1. \A k \in Len(s) .. Len(p) - 1 : k \in 0 .. Len(p) - 1
      BY <1>1, LenProperties DEF Places
    <2> QED
      BY <1>1, <2>1 DEF Descended, Has
  <1>3. ASSUME p # <<>> PROVE Front(p) \in DOMAIN v /\ Has(v[Front(p)], Last(p))
    <2>1. Len(p) \in Nat \ {0} /\ Front(p) = Before(p, Len(p) - 1) /\ Last(p) = p[Len(p)]
      BY <1>1, <1>3, LastStep DEF Last
    <2>2. Len(p) - 1 \in 0 .. Len(p) - 1 /\ (Len(p) - 1) + 1 = Len(p)
      BY <2>1
    <2> QED
      BY <1>1, <2>1, <2>2
  <1> QED
    BY <1>1, <1>2, <1>3

\* What the guard lets pass has nothing that it looks for, at any depth.
LEMMA GuardSeesAll ==
  ASSUME NEW v, IsBody(v), NEW allowed, ~GuardRefuses(v, allowed), NEW p \in DOMAIN v
  PROVE  ~Marked(v[p], GuardMarks) /\ ~Named(p, GuardNames \ allowed)
  BY EveryPlaceReached, EmptySeq DEF GuardRefuses, Places

\* A place of an admitted body is an item of a list or a field that the class
\* above declares.
LEMMA AdmittedDeclared ==
  ASSUME NEW v, IsBody(v), NEW rule, Conforms(v, rule), NEW p \in DOMAIN v, p # <<>>
  PROVE  LET above == RuleAt(rule, Front(p))
         IN  \/ above.form \in {"list", "object"} /\ ~IsField(Last(p))
             \/ above.form = "object" /\ IsField(Last(p)) /\ Last(p)[1] \in Declared(above.schema)
  <1> DEFINE above == RuleAt(rule, Front(p))
  <1>1. p \in Places /\ Front(p) \in Places /\ Last(p) \in Steps /\ p = Append(Front(p), Last(p))
    BY EveryPlaceReached, LastStep
  <1>2. RuleAt(rule, p) = RuleBelow(above, Last(p))
    <2>1. RuleAt(rule, Append(Front(p), Last(p))) = RuleBelow(above, Last(p))
      BY <1>1, RuleAtAppend DEF Places
    <2> QED
      BY <1>1, <2>1
  <1>3. RuleAt(rule, p).form \in {"text", "scalar", "list", "object"} \/ MayBeNull(above, Last(p))
    BY DEF Conforms
  <1>4. Undeclared.form = "none"
    BY DEF Undeclared
  <1>5. RuleBelow(above, Last(p)) # Undeclared \/ MayBeNull(above, Last(p))
    BY <1>2, <1>3, <1>4
  <1> HIDE DEF above
  <1>6. \/ above.form \in {"list", "object"} /\ ~IsField(Last(p))
        \/ above.form = "object" /\ IsField(Last(p)) /\ Last(p)[1] \in Declared(above.schema)
    BY <1>4, <1>5 DEF RuleBelow, MayBeNull, Declared
  <1> QED
    BY <1>6 DEF above

\* An admitted body has only names that its classes have.
LEMMA AdmittedNames ==
  ASSUME NEW v, IsBody(v), NEW S, \A s \in S : Made(s, ClassRules(S)), NEW c \in S,
         Conforms(v, Nested(c)), NEW names, \A s \in S : Unnamed(s, names), NEW p \in DOMAIN v
  PROVE  ~Named(p, names)
  <1> DEFINE above == RuleAt(Nested(c), Front(p))
  <1>1. SUFFICES ASSUME p # <<>>, IsField(Last(p)) PROVE Lower(Last(p)[1]) \notin names
    BY DEF Named
  <1>2. above.form = "object" /\ Last(p)[1] \in Declared(above.schema)
    BY <1>1, AdmittedDeclared
  <1>3. Nested(c) \in ClassRules(S)
    BY DEF ClassRules, Elements
  <1>4. Front(p) \in Places /\ <<>> \in Places
    BY <1>1, EveryPlaceReached, LastStep, EmptySeq DEF Places
  <1>5. IsPrefix(<<>>, Front(p))
    BY <1>4, LenProperties, EmptySeq, SubSeqEmpty DEF IsPrefix, Places
  <1>6. above \in ClassRules(S) \cup {Undeclared}
    BY <1>3, <1>4, <1>5, ClassRulesClosed, RuleAtClosed, RuleAtRoot
  <1>7. PICK s \in S : above \in {Nested(s), Sole(s)}
    <2> HIDE DEF above
    <2> QED
      BY <1>2, <1>6 DEF ClassRules, Elements, Leaves, Word, Number, Several, Undeclared
  <1>8. above.schema = s
    BY <1>7 DEF Nested, Sole
  <1> QED
    BY <1>2, <1>7, <1>8 DEF Unnamed

\* A value that is not odd is of the form that its rule asks for.
LEMMA AdmittedForm ==
  ASSUME NEW v, IsBody(v), NEW rule, Conforms(v, rule), NEW p \in DOMAIN v, ~Odd(v, rule, p)
  PROVE  LET r == RuleAt(rule, p)
         IN  \/ r.form \in {"text", "scalar"} /\ v[p].kind = r.form /\ v[p].fits
             \/ r.form = "list" /\ v[p].kind = "list" /\ v[p].len <= r.max
             \/ /\ r.form = "object" /\ v[p].kind = "object"
                /\ \A n \in DOMAIN r.schema.required : Append(p, Field(n)) \in DOMAIN v
  BY DEF Conforms, Odd

\* A rule that asks for nothing that SafeSyncPayloadValidator refuses.
Harmless(r) ==
    /\ r.form = "list" => r.max \in 0 .. MaxSessions * 4
    /\ r.form = "text" => FormatMarks[r.format] \subseteq {"apiKey"}
    /\ r.form = "object" => Unnamed(r.schema, ValidatorNames)

\* The scan finds nothing in a part of an admitted body that such rules govern,
\* unless a list is in the place of an object: it may be of any length.  An
\* apiKey is in the list of the guard, which has let the body pass.
LEMMA ScanPasses ==
  ASSUME NEW v, IsBody(v), NEW rule, Conforms(v, rule), MarksAdmitted(v, rule), ~GuardRefuses(v, {}),
         NEW R, Closed(R), \A r \in R : Harmless(r),
         NEW s \in DOMAIN v, RuleAt(rule, s) \in R,
         \A p \in Below(v, s) : v[p].kind = "list" => RuleAt(rule, p).form # "object"
  PROVE  ~ScanRefuses(v, s)
  <1>1. SUFFICES ASSUME NEW p \in DOMAIN v, IsPrefix(s, p)
                 PROVE  /\ ~(v[p].kind = "list" /\ v[p].len > MaxSessions * 4)
                        /\ ~(p # s /\ Named(p, ValidatorNames))
                        /\ ~Marked(v[p], ValidatorMarks)
    BY DEF ScanRefuses, Below
  <1>2. s \in Places /\ p \in Places /\ v[p] \in Node
    BY EveryPlaceReached
  <1>3. RuleAt(rule, p) \in R \cup {Undeclared}
    BY <1>1, <1>2, RuleAtClosed
  <1> DEFINE r == RuleAt(rule, p)
  <1>4. r.form # "none" => Harmless(r)
    BY <1>3 DEF Undeclared
  <1>5. \/ r.form \in {"text", "scalar"} /\ v[p].kind = r.form /\ v[p].fits
        \/ r.form = "list" /\ v[p].kind = "list" /\ v[p].len <= r.max
        \/ r.form = "object" /\ v[p].kind = "object"
        \/ v[p].kind = "null"
    <2>1. v[p].kind = "list" => r.form # "object"
      BY <1>1 DEF Below
    <2> QED
      BY <2>1 DEF Conforms, Null
  <1>6. v[p].kind = "text" /\ v[p].fits /\ r.form = "text" => v[p].marks \subseteq FormatMarks[r.format]
    BY DEF MarksAdmitted
  <1>7. ~Marked(v[p], GuardMarks)
    BY GuardSeesAll
  <1> HIDE DEF r
  <1>8. ~(v[p].kind = "list" /\ v[p].len > MaxSessions * 4)
    <2>1. SUFFICES ASSUME v[p].kind = "list" PROVE ~(v[p].len > MaxSessions * 4)
      OBVIOUS
    <2>2. v[p].len <= r.max /\ r.max \in 0 .. MaxSessions * 4
      BY <1>4, <1>5, <2>1 DEF Harmless
    <2>3. v[p].len \in Nat
      BY <1>2, <2>1 DEF Node
    <2>4. MaxSessions \in Nat
      BY LimitsAssumption
    <2> QED
      BY <2>2, <2>3, <2>4
  <1>9. ~Marked(v[p], ValidatorMarks)
    <2>1. SUFFICES ASSUME v[p].kind = "text" PROVE v[p].marks = {}
      BY DEF Marked
    <2>2. v[p].marks \subseteq {"apiKey"}
      BY <1>4, <1>5, <1>6, <2>1 DEF Harmless
    <2>3. v[p].marks \cap GuardMarks = {}
      BY <1>7, <2>1 DEF Marked
    <2>4. "apiKey" \in GuardMarks
      BY DEF GuardMarks, Marks
    <2> QED
      BY <2>2, <2>3, <2>4
  <1>10. ASSUME p # s PROVE ~Named(p, ValidatorNames)
    <2>1. SUFFICES ASSUME p # <<>>, IsField(Last(p)) PROVE Lower(Last(p)[1]) \notin ValidatorNames
      BY DEF Named
    <2> DEFINE above == RuleAt(rule, Front(p))
    <2>2. Front(p) \in Places /\ IsPrefix(s, Front(p))
      BY <1>1, <1>2, <1>10, <2>1, PrefixOfFront
    <2>3. above \in R \cup {Undeclared}
      BY <1>2, <2>2, RuleAtClosed
    <2>4. above.form = "object" /\ Last(p)[1] \in Declared(above.schema)
      BY <2>1, AdmittedDeclared
    <2>5. Harmless(above)
      BY <2>3, <2>4 DEF Undeclared
    <2> HIDE DEF above
    <2> QED
      BY <2>4, <2>5 DEF Harmless, Unnamed
  <1> QED
    BY <1>8, <1>9, <1>10

-----------------------------------------------------------------------------
(* SafeSyncPayloadValidator agrees with the class of the request.          *)

BatchRule == Nested(SafeActivitySessionsUpsertRequest)
EntryRule == Nested(SafeActivitySession)

\* The rules of an entry and below it.
EntryRules ==
    {Word(f) : f \in {"id", "version", "key", "enum", "date", "hash"}}
        \cup {Several(Word("key"), MaxWarnings), Several(Nested(SafeBucket), MaxBuckets)}
        \cup {Nested(SafeBucket), EntryRule}

LEMMA EntryRulesClosed == Closed(EntryRules)
  <1> DEFINE R == EntryRules
  <1>1. /\ \A f \in {"id", "version", "key", "enum", "date", "hash"} : Word(f) \in R
        /\ Several(Word("key"), MaxWarnings) \in R /\ Several(Nested(SafeBucket), MaxBuckets) \in R
        /\ Nested(SafeBucket) \in R
    BY DEF EntryRules
  <1>2. Made(SafeBucket, R) /\ Made(SafeActivitySession, R)
    <2> HIDE DEF R
    <2>1. Made(SafeBucket, R)
      BY <1>1 DEF Made, SafeBucket, Schema
    <2>2. Made(SafeActivitySession, R)
      BY <1>1 DEF Made, SafeActivitySession, Schema
    <2> QED
      BY <2>1, <2>2
  <1>3. SUFFICES ASSUME NEW r \in R, NEW step \in Steps PROVE RuleBelow(r, step) \in R \cup {Undeclared}
    BY DEF Closed
  <1>4. ASSUME NEW c \in {SafeBucket, SafeActivitySession}, r = Nested(c)
        PROVE  RuleBelow(r, step) \in R \cup {Undeclared}
    <2>1. r.form = "object" /\ r.schema = c
      BY <1>4 DEF Nested
    <2>2. Made(c, R)
      BY <1>2
    <2> HIDE DEF R
    <2> QED
      BY <2>1, <2>2 DEF Made, RuleBelow
  <1>5. ASSUME NEW e \in {Word("key"), Nested(SafeBucket)}, NEW max, r = Several(e, max)
        PROVE  RuleBelow(r, step) \in R \cup {Undeclared}
    <2>1. r.form = "list" /\ r.of = e /\ e \in R
      BY <1>1, <1>5 DEF Several
    <2> HIDE DEF R
    <2> QED
      BY <2>1 DEF RuleBelow
  <1>6. ASSUME NEW f, r = Word(f) PROVE RuleBelow(r, step) \in R \cup {Undeclared}
    BY <1>6 DEF Word, RuleBelow
  <1> QED
    BY <1>3, <1>4, <1>5, <1>6 DEF EntryRules, EntryRule

LEMMA EntryRulesHarmless == \A r \in EntryRules : Harmless(r)
  <1>1. SUFFICES ASSUME NEW r \in EntryRules PROVE Harmless(r)
    OBVIOUS
  <1>2. ASSUME NEW f \in {"id", "version", "key", "enum", "date", "hash"}, r = Word(f) PROVE Harmless(r)
    <2>1. r.form = "text" /\ r.format = f
      BY <1>2 DEF Word
    <2>2. FormatMarks[f] \subseteq {"apiKey"}
      BY DEF FormatMarks
    <2> QED
      BY <2>1, <2>2 DEF Harmless
  <1>3. ASSUME NEW e, NEW max \in {MaxWarnings, MaxBuckets}, r = Several(e, max) PROVE Harmless(r)
    <2>1. r.form = "list" /\ r.max = max
      BY <1>3 DEF Several
    <2>2. max \in 0 .. MaxSessions * 4
      BY LimitsAssumption
    <2> QED
      BY <2>1, <2>2 DEF Harmless
  <1>4. ASSUME NEW c \in {SafeBucket, SafeActivitySession}, r = Nested(c) PROVE Harmless(r)
    <2>1. r.form = "object" /\ r.schema = c
      BY <1>4 DEF Nested
    <2>2. Unnamed(c, ValidatorNames)
      BY OpenClassesUnnamed DEF OpenClasses
    <2> QED
      BY <2>1, <2>2 DEF Harmless
  <1> QED
    BY <1>1, <1>2, <1>3, <1>4 DEF EntryRules, EntryRule

\* The rules of the envelope's places.
LEMMA EnvelopeRules ==
  /\ RuleAt(BatchRule, Sessions) = Several(EntryRule, MaxSessions)
  /\ RuleAt(BatchRule, <<Field("schemaVersion")>>) = Number
  /\ \A i \in Nat \ {0} : RuleAt(BatchRule, SessionAt(i)) = EntryRule
  <1>1. RuleAt(BatchRule, Sessions) = Several(EntryRule, MaxSessions)
    <2>1. RuleAt(BatchRule, <<Field("sessions")>>) = RuleBelow(BatchRule, Field("sessions"))
      BY RuleAtOneStep
    <2>2. RuleBelow(BatchRule, Field("sessions")) = Several(EntryRule, MaxSessions)
      BY DEF RuleBelow, BatchRule, EntryRule, Nested, SafeActivitySessionsUpsertRequest, Schema, Field, IsField
    <2> QED
      BY <2>1, <2>2 DEF Sessions
  <1>2. RuleAt(BatchRule, <<Field("schemaVersion")>>) = Number
    <2>1. RuleAt(BatchRule, <<Field("schemaVersion")>>) = RuleBelow(BatchRule, Field("schemaVersion"))
      BY RuleAtOneStep
    <2>2. RuleBelow(BatchRule, Field("schemaVersion")) = Number
      BY DEF RuleBelow, BatchRule, Nested, SafeActivitySessionsUpsertRequest, Schema, Field, IsField
    <2> QED
      BY <2>1, <2>2
  <1>3. ASSUME NEW i \in Nat \ {0} PROVE RuleAt(BatchRule, SessionAt(i)) = EntryRule
    <2>1. Sessions \in Seq({Field("sessions"), Item(i)})
      BY DEF Sessions
    <2>2. RuleAt(BatchRule, Append(Sessions, Item(i))) = RuleBelow(RuleAt(BatchRule, Sessions), Item(i))
      BY <2>1, RuleAtAppend
    <2>3. ~IsField(Item(i))
      BY DEF Item, IsField
    <2>4. RuleBelow(Several(EntryRule, MaxSessions), Item(i)) = EntryRule
      BY <2>3 DEF RuleBelow, Several
    <2> QED
      BY <1>1, <2>2, <2>4 DEF SessionAt
  <1> QED
    BY <1>1, <1>2, <1>3

\* A field that the class asks for is there, and not null.
LEMMA RequiredField ==
  ASSUME NEW v, IsBody(v), NEW rule, Conforms(v, rule), NEW p \in DOMAIN v, ~Odd(v, rule, p),
         NEW c, RuleAt(rule, p) = Nested(c), NEW n \in DOMAIN c.required, n \notin DOMAIN c.optional
  PROVE  /\ v[p].kind = "object"
         /\ Append(p, Field(n)) \in DOMAIN v /\ v[Append(p, Field(n))] # Null
         /\ RuleAt(rule, Append(p, Field(n))) = c.required[n]
  <1> DEFINE q == Append(p, Field(n))
  <1>1. Nested(c).form = "object" /\ Nested(c).schema = c
    BY DEF Nested
  <1>2. v[p].kind = "object" /\ q \in DOMAIN v
    BY <1>1, AdmittedForm
  <1>3. IsField(Field(n)) /\ Field(n)[1] = n
    BY DEF Field, IsField
  <1>4. p \in Places
    BY EveryPlaceReached
  <1>5. RuleAt(rule, q) = RuleBelow(Nested(c), Field(n)) /\ Front(q) = p /\ Last(q) = Field(n)
    BY <1>4, RuleAtStep
  <1> HIDE DEF q
  <1>6. RuleAt(rule, q) = c.required[n]
    BY <1>1, <1>3, <1>5 DEF RuleBelow
  <1>7. ~MayBeNull(RuleAt(rule, Front(q)), Last(q))
    BY <1>1, <1>3, <1>5 DEF MayBeNull
  <1>8. v[q] # Null
    BY <1>2, <1>7 DEF Conforms, Null
  <1> QED
    BY <1>2, <1>6, <1>8 DEF q

\* The rule of a field that may be missing.
LEMMA OptionalField ==
  ASSUME NEW rule, NEW p \in Places, NEW c, RuleAt(rule, p) = Nested(c),
         NEW n \in DOMAIN c.optional, n \notin DOMAIN c.required
  PROVE  RuleAt(rule, Append(p, Field(n))) = c.optional[n]
  <1>1. Nested(c).form = "object" /\ Nested(c).schema = c
    BY DEF Nested
  <1>2. IsField(Field(n)) /\ Field(n)[1] = n
    BY DEF Field, IsField
  <1>3. RuleAt(rule, Append(p, Field(n))) = RuleBelow(Nested(c), Field(n))
    BY RuleAtStep
  <1> QED
    BY <1>1, <1>2, <1>3 DEF RuleBelow

\* An item of an admitted list is there, and no null is among texts.
LEMMA AdmittedItem ==
  ASSUME NEW v, IsBody(v), NEW rule, Conforms(v, rule), NEW p \in DOMAIN v, v[p].kind = "list",
         NEW r, NEW max, RuleAt(rule, p) = Several(r, max), NEW i \in 1 .. v[p].len
  PROVE  /\ Append(p, Item(i)) \in DOMAIN v /\ RuleAt(rule, Append(p, Item(i))) = r
         /\ r.form # "object" => v[Append(p, Item(i))] # Null
  <1> DEFINE q == Append(p, Item(i))
  <1>1. p \in Places /\ q \in DOMAIN v
    BY EveryPlaceReached DEF IsBody
  <1>2. Several(r, max).form = "list" /\ Several(r, max).of = r
    BY DEF Several
  <1>3. ~IsField(Item(i))
    <2>1. v[p].len \in Nat
      BY EveryPlaceReached DEF Node
    <2> QED
      BY <2>1 DEF Item, IsField
  <1>4. RuleAt(rule, q) = RuleBelow(Several(r, max), Item(i)) /\ Front(q) = p /\ Last(q) = Item(i)
    BY <1>1, RuleAtStep
  <1> HIDE DEF q
  <1>5. RuleAt(rule, q) = r
    BY <1>2, <1>3, <1>4 DEF RuleBelow
  <1>6. r.form # "object" => ~MayBeNull(RuleAt(rule, Front(q)), Last(q))
    <2>1. RuleAt(rule, Front(q)) = Several(r, max)
      BY <1>4
    <2> QED
      BY <1>2, <1>3, <1>4, <2>1 DEF MayBeNull, RuleBelow
  <1>7. r.form # "object" => v[q] # Null
    BY <1>1, <1>6 DEF Conforms, Null
  <1> QED
    BY <1>1, <1>5, <1>7 DEF q

\* The envelope of a batch that the guard and the class have let pass is never
\* refused.
LEMMA EnvelopePasses ==
  ASSUME NEW v, IsBody(v), v[<<>>].kind = "object", Conforms(v, BatchRule),
         MarksAdmitted(v, BatchRule), ~GuardRefuses(v, {})
  PROVE  /\ EnvelopeAccepted(v)
         /\ Sessions \in DOMAIN v /\ v[Sessions].kind = "list" /\ v[Sessions].len \in Nat
  <1> DEFINE c == SafeActivitySessionsUpsertRequest
             Has1(n) == <<Field(n)>> \in DOMAIN v /\ v[<<Field(n)>>] # Null
  <1>1. <<>> \in DOMAIN v /\ ~Odd(v, BatchRule, <<>>) /\ RuleAt(BatchRule, <<>>) = Nested(c)
    BY RuleAtRoot DEF Odd, Null, IsBody, BatchRule
  <1>2. /\ DOMAIN c.required = {"schemaVersion", "sessions"}
        /\ DOMAIN c.optional = {"clientSyncId", "requestId"}
        /\ c.optional["clientSyncId"] = Word("id") /\ c.optional["requestId"] = Word("id")
        /\ c.required["schemaVersion"] = Number
    BY DEF SafeActivitySessionsUpsertRequest, Schema
  <1> HIDE DEF c
  <1>3. \A n \in {"schemaVersion", "sessions"} : v[<<>>].kind = "object" /\ Has1(n)
    <2> TAKE n \in {"schemaVersion", "sessions"}
    <2>1. n \in DOMAIN c.required /\ n \notin DOMAIN c.optional
      BY <1>2
    <2> DEFINE root == <<>>
    <2>2. root \in DOMAIN v /\ ~Odd(v, BatchRule, root) /\ RuleAt(BatchRule, root) = Nested(c)
      BY <1>1
    <2>3. Append(root, Field(n)) = <<Field(n)>>
      OBVIOUS
    <2> HIDE DEF root
    <2>4. /\ v[root].kind = "object"
          /\ Append(root, Field(n)) \in DOMAIN v /\ v[Append(root, Field(n))] # Null
      BY <2>1, <2>2, RequiredField
    <2> QED
      BY <2>3, <2>4 DEF root
  <1>4. /\ v[<<Field("schemaVersion")>>].kind = "scalar" /\ v[<<Field("schemaVersion")>>].fits
    <2>1. RuleAt(BatchRule, <<Field("schemaVersion")>>).form = "scalar"
      BY EnvelopeRules DEF Number
    <2>2. ~Odd(v, BatchRule, <<Field("schemaVersion")>>)
      BY <1>3, <2>1 DEF Odd
    <2> QED
      BY <1>3, <2>1, <2>2, AdmittedForm
  <1>5. v[Sessions].kind = "list" /\ v[Sessions].len <= MaxSessions /\ Sessions \in DOMAIN v
    <2>1. RuleAt(BatchRule, Sessions).form = "list" /\ RuleAt(BatchRule, Sessions).max = MaxSessions
      BY EnvelopeRules DEF Several
    <2>2. Sessions \in DOMAIN v /\ ~Odd(v, BatchRule, Sessions)
      BY <1>3, <2>1 DEF Sessions, Odd
    <2> QED
      BY <2>1, <2>2, AdmittedForm
  <1>6. v[Sessions].len \in Nat
    BY <1>5, EveryPlaceReached DEF Node
  <1>7. ASSUME NEW p \in DOMAIN v \ {Sessions}, Len(p) = 1
        PROVE  ~Named(p, ValidatorNames) /\ ~ScanRefuses(v, p)
    <2> DEFINE R == {Number, Word("id")}
    <2>1. p \in Places /\ p # <<>>
      BY <1>7, EveryPlaceReached
    <2>2. p = <<Last(p)>> /\ Front(p) = <<>> /\ Last(p) \in Steps
      <3>1. Front(p) \in Places /\ Len(Front(p)) = 0 /\ p = Append(Front(p), Last(p)) /\ Last(p) \in Steps
        BY <1>7, <2>1, LastStep
      <3>2. Front(p) = <<>>
        BY <3>1, EmptySeq DEF Places
      <3> QED
        BY <3>1, <3>2
    <2>3. IsField(Last(p)) /\ Last(p)[1] \in Declared(c)
      <3>1. Nested(c).form = "object" /\ Nested(c).schema = c
        BY DEF Nested
      <3>2. Has(v[<<>>], Last(p))
        BY <2>1, <2>2, EveryPlaceReached
      <3>3. IsField(Last(p))
        BY <3>2 DEF Has
      <3> QED
        BY <1>1, <2>1, <2>2, <3>1, <3>3, AdmittedDeclared
    <2>4. Last(p) = Field(Last(p)[1])
      BY <2>2, <2>3 DEF Steps, IsField, Field
    <2>5. Last(p)[1] \in {"schemaVersion", "clientSyncId", "requestId"}
      BY <1>2, <1>7, <2>2, <2>3, <2>4 DEF Declared, Sessions
    <2>6. RuleAt(BatchRule, p) \in R
      <3>1. RuleAt(BatchRule, <<Last(p)>>) = RuleBelow(BatchRule, Last(p))
        BY RuleAtOneStep
      <3>2. BatchRule.form = "object" /\ BatchRule.schema = c
        BY DEF BatchRule, Nested, c
      <3>3. RuleBelow(BatchRule, Last(p)) \in R
        BY <1>2, <2>3, <2>5, <3>2 DEF RuleBelow
      <3> QED
        BY <2>2, <3>1, <3>3
    <2>7. Closed(R)
      BY DEF Closed, RuleBelow, Number, Word
    <2>8. \A r \in R : Harmless(r)
      BY DEF Harmless, Number, Word, FormatMarks
    <2>9. ~ScanRefuses(v, p)
      <3>1. ASSUME NEW q \in Below(v, p) PROVE RuleAt(BatchRule, q).form # "object"
        <4>1. q \in Places /\ IsPrefix(p, q)
          BY EveryPlaceReached DEF Below
        <4>2. RuleAt(BatchRule, q) \in R \cup {Undeclared}
          <5> HIDE DEF R
          <5> QED
            BY <2>1, <2>6, <2>7, <4>1, RuleAtClosed
        <4> QED
          BY <4>2 DEF Number, Word, Undeclared
      <3> HIDE DEF R
      <3> QED
        BY <2>6, <2>7, <2>8, <3>1, ScanPasses
    <2>10. Unnamed(c, ValidatorNames)
      BY OpenClassesUnnamed DEF OpenClasses, c
    <2>11. ~Named(p, ValidatorNames)
      BY <2>3, <2>10 DEF Named, Unnamed
    <2> QED
      BY <2>9, <2>11
  <1> QED
    BY <1>3, <1>4, <1>5, <1>6, <1>7 DEF EnvelopeAccepted, ListUpTo

\* The fields of an entry and of a bucket, as validateSession knows them: the
\* lists that it goes through are the class's.
LEMMA EntryFields ==
  /\ DOMAIN SafeActivitySession.required = RequiredTexts
  /\ DOMAIN SafeActivitySession.optional = OptionalTexts \cup {"warningIds"} \cup BucketLists
  /\ \A n \in RequiredTexts : SafeActivitySession.required[n].form = "text"
  /\ \A n \in OptionalTexts : SafeActivitySession.optional[n].form = "text"
  /\ SafeActivitySession.optional["warningIds"] = Several(Word("key"), MaxWarnings)
  /\ \A n \in BucketLists : SafeActivitySession.optional[n] = Several(Nested(SafeBucket), MaxBuckets)
  /\ DOMAIN SafeBucket.required = {"key", "countBucket"} /\ DOMAIN SafeBucket.optional = {}
  /\ \A n \in {"key", "countBucket"} : SafeBucket.required[n].form = "text"
  /\ RequiredTexts \cap (OptionalTexts \cup {"warningIds"} \cup BucketLists) = {}
  BY DEF SafeActivitySession, SafeBucket, Schema, RequiredTexts, OptionalTexts, BucketLists, Word

\* The keys of a list of warnings, and the parts of a list of buckets.
LEMMA WarningsPass ==
  ASSUME NEW v, IsBody(v), NEW rule, Conforms(v, rule), NEW p \in DOMAIN v, v[p] # Null,
         RuleAt(rule, p) = Several(Word("key"), MaxWarnings)
  PROVE  WarningIdsAccepted(v, p)
  <1>1. v[p].kind = "list" /\ v[p].len <= MaxWarnings
    <2>1. RuleAt(rule, p).form = "list" /\ RuleAt(rule, p).max = MaxWarnings
      BY DEF Several
    <2>2. ~Odd(v, rule, p)
      BY <2>1 DEF Odd
    <2> QED
      BY <2>1, <2>2, AdmittedForm
  <1>2. ASSUME NEW i \in 1 .. v[p].len PROVE Fitting(v, Append(p, Item(i)))
    <2> DEFINE q == Append(p, Item(i))
    <2>1. Word("key").form = "text"
      BY DEF Word
    <2>2. q \in DOMAIN v /\ v[q] # Null /\ RuleAt(rule, q) = Word("key")
      BY <1>1, <2>1, AdmittedItem
    <2> HIDE DEF q
    <2>3. v[q].kind = "text" /\ v[q].fits
      BY <2>1, <2>2, AdmittedForm DEF Odd
    <2> QED
      BY <2>2, <2>3 DEF Fitting, IsText, q
  <1> QED
    BY <1>1, <1>2 DEF WarningIdsAccepted, ListUpTo

LEMMA BucketsPass ==
  ASSUME NEW v, IsBody(v), NEW rule, Conforms(v, rule), NEW p \in DOMAIN v,
         RuleAt(rule, p) = Several(Nested(SafeBucket), MaxBuckets),
         \A q \in Below(v, p) : ~Odd(v, rule, q)
  PROVE  BucketEntriesAccepted(v, p)
  <1>1. v[p].kind = "list" /\ v[p].len <= MaxBuckets
    <2>1. RuleAt(rule, p).form = "list" /\ RuleAt(rule, p).max = MaxBuckets
      BY DEF Several
    <2>2. ~Odd(v, rule, p)
      BY EveryPlaceReached, PlaceBelowItself DEF Below
    <2> QED
      BY <2>1, <2>2, AdmittedForm
  <1>2. ASSUME NEW i \in 1 .. v[p].len PROVE BucketAccepted(v, Append(p, Item(i)))
    <2> DEFINE q == Append(p, Item(i))
    <2>1. q \in DOMAIN v /\ ~Odd(v, rule, q) /\ RuleAt(rule, q) = Nested(SafeBucket)
      <3>1. q \in DOMAIN v /\ RuleAt(rule, q) = Nested(SafeBucket)
        BY <1>1, AdmittedItem
      <3>2. IsPrefix(p, q)
        BY EveryPlaceReached, RuleAtStep
      <3> QED
        BY <3>1, <3>2 DEF Below
    <2>2. Nested(SafeBucket).form = "object"
      BY DEF Nested
    <2> HIDE DEF q
    <2>3. v[q].kind = "object"
      BY <2>1, <2>2, AdmittedForm
    <2>4. ASSUME NEW n \in {"key", "countBucket"} PROVE Fitting(v, Append(q, Field(n)))
      <3> DEFINE f == Append(q, Field(n))
      <3>1. n \in DOMAIN SafeBucket.required /\ n \notin DOMAIN SafeBucket.optional
        BY EntryFields
      <3>2. f \in DOMAIN v /\ v[f] # Null /\ RuleAt(rule, f) = SafeBucket.required[n]
        BY <2>1, <3>1, RequiredField
      <3>3. RuleAt(rule, f).form = "text"
        BY <3>2, EntryFields
      <3> HIDE DEF f
      <3>4. v[f].kind = "text" /\ v[f].fits
        BY <3>2, <3>3, AdmittedForm DEF Odd
      <3> QED
        BY <3>2, <3>4 DEF Fitting, IsText, f
    <2>5. BucketAccepted(v, q)
      BY <2>3, <2>4 DEF BucketAccepted
    <2> QED
      BY <2>5 DEF q
  <1> QED
    BY <1>1, <1>2 DEF BucketEntriesAccepted, ListUpTo

\* An entry of such a batch is refused only for a null or for a list in the
\* place of an object: these are the only things that the class admits and
\* validateSession does not.
LEMMA EntryPasses ==
  ASSUME NEW v, IsBody(v), v[<<>>].kind = "object", Conforms(v, BatchRule),
         MarksAdmitted(v, BatchRule), ~GuardRefuses(v, {}), NEW i \in 1 .. v[Sessions].len,
         \A p \in Below(v, SessionAt(i)) : ~Odd(v, BatchRule, p)
  PROVE  EntryAccepted(v, SessionAt(i))
  <1> DEFINE s == SessionAt(i)
             at(n) == Append(s, Field(n))
  <1>1. Sessions \in DOMAIN v /\ v[Sessions].kind = "list" /\ v[Sessions].len \in Nat
    BY EnvelopePasses
  <1>2. s \in DOMAIN v /\ RuleAt(BatchRule, s) = EntryRule
    BY <1>1, EnvelopeRules, AdmittedItem DEF SessionAt
  <1>3. s \in Places
    BY <1>2, EveryPlaceReached
  <1>4. ~Odd(v, BatchRule, s) /\ \A p \in DOMAIN v : IsPrefix(s, p) => ~Odd(v, BatchRule, p)
    BY <1>2, <1>3, PlaceBelowItself DEF Below
  <1>5. RuleAt(BatchRule, s) = Nested(SafeActivitySession)
    BY <1>2 DEF EntryRule
  <1>6. ~ScanRefuses(v, s)
    <2>1. EntryRule \in EntryRules
      BY DEF EntryRules
    <2>2. \A p \in Below(v, s) : v[p].kind = "list" => RuleAt(BatchRule, p).form # "object"
      BY DEF Odd
    <2> HIDE DEF s
    <2> QED
      BY <1>2, <2>1, <2>2, EntryRulesClosed, EntryRulesHarmless, ScanPasses
  <1> HIDE DEF s
  <1>7. v[s].kind = "object"
    <2>1. Nested(SafeActivitySession).form = "object"
      BY DEF Nested
    <2> QED
      BY <1>2, <1>4, <1>5, <2>1, AdmittedForm
  <1>8. ASSUME NEW n \in RequiredTexts PROVE IsText(v, at(n)) /\ Fitting(v, at(n))
    <2>1. n \in DOMAIN SafeActivitySession.required /\ n \notin DOMAIN SafeActivitySession.optional
      BY EntryFields
    <2>2. /\ at(n) \in DOMAIN v /\ v[at(n)] # Null
          /\ RuleAt(BatchRule, at(n)) = SafeActivitySession.required[n]
      BY <1>2, <1>4, <1>5, <2>1, RequiredField
    <2>3. RuleAt(BatchRule, at(n)).form = "text"
      BY <2>2, EntryFields
    <2>4. v[at(n)].kind = "text" /\ v[at(n)].fits
      <3> HIDE DEF at
      <3> QED
        BY <2>2, <2>3, AdmittedForm DEF Odd
    <2> QED
      BY <2>2, <2>4 DEF Fitting, IsText
  <1>9. ASSUME NEW n \in OptionalTexts \cup {"warningIds"} \cup BucketLists, at(n) \in DOMAIN v
        PROVE  /\ ~Odd(v, BatchRule, at(n)) /\ IsPrefix(s, at(n))
               /\ RuleAt(BatchRule, at(n)) = SafeActivitySession.optional[n]
    <2>1. n \in DOMAIN SafeActivitySession.optional /\ n \notin DOMAIN SafeActivitySession.required
      BY EntryFields
    <2>2. RuleAt(BatchRule, at(n)) = SafeActivitySession.optional[n]
      BY <1>3, <1>5, <2>1, OptionalField
    <2>3. IsPrefix(s, at(n))
      BY <1>3, RuleAtStep
    <2> QED
      BY <1>4, <1>9, <2>2, <2>3
  <1>10. ASSUME NEW n \in OptionalTexts, at(n) \in DOMAIN v PROVE Fitting(v, at(n))
    <2>1. ~Odd(v, BatchRule, at(n)) /\ RuleAt(BatchRule, at(n)).form = "text"
      BY <1>9, <1>10, EntryFields
    <2>2. v[at(n)].kind = "text" /\ v[at(n)].fits
      <3> HIDE DEF at
      <3> QED
        BY <1>10, <2>1, AdmittedForm
    <2> QED
      BY <1>10, <2>2 DEF Fitting, IsText
  <1>11. at("warningIds") \in DOMAIN v => WarningIdsAccepted(v, at("warningIds"))
    <2>1. SUFFICES ASSUME at("warningIds") \in DOMAIN v PROVE WarningIdsAccepted(v, at("warningIds"))
      OBVIOUS
    <2>2. /\ v[at("warningIds")] # Null
          /\ RuleAt(BatchRule, at("warningIds")) = Several(Word("key"), MaxWarnings)
      BY <1>9, <2>1, EntryFields DEF Odd
    <2> HIDE DEF at
    <2> QED
      BY <2>1, <2>2, WarningsPass
  <1>12. ASSUME NEW n \in BucketLists, at(n) \in DOMAIN v PROVE BucketEntriesAccepted(v, at(n))
    <2>1. RuleAt(BatchRule, at(n)) = Several(Nested(SafeBucket), MaxBuckets)
      BY <1>9, <1>12, EntryFields
    <2>2. \A q \in Below(v, at(n)) : ~Odd(v, BatchRule, q)
      <3>1. at(n) \in Places /\ IsPrefix(s, at(n))
        BY <1>9, <1>12, EveryPlaceReached
      <3> HIDE DEF at
      <3>2. \A q \in Below(v, at(n)) : q \in DOMAIN v /\ IsPrefix(s, q)
        BY <1>3, <3>1, EveryPlaceReached, BelowFurther DEF Below
      <3> QED
        BY <1>4, <3>2
    <2> HIDE DEF at
    <2> QED
      BY <1>12, <2>1, <2>2, BucketsPass
  <1>13. {"clientSessionId", "dayBucket"} \subseteq RequiredTexts
    BY DEF RequiredTexts
  <1>14. EntryAccepted(v, s)
    BY <1>6, <1>7, <1>8, <1>10, <1>11, <1>12, <1>13 DEF EntryAccepted
  <1> QED
    BY <1>14 DEF s
=============================================================================
