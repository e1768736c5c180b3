------------------------------ MODULE MCIntake ------------------------------
(* Bodies for TLC: a full plain body of every class, and all bodies that     *)
(* differ from it in one place, at any depth.                                *)
EXTENDS ClientContract

\* Values with their parts inside, from which bodies are made.
Part(fields) == [kind |-> "object", fields |-> fields]
List(items) == [kind |-> "list", items |-> items]
Scalar(fits) == [kind |-> "scalar", fits |-> fits]
Text(fits, marks) == [kind |-> "text", fits |-> fits, marks |-> marks]

RECURSIVE Body(_)
Body(v) ==
    LET below(step, part) ==
            LET b == Body(part) IN [p \in {<<step>> \o q : q \in DOMAIN b} |-> b[Tail(p)]]
        merged(parts) == FoldSet(LAMBDA f, g: f @@ g, <<>>, parts)
    IN  CASE v.kind = "object" ->
               (<<>> :> Object) @@ merged({below(Field(n), v.fields[n]) : n \in DOMAIN v.fields})
          [] v.kind = "list" ->
               (<<>> :> [kind |-> "list", len |-> Len(v.items)])
                 @@ merged({below(Item(i), v.items[i]) : i \in DOMAIN v.items})
          [] OTHER -> (<<>> :> v)

RECURSIVE Plain(_)
Plain(rule) ==
    CASE rule.form = "text"   -> Text(TRUE, {})
      [] rule.form = "scalar" -> Scalar(TRUE)
      [] rule.form = "list"   -> List(<<Plain(rule.of)>>)
      [] rule.form = "object" ->
           LET s == rule.schema
           IN  Part([n \in DOMAIN s.required \cup DOMAIN s.optional |->
                          Plain(IF n \in DOMAIN s.required THEN s.required[n] ELSE s.optional[n])])

\* Names that no class declares at this place.
Strange == {"password", "Password", "rawPath", "note"}

\* Values that a place may hold instead of v, which is plain and of the rule.
RECURSIVE Variants(_, _)
Variants(v, rule) ==
    {Null, Scalar(FALSE)} \cup
    (CASE rule.form = "text" ->
            {Text(TRUE, {m}) : m \in FormatMarks[rule.format]} \cup {Text(FALSE, {m}) : m \in Marks}
                \cup {Text(FALSE, {}), Scalar(TRUE)}
       [] rule.form = "scalar" -> {Text(FALSE, {})}
       [] rule.form = "list" ->
            {List([i \in 1 .. n |-> v.items[1]]) : n \in {0, 2, rule.max + 1}}
                \cup {List(<<x>>) : x \in Variants(v.items[1], rule.of)}
       [] rule.form = "object" ->
            LET f == v.fields
                s == rule.schema
                ruleOf(n) == IF n \in DOMAIN s.required THEN s.required[n] ELSE s.optional[n]
            IN  {List(<<>>), List(<<v>>), List(<<v, Null>>), List(<<Part(<<>>)>>), List(<<List(<<Scalar(TRUE)>>)>>)}
                  \cup {Part([m \in DOMAIN f \ {n} |-> f[m]]) : n \in DOMAIN f}
                  \cup UNION {{Part([f EXCEPT ![n] = x]) : x \in Variants(f[n], ruleOf(n))} : n \in DOMAIN f}
                  \cup {Part([m \in DOMAIN f \cup {n} |-> IF m = n THEN Text(TRUE, {}) ELSE f[m]]) :
                           n \in Strange \ DOMAIN f})

PlainEntry == Plain(Nested(SafeActivitySession))

\* A batch of a plain entry and another one.
Batch(x) ==
    Part([schemaVersion |-> Scalar(TRUE), sessions |-> List(<<PlainEntry, x>>)])

Batches ==
    {Batch(x) : x \in {PlainEntry} \cup Variants(PlainEntry, Nested(SafeActivitySession))}

MCBodies ==
    [h \in Handlers |->
        LET plain == Plain(Nested(Dto(h)))
            values == {plain} \cup Variants(plain, Nested(Dto(h))) \cup (IF h = "activity" THEN Batches ELSE {})
        IN  {Body(v) : v \in {x \in values : x.kind = "object"}}]

\* createOpaqueToken: 64 random letters of base64url.
MCTokens == {Text(TRUE, {}), Text(TRUE, {"apiKey"})}

MCOpenApi ==
    [providers |-> SourceProviders, schemaVersions |-> {1}, forbidden |-> GuardNames \cup {"rawpath"}]

\* A plain entry with another value in a field.
Entry1(name, v) == Part((name :> v) @@ PlainEntry.fields)

\* The bundle of the repository.
Good ==
    [bundleVersion |-> 1, clientSchemaVersion |-> 1, clientName |-> "TokenForgeUnityClient",
     described |-> TRUE, providers |-> SourceProviders, schemaVersions |-> {1}, localOnly |-> TRUE,
     rawFields |-> GuardNames \cup {"rawpath"}, valid |-> Body(Batch(PlainEntry)),
     unsafe |-> Body(Batch(Entry1("Password", Text(TRUE, {})))),
     mixed |-> Body(Batch(Entry1("changeCountBucket", Text(FALSE, {})))),
     mixedBehavior |-> "WHOLE_REQUEST_REJECTED_BY_DTO_VALIDATION"]

\* The same with another fixture, or with a list that is out of date.
MCBundles ==
    {Good, [Good EXCEPT !.mixed = None], [Good EXCEPT !.rawFields = GuardNames \ {"token"}],
     [Good EXCEPT !.providers = {"GIT"}], [Good EXCEPT !.mixedBehavior = "PARTIAL"]}
        \cup {[Good EXCEPT !.valid = Body(v)] : v \in Batches}
        \cup {[Good EXCEPT !.unsafe = Body(Batch(Entry1(n, Text(TRUE, {}))))] : n \in Strange}
        \cup {[Good EXCEPT !.mixed = Body(Batch(Entry1("timeBucket", v)))] :
                 v \in {Null, Text(FALSE, {"command"}), Text(FALSE, {"apiKey"}), Text(TRUE, {})}}
=============================================================================
