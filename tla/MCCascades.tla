----------------------------- MODULE MCCascades -----------------------------
(***************************************************************************)
(* Small instances of how a decision comes about: the drills with their     *)
(* agents, the rules of the deterministic cascades, and the validation of   *)
(* an agent's final answer. They share no state, so it is enough that a     *)
(* behaviour moves one of them, its subject; the others stay where they     *)
(* begin. Of the other parts of the system nothing is there.                *)
(***************************************************************************)
EXTENDS AgentSystem, TLC

CONSTANTS c1, c2

\* The drills: two concurrent clicks of any one of them.
EveryDrill == {"golden", "procurement", "sales", "price", "expiry", "cold_chain", "deterministic",
               "pipeline"}

\* The rules: numbers on both sides of every comparison, prices around the
\* tolerance of 15 percent, coverages around 60 percent.
AroundZero == -1 .. 3
AroundTolerance == {-1, 0, 17, 20, 23, 24}
AroundSixty == 59 .. 61

\* No messages, and no versions but the first.
NoTerms == <<>>
NoEvidence == 1 :> {}
LowBar == 1 :> 0

\* The answers: every kind of value, with a key that is there twice, a boolean beside the
\* number one, and objects of one, two and three levels.
Whole(n) == [t |-> "int", n |-> 2 * n]
Half(n) == [t |-> "float", n |-> n]
Bool(n) == [t |-> "bool", n |-> 2 * n]
Str(length, formats) == [t |-> "str", length |-> length, formats |-> formats]
List(elements) == [t |-> "list", items |-> elements]
Pair(key, item) == [key |-> key, item |-> item]
Obj(pairs) == [t |-> "object", pairs |-> pairs]
Before(x) == Obj(<<Pair("next", x)>>)
Null == [t |-> "null"]
Texts ==
    {[t |-> "empty"], Null, Whole(0), Whole(1), Whole(2), Half(1), Half(2), Bool(1),
     Str(0, {}), Str(2, {"date"}), List(<<>>), List(<<Whole(1)>>), List(<<Bool(1)>>),
     List(<<Whole(1), Whole(1)>>), List(<<Whole(1), [t |-> "NaN"]>>),
     List(<<Whole(1), List(<<Str(2, {})>>)>>),
     Obj(<<>>), Obj(<<Pair("a", Whole(1))>>), Obj(<<Pair("a", Whole(1)), Pair("b", Str(0, {}))>>),
     Obj(<<Pair("b", Whole(2)), Pair("a", Bool(1))>>),
     Obj(<<Pair("a", Whole(1)), Pair("a", Whole(2))>>),
     Before(Null), Before(Before(Null)), Before(Before(Whole(1)))}

\* The schemas: one keyword or a few, any two of those combined, and a definition that
\* refers to itself further inside the value, on the same value, or by way of another.
Type(t) == "type" :> t
Ref == "$ref" :> <<"$defs", "node">>
Simple ==
    {"bool" :> TRUE, "bool" :> FALSE,
     Type({"integer"}), Type({"number", "null"}), Type({"string"}), Type({"boolean", "array"}),
     "const" :> Whole(1), "enum" :> <<Bool(1), List(<<Whole(1)>>)>>,
     "minimum" :> 2 @@ "multipleOf" :> 2, "exclusiveMinimum" :> 0,
     "minLength" :> 1 @@ "format" :> "date",
     "items" :> Type({"integer"}) @@ "minItems" :> 1, "uniqueItems" :> TRUE @@ "maxItems" :> 1,
     "required" :> {"a"} @@ "properties" :> ("a" :> Type({"integer"}))
         @@ "additionalProperties" :> ("bool" :> FALSE),
     Type({"object"}) @@ "properties" :> ("b" :> Type({"string"}))
         @@ "additionalProperties" :> Type({"integer"}),
     "contains" :> ("bool" :> TRUE)}
Combined ==
    {k :> <<x, y>> : k \in {"allOf", "anyOf", "oneOf"}, x \in Simple, y \in Simple}
    \cup {"not" :> x : x \in Simple} \cup {"items" :> ("not" :> x) : x \in Simple}
Nodes ==
    {Type({"integer"}), Type({"object", "null"}) @@ "properties" :> ("next" :> Ref),
     "anyOf" :> <<Type({"null"}), Type({"object"}) @@ "required" :> {"next"}
                                     @@ "properties" :> ("next" :> Ref)>>,
     "items" :> ("not" :> Ref), "not" :> Ref, "anyOf" :> <<Type({"integer"}), Ref>>,
     "$ref" :> <<"$defs", "other">>, Ref}
Recursive ==
    {("$defs" :> ("node" :> n @@ "other" :> ("allOf" :> <<x, "items" :> Ref>>))) @@ s :
        n \in Nodes, x \in {"bool" :> TRUE, Ref, Type({"array", "object"})},
        s \in {Ref, "not" :> Ref, "oneOf" :> <<Type({"integer"}), Ref>>, "items" :> Ref,
               "$ref" :> <<"$defs", "missing">>}}
Schemas == Simple \cup Combined \cup Recursive

\* The clicks are interchangeable, and only safety is checked.
ClickSymmetry == Permutations(Clicks)

VARIABLES subject, text, schema, outcome

Answers == INSTANCE AnswerSchema WITH Limit <- 30

ASSUME CascadeAssumptions == AgentSystemAssumption

agentVars == <<drill, card, queued, run>>
ruleVars == <<event, result>>
answerVars == <<text, schema, outcome>>
otherVars == <<conversation, summaries, items, holder, request, sent, heard, trimmed, cut,
               skill, evidence, job, ops, down, unearned,
               outcomes, facts, journal, consolidation, consolidations, plans, overlapped>>
vars == <<subject, agentVars, ruleVars, answerVars, otherVars>>

\* Where a part begins that is not the subject.
AgentsRest == Agency!Init /\ drill = "deterministic"
RulesRest == event = [type |-> "stock_update", domain |-> "other", body |-> None] /\ result = None
AnswersRest == text = None /\ schema = None /\ outcome = None

Init ==
    /\ Chat!Init /\ Skills!Init /\ Memory!Init
    /\ \/ subject = "agents" /\ Agency!Init /\ RulesRest /\ AnswersRest
       \/ subject = "rules" /\ Rules!Init /\ AgentsRest /\ AnswersRest
       \/ subject = "answers" /\ Answers!Init /\ AgentsRest /\ RulesRest

Next ==
    /\ UNCHANGED <<subject, otherVars>>
    /\ \/ subject = "agents" /\ Agency!Next /\ UNCHANGED <<ruleVars, answerVars>>
       \/ subject = "rules" /\ Rules!Next /\ UNCHANGED <<agentVars, answerVars>>
       \/ subject = "answers" /\ Answers!Next /\ UNCHANGED <<agentVars, ruleVars>>

\* Its behaviours are behaviours of System.
Spec == Init /\ [][Next]_vars

\* (AnswerSchema) A final answer is accepted exactly when it is clean JSON that the schema
\* it was asked for means.
AnswersAreValidated == subject = "answers" => Answers!TypeOK /\ Answers!AnswersAreValidated
=============================================================================
