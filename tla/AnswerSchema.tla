---------------------------- MODULE AnswerSchema ----------------------------
(***************************************************************************)
(* The final answer of an agent, shelfwise_inference/tool_calling.py: the   *)
(* model's text is parsed strictly, the schema it was asked for is checked  *)
(* for keywords the validator does not know, and the value is validated     *)
(* against it, keyword by keyword in a fixed order. A rejection is an       *)
(* exception that a combinator may catch; exceeding Python's recursion      *)
(* limit is one that nobody catches.                                        *)
(*                                                                          *)
(* The validator is compared with what a schema means: a set of values,     *)
(* from the inside out, references as the limit of an iteration.            *)
(*                                                                          *)
(* A text or value is a record with its type t: null, bool, int or float    *)
(* with n, twice the number, str with its length and formats, list with     *)
(* items; the pairs of an object are in order. A schema is a function of    *)
(* its keywords, and "bool" :> TRUE or FALSE a schema that is a boolean.    *)
(***************************************************************************)
EXTENDS Integers, Sequences, FiniteSets, TLC, SequencesExt

CONSTANTS
    Texts,      \* what the model may write
    Schemas,    \* what it may be asked for
    Limit,      \* the recursion limit
    None

VARIABLES text, schema, outcome

-----------------------------------------------------------------------------
(* Reading the answer. *)

Invalid == [t |-> "invalid"]
Keys(pairs) == [i \in DOMAIN pairs |-> pairs[i].key]

\* _unique_object: a key that is there twice makes the text ambiguous.
\* Mistake: the last one wins, as json.loads has it.
LastKeyWins(pairs) ==
    [t |-> "object",
     pairs |-> FoldLeft(LAMBDA kept, p : Append(SelectSeq(kept, LAMBDA q : q.key # p.key), p),
                        <<>>, pairs)]
UniqueObject(pairs) ==
    IF IsInjective(Keys(pairs)) THEN [t |-> "object", pairs |-> pairs] ELSE Invalid

\* _parse_json, with _reject_json_constant
RECURSIVE ParseJson(_)
ParseJson(x) ==
    CASE x.t \in {"empty", "malformed", "NaN"} -> Invalid
      [] x.t = "list" ->
           LET items == [i \in DOMAIN x.items |-> ParseJson(x.items[i])]
           IN IF Invalid \in Range(items) THEN Invalid ELSE [t |-> "list", items |-> items]
      [] x.t = "object" ->
           LET pairs == [i \in DOMAIN x.pairs |->
                           [key |-> x.pairs[i].key, item |-> ParseJson(x.pairs[i].item)]]
           IN IF \E i \in DOMAIN pairs : pairs[i].item = Invalid THEN Invalid
              ELSE UniqueObject(pairs)
      [] OTHER -> x

-----------------------------------------------------------------------------
(* The schema itself, _validate_schema_definition. *)

SCHEMA_KEYS == {"$defs", "$ref", "additionalProperties", "allOf", "anyOf", "const", "enum",
                "exclusiveMinimum", "format", "items", "maxItems", "minLength", "minimum",
                "minItems", "multipleOf", "not", "oneOf", "properties", "required", "type",
                "uniqueItems", "bool"}
JSON_TYPES == {"array", "boolean", "integer", "null", "number", "object", "string"}
STRING_FORMATS == {"date", "email"}
Has(s, key) == key \in DOMAIN s

\* The subschemas it looks at. Mistake: not the one that is negated.
Containers(s) == UNION {Range(s[k]) : k \in DOMAIN s \cap {"$defs", "properties"}}
Sequenced(s) == UNION {Range(s[k]) : k \in DOMAIN s \cap {"allOf", "anyOf", "oneOf"}}
ChildrenButNegated(s) ==
    Containers(s) \cup Sequenced(s) \cup {s[k] : k \in DOMAIN s \cap {"additionalProperties", "items"}}
Children(s) ==
    Containers(s) \cup Sequenced(s)
    \cup {s[k] : k \in DOMAIN s \cap {"additionalProperties", "items", "not"}}

RECURSIVE SchemaIsDefined(_)
SchemaIsDefined(s) ==
    /\ DOMAIN s \subseteq SCHEMA_KEYS
    /\ Has(s, "type") => s["type"] # {} /\ s["type"] \subseteq JSON_TYPES
    /\ Has(s, "$ref") => s["$ref"] # <<>>
    /\ Has(s, "enum") => s["enum"] # <<>>
    /\ Has(s, "format") => s["format"] \in STRING_FORMATS
    /\ \A k \in DOMAIN s \cap {"allOf", "anyOf", "oneOf"} : s[k] # <<>>
    /\ \A child \in Children(s) : SchemaIsDefined(child)

\* _resolve_local_ref: what is not there rejects, as the schema false does.
Resolve(ref, root) ==
    FoldLeft(LAMBDA at, part : IF part \in DOMAIN at THEN at[part] ELSE "bool" :> FALSE, root, ref)

-----------------------------------------------------------------------------
(* Validation. A check accepts, rejects or raises. *)

Check(condition) == IF condition THEN "accept" ELSE "reject"

\* The checks of a sequence are made in order, up to the first that is not passed.
RECURSIVE InOrder(_)
InOrder(checks) ==
    IF checks = <<>> THEN "accept"
    ELSE IF Head(checks) # "accept" THEN Head(checks) ELSE InOrder(Tail(checks))

\* any(_schema_matches ...) stops at the first match.
RECURSIVE AnyMatches(_)
AnyMatches(checks) ==
    IF checks = <<>> THEN "reject"
    ELSE IF Head(checks) # "reject" THEN Head(checks) ELSE AnyMatches(Tail(checks))

\* Every one is tried. Mistake: several will do.
AtLeastOne(checks) ==
    IF "raise" \in Range(checks) THEN "raise" ELSE Check("accept" \in Range(checks))
ExactlyOne(checks) ==
    IF "raise" \in Range(checks) THEN "raise"
    ELSE Check(Cardinality({i \in DOMAIN checks : checks[i] = "accept"}) = 1)

Negated(check) == IF check = "raise" THEN check ELSE Check(check = "reject")

\* Python's equality: a boolean is the number 0 or 1, the order of keys does not matter.
Numeric == {"bool", "int", "float"}
Number == {"int", "float"}
ItemOf(o, key) == o.pairs[CHOOSE i \in DOMAIN o.pairs : o.pairs[i].key = key].item
RECURSIVE PythonEqual(_, _)
PythonEqual(x, y) ==
    CASE {x.t, y.t} \subseteq Numeric -> x.n = y.n
      [] x.t # y.t -> FALSE
      [] x.t = "list" -> /\ Len(x.items) = Len(y.items)
                         /\ \A i \in DOMAIN x.items : PythonEqual(x.items[i], y.items[i])
      [] x.t = "object" ->
           /\ Range(Keys(x.pairs)) = Range(Keys(y.pairs))
           /\ \A key \in Range(Keys(x.pairs)) : PythonEqual(ItemOf(x, key), ItemOf(y, key))
      [] OTHER -> x = y

\* _json_equal. Mistake: Python's.
JsonEqualAsPython(x, y) == PythonEqual(x, y)
JsonEqual(x, y) ==
    IF "bool" \in {x.t, y.t} THEN x.t = y.t /\ x.n = y.n ELSE PythonEqual(x, y)

\* _matches_type
TypesOf(v) ==
    CASE v.t = "null" -> {"null"} [] v.t = "bool" -> {"boolean"}
      [] v.t = "int" -> {"integer", "number"} [] v.t = "float" -> {"number"}
      [] v.t = "str" -> {"string"} [] v.t = "list" -> {"array"} [] v.t = "object" -> {"object"}

\* json.dumps with sorted keys, by which items are told apart.
RECURSIVE Text(_)
Text(v) ==
    CASE v.t = "list" -> [t |-> v.t, items |-> [i \in DOMAIN v.items |-> Text(v.items[i])]]
      [] v.t = "object" ->
           [t |-> v.t, pairs |-> {[p EXCEPT !.item = Text(p.item)] : p \in Range(v.pairs)}]
      [] OTHER -> v

\* _validate_string and _validate_number; n is twice the number on both sides.
StringFits(v, s) ==
    /\ Has(s, "minLength") => v.length >= s["minLength"]
    /\ Has(s, "format") => s["format"] \in v.formats
NumberFits(v, s) ==
    /\ Has(s, "minimum") => v.n >= s["minimum"]
    /\ Has(s, "exclusiveMinimum") => v.n > s["exclusiveMinimum"]
    /\ Has(s, "multipleOf") => s["multipleOf"] # 0 /\ v.n % s["multipleOf"] = 0

\* _validate_schema, with _validate_object and _validate_array; every call is one deeper.
RECURSIVE Validate(_, _, _, _)
Validate(v, s, root, depth) ==
    LET Sub(value, sub) == Validate(value, sub, root, depth - 1)
        Each(key) == [i \in DOMAIN s[key] |-> Sub(v, s[key][i])]
        Field(p) ==
            IF Has(s, "properties") /\ p.key \in DOMAIN s["properties"]
            THEN Sub(p.item, s["properties"][p.key])
            ELSE IF Has(s, "additionalProperties") THEN Sub(p.item, s["additionalProperties"])
            ELSE "accept"
        Object ==
            <<Check(Has(s, "required") => s["required"] \subseteq Range(Keys(v.pairs)))>>
            \o [i \in DOMAIN v.pairs |-> Field(v.pairs[i])]
        Array ==
            <<Check(Has(s, "minItems") => Len(v.items) >= s["minItems"]),
              Check(Has(s, "maxItems") => Len(v.items) <= s["maxItems"]),
              Check(Has(s, "uniqueItems") => IsInjective([i \in DOMAIN v.items |-> Text(v.items[i])]))>>
            \o (IF Has(s, "items") THEN [i \in DOMAIN v.items |-> Sub(v.items[i], s["items"])]
                ELSE <<>>)
    IN CASE depth = 0 -> "raise"
         [] Has(s, "bool") -> Check(s["bool"])
         [] OTHER -> InOrder(
              <<IF Has(s, "$ref") THEN Sub(v, Resolve(s["$ref"], root)) ELSE "accept",
                IF Has(s, "allOf") THEN InOrder(Each("allOf")) ELSE "accept",
                IF Has(s, "anyOf") THEN AnyMatches(Each("anyOf")) ELSE "accept",
                IF Has(s, "oneOf") THEN ExactlyOne(Each("oneOf")) ELSE "accept",
                IF Has(s, "not") THEN Negated(Sub(v, s["not"])) ELSE "accept",
                Check(Has(s, "const") => JsonEqual(v, s["const"])),
                Check(Has(s, "enum") => \E e \in Range(s["enum"]) : JsonEqual(v, e)),
                Check(Has(s, "type") => TypesOf(v) \cap s["type"] # {})>>
              \o CASE v.t = "object" -> Object
                   [] v.t = "list" -> Array
                   [] v.t = "str" -> <<Check(StringFits(v, s))>>
                   [] v.t \in Number -> <<Check(NumberFits(v, s))>>
                   [] OTHER -> <<>>)

\* parse_and_validate_json_answer
ValidatedAnswer(x, s) ==
    LET v == ParseJson(x)
    IN IF v = Invalid THEN "reject"
       ELSE IF ~SchemaIsDefined(s) THEN "schema_error"
       ELSE Validate(v, s, s, Limit)

Init == text \in Texts /\ schema \in Schemas /\ outcome = None

Answer ==
    /\ outcome = None /\ outcome' = ValidatedAnswer(text, schema)
    /\ UNCHANGED <<text, schema>>

Next == Answer
Spec == Init /\ [][Next]_<<text, schema, outcome>>

-----------------------------------------------------------------------------
(* What is meant. *)

\* The text is JSON without a key that is there twice.
RECURSIVE Clean(_)
Clean(x) ==
    /\ x.t \notin {"empty", "malformed", "NaN"}
    /\ x.t = "list" => \A i \in DOMAIN x.items : Clean(x.items[i])
    /\ x.t = "object" =>
          /\ Cardinality(Range(Keys(x.pairs))) = Len(x.pairs)
          /\ \A i \in DOMAIN x.pairs : Clean(x.pairs[i].item)

\* A value, and what is inside it.
RECURSIVE Inside(_)
Inside(v) ==
    {v} \cup UNION {Inside(w) : w \in CASE v.t = "list" -> Range(v.items)
                                        [] v.t = "object" -> {v.pairs[i].item : i \in DOMAIN v.pairs}
                                        [] OTHER -> {}}

\* Every schema within a schema, whatever keyword holds it.
RECURSIVE Within(_)
Within(s) ==
    {s} \cup UNION {Within(c) : c \in Containers(s) \cup Sequenced(s)
                       \cup {s[k] : k \in DOMAIN s \cap {"additionalProperties", "items", "not"}}}

\* The references a schema makes about the value itself, and about anything.
RECURSIVE Direct(_)
Direct(s) ==
    {s[k] : k \in DOMAIN s \cap {"$ref"}}
    \cup UNION {Direct(c) : c \in Sequenced(s) \cup {s[k] : k \in DOMAIN s \cap {"not"}}}
References(root) == {s["$ref"] : s \in {c \in Within(root) : Has(c, "$ref")}}

\* A reference that comes back to itself without going into the value.
RECURSIVE Reached(_, _, _)
Reached(refs, root, n) ==
    IF n = 0 THEN refs
    ELSE Reached(refs \cup UNION {Direct(Resolve(r, root)) : r \in refs}, root, n - 1)
Cyclic(root) ==
    \E r \in References(root) :
        r \in Reached(Direct(Resolve(r, root)), root, Cardinality(References(root)))

\* Two values are the same, booleans and numbers apart at any depth.
RECURSIVE Same(_, _)
Same(x, y) ==
    CASE {x.t, y.t} \subseteq Number -> x.n = y.n
      [] x.t # y.t -> FALSE
      [] x.t = "list" -> /\ Len(x.items) = Len(y.items)
                         /\ \A i \in DOMAIN x.items : Same(x.items[i], y.items[i])
      [] x.t = "object" ->
           /\ Range(Keys(x.pairs)) = Range(Keys(y.pairs))
           /\ \A key \in Range(Keys(x.pairs)) : Same(ItemOf(x, key), ItemOf(y, key))
      [] OTHER -> x = y

\* The values among those of U that a schema admits, when references admit what env says.
RECURSIVE Admits(_, _, _)
Admits(s, U, env) ==
    LET Meant(key) == [i \in DOMAIN s[key] |-> Admits(s[key][i], U, env)]
        Of(kind) == {v \in U : v.t \in kind}
        Where(key, set) == IF Has(s, key) THEN set ELSE U
        Named(p) == Has(s, "properties") /\ p.key \in DOMAIN s["properties"]
    IN IF Has(s, "bool") THEN IF s["bool"] THEN U ELSE {}
       ELSE Where("$ref", env[s["$ref"]])
            \cap Where("allOf", {v \in U : \A i \in DOMAIN s["allOf"] : v \in Meant("allOf")[i]})
            \cap Where("anyOf", UNION Range(Meant("anyOf")))
            \cap Where("oneOf", {v \in U : \E i \in DOMAIN s["oneOf"] :
                                   \A j \in DOMAIN s["oneOf"] : v \in Meant("oneOf")[j] <=> j = i})
            \cap Where("not", U \ Admits(s["not"], U, env))
            \cap Where("const", {v \in U : Same(v, s["const"])})
            \cap Where("enum", {v \in U : \E i \in DOMAIN s["enum"] : Same(v, s["enum"][i])})
            \cap Where("type", {v \in U : \E t \in s["type"] : t \in TypesOf(v)})
            \cap (Of({"null", "bool"})
                  \cup {v \in Of({"str"}) : StringFits(v, s)}
                  \cup {v \in Of(Number) : NumberFits(v, s)}
                  \cup {v \in Of({"list"}) :
                          /\ Has(s, "minItems") => Len(v.items) >= s["minItems"]
                          /\ Has(s, "maxItems") => Len(v.items) <= s["maxItems"]
                          /\ Has(s, "uniqueItems") => 
                               \A i, j \in DOMAIN v.items : i < j => Text(v.items[i]) # Text(v.items[j])
                          /\ Has(s, "items") => Range(v.items) \subseteq Admits(s["items"], U, env)}
                  \cup {v \in Of({"object"}) :
                          /\ Has(s, "required") => s["required"] \subseteq Range(Keys(v.pairs))
                          /\ \A i \in DOMAIN v.pairs :
                               /\ Named(v.pairs[i]) => v.pairs[i].item
                                    \in Admits(s["properties"][v.pairs[i].key], U, env)
                               /\ ~Named(v.pairs[i]) /\ Has(s, "additionalProperties") =>
                                    v.pairs[i].item \in Admits(s["additionalProperties"], U, env)})

\* The references' meaning, after n rounds that begin with nothing.
RECURSIVE Rounds(_, _, _)
Rounds(root, U, n) ==
    [r \in References(root) |->
       IF n = 0 THEN {} ELSE Admits(Resolve(r, root), U, Rounds(root, U, n - 1))]
Meaning(root, U) == Admits(root, U, Rounds(root, U, Cardinality(U) + Cardinality(References(root))))

-----------------------------------------------------------------------------
(* Properties. *)

TypeOK == outcome \in {None, "accept", "reject", "raise", "schema_error"}

\* A boolean in a list or an object; _json_equal takes it for a number there.
BooleanInside(v) == \E w \in Inside(v) \ {v} : w.t = "bool"

\* An answer is accepted exactly when its text is clean JSON and its value is among those
\* the schema means, for every combination of keywords and for schemas that refer to
\* themselves further inside the value; a schema with a keyword the validator cannot
\* enforce is refused wherever it is; and only a reference that comes back to itself on the
\* same value exceeds the recursion limit (parse_and_validate_json_answer).
AnswersAreValidated ==
    outcome # None =>
      LET v == ParseJson(text)
          defined == \A s \in Within(schema) : DOMAIN s \subseteq SCHEMA_KEYS
      IN /\ outcome = "accept" => Clean(text) /\ defined
         /\ outcome = "raise" => Cyclic(schema)
         /\ Clean(text) /\ ~defined => outcome = "schema_error"
         /\ Clean(text) /\ defined /\ ~Cyclic(schema) /\ ~BooleanInside(v) =>
                outcome = "accept" <=> v \in Meaning(schema, Inside(v))
=============================================================================
