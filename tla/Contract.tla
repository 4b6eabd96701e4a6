------------------------------ MODULE Contract ------------------------------
(***************************************************************************)
(* What a request body has to be: contracts/strict_json.py, then           *)
(* contracts/validator.py, and the tag of errors.py's detail_loc().        *)
(*                                                                         *)
(* A body is a JSON value as the caller wrote it, in which keys may be     *)
(* repeated and numbers infinite, and the way it was put into bytes. The   *)
(* decoder (external) reads back the value that was written.               *)
(***************************************************************************)
EXTENDS Answers

CONSTANTS MaxDepth,     \* max_json_depth
          MaxQuestions, \* max_questions
          MinOptions,   \* min_choice_options
          MaxOptions,   \* max_choice_options
          MinLevels,    \* min_score_levels
          MaxLevels,    \* max_score_levels
          Json,         \* the values a caller may write
          WrittenJson(_)  \* the text of a value as the caller wrote it (external)

ASSUME LimitsAssumption ==
  /\ {MaxDepth, MaxQuestions, MaxOptions, MaxLevels} \subseteq Nat \ {0}
  /\ {MinOptions, MinLevels} \subseteq Nat \ {0, 1}
  /\ MaxOptions <= 255 /\ MaxLevels <= 10

ASSUME DigitsAssumption ==
  \A m, n \in 0..(MaxLevels - 1) : Digits(m) = Digits(n) => m = n

\* How the bytes came to be: "cut" lacks the end, "latin-1" is not UTF-8.
Bytes == {"plain", "bom", "latin-1", "cut"}

Quote == "quote"
Backslash == "backslash"
LoneSurrogate == "lone surrogate"
Infinite == "1e999"

\* The values inside a value, layer by layer, as far down as nesting is let through.
Within(value) ==
  CASE value.kind = "array" -> ToSet(value.members)
    [] value.kind = "object" -> {m.value : m \in ToSet(value.members)}
    [] OTHER -> {}

ASSUME JsonAssumption ==
  /\ \A v \in Json :
       /\ v.kind # "missing"
       /\ IsSequence(v.text) /\ IsSequence(v.members) /\ IsSequence(CanonicalJson(v))
       /\ (ToSet(v.text) \cup ToSet(CanonicalJson(v))) \cap DOMAIN Spelling = {}
       /\ v.kind = "object" => \A i \in DOMAIN v.members : v.members[i].key \in Seq(DOMAIN Point)
  /\ UNION {Within(v) : v \in Json} \subseteq Json

\* The text of a value: quotes and backslashes in strings are escaped.
Quoted(text) ==
  <<Quote>> \o FlattenSeq([i \in DOMAIN text |->
                 IF text[i] \in {Quote, Backslash} THEN <<Backslash, text[i]>> ELSE <<text[i]>>])
  \o <<Quote>>

Separated(parts) ==
  FlattenSeq([i \in DOMAIN parts |-> IF i = 1 THEN parts[i] ELSE <<",">> \o parts[i]])

\* The caller's encoder writes members in the order they have.
ASSUME WrittenAssumption ==
  \A v \in Json :
    /\ IsSequence(WrittenJson(v))
    /\ WrittenJson(v) =
         CASE v.kind = "array" ->
                <<"[">> \o Separated([i \in DOMAIN v.members |-> WrittenJson(v.members[i])])
                \o <<"]">>
           [] v.kind = "object" ->
                <<"{">> \o Separated([i \in DOMAIN v.members |->
                             Quoted(v.members[i].key) \o <<":">>
                             \o WrittenJson(v.members[i].value)])
                \o <<"}">>
           [] v.kind = "string" -> Quoted(v.text)
           [] OTHER -> v.text
    /\ v.kind \notin {"array", "object", "string"} =>
         v.text # <<>> /\ ToSet(v.text) \cap {Quote, "[", "{", "]", "}"} = {}

Layer(value, depth) ==
  LET layer[n \in 0..MaxDepth] ==
        IF n = 0 THEN {value} ELSE UNION {Within(v) : v \in layer[n - 1]}
  IN layer[depth]
Parts(value) == UNION {Layer(value, n) : n \in 0..MaxDepth}

-----------------------------------------------------------------------------
(* parse_strict_json()                                                     *)

\* _check_depth(): one pass over the characters, blind inside strings.
NeverEscaped(scan, char) ==    \* mutant: an escaped quote ends the string
  IF scan.in_string THEN [scan EXCEPT !.in_string = char # Quote]
  ELSE CASE char = Quote -> [scan EXCEPT !.in_string = TRUE]
         [] char \in {"[", "{"} -> [scan EXCEPT !.depth = @ + 1,
                                                !.deepest = Max({@, scan.depth + 1})]
         [] char \in {"]", "}"} -> [scan EXCEPT !.depth = @ - 1]
         [] OTHER -> scan
Scan(scan, char) ==
  IF scan.in_string
    THEN [scan EXCEPT !.escaped = ~scan.escaped /\ char = Backslash,
                      !.in_string = scan.escaped \/ char # Quote]
    ELSE CASE char = Quote -> [scan EXCEPT !.in_string = TRUE]
           [] char \in {"[", "{"} -> [scan EXCEPT !.depth = @ + 1,
                                                  !.deepest = Max({@, scan.depth + 1})]
           [] char \in {"]", "}"} -> [scan EXCEPT !.depth = @ - 1]
           [] OTHER -> scan

TooDeep(text) ==
  LET start == [depth |-> 0, deepest |-> 0, in_string |-> FALSE, escaped |-> FALSE]
      scan[i \in 0..Len(text)] == IF i = 0 THEN start ELSE Scan(scan[i - 1], text[i])
  IN scan[Len(text)].deepest > MaxDepth

RepeatsAKey(value) == value.kind = "object" /\ Cardinality(ToSet(KeysOf(value.members)))
                                               < Len(value.members)
NotANumber(value) == value.kind = "number" /\ value.text = <<Infinite>>
Unpaired(value) ==
  \/ value.kind = "string" /\ LoneSurrogate \in ToSet(value.text)
  \/ value.kind = "object" /\ \E key \in ToSet(KeysOf(value.members)) :
                                LoneSurrogate \in ToSet(key)

\* A fault is what an exception says: status, code, path and question type.
Fault(status, code, path) == [status |-> status, code |-> code, path |-> path, tag |-> ""]
Malformed == Fault(400, "invalid_json", <<>>)
When(condition, fault) == IF condition THEN <<fault>> ELSE <<>>

\* In the order of the code: the first one is raised. The decoder sees what passed the scan,
\* so that Parts is all there is.
ParseFaults(body) ==
  LET text == WrittenJson(body.value)
      written == IF body.bytes = "cut" THEN Front(text) ELSE text
  IN When(body.bytes \in {"bom", "latin-1"}, Malformed)
     \o When(TooDeep(written), Fault(422, "validation_error", <<>>))
     \o When(\/ body.bytes = "cut"
             \/ \E part \in Parts(body.value) :
                  RepeatsAKey(part) \/ NotANumber(part) \/ Unpaired(part), Malformed)

-----------------------------------------------------------------------------
(* validate_request(); policy is unknown_top_level_fields                  *)

\* dict.get(); what is not there is no JSON value, and None where the code says so.
Missing == [kind |-> "missing", text |-> <<>>, members |-> <<>>]
Get(value, key) ==
  IF value.kind = "object" /\ key \in ToSet(KeysOf(value.members))
    THEN Value(value.members, key) ELSE Missing
OrNone(value) == IF value = Missing THEN Null ELSE value

IsContent(value) == value.kind \in {"string", "array", "object"}
IsEntry(value) == value.kind = "null" \/ IsContent(value)

TopLevelFields == <<<<"model">>, <<"state">>, <<"questions">>>>
CommonFields == {<<"type">>, <<"instructions">>, <<"criteria">>}
QuestionTypes == {"noul", "choice", "score"}

Invalid(path) == Fault(422, "validation_error", path)
Fields(value) == IF value.kind = "object" THEN value.members ELSE <<>>
Elements(value) == IF value.kind = "array" THEN value.members ELSE <<>>

DeclaredType(raw) ==
  LET type == Get(raw, <<"type">>) IN
  IF type.kind = "string" /\ \E t \in QuestionTypes : type.text = <<t>> THEN type.text[1] ELSE ""

NoulFaults(criteria, base) ==
  When(~(criteria.kind \in {"object", "null"}), Invalid(base))
  \o FlattenSeq([k \in DOMAIN Fields(criteria) |->
       LET key == Fields(criteria)[k].key IN
       When(key \notin {<<"true">>, <<"false">>}, Invalid(Append(base, key)))])
  \o When(~IsEntry(OrNone(Get(criteria, <<"true">>))), Invalid(Append(base, <<"true">>)))
  \o When(~IsEntry(OrNone(Get(criteria, <<"false">>))), Invalid(Append(base, <<"false">>)))

ChoiceFaults(criteria, base) ==
  When(criteria.kind # "object" \/ Len(Fields(criteria)) \notin MinOptions..MaxOptions,
       Invalid(base))
  \o FlattenSeq([k \in DOMAIN Fields(criteria) |->
       When(~IsEntry(Fields(criteria)[k].value),
            Invalid(Append(base, Fields(criteria)[k].key)))])

\* A null level is refused.
ScoreFaults(criteria, base) ==
  When(criteria.kind # "array" \/ Len(Elements(criteria)) \notin MinLevels..MaxLevels,
       Invalid(base))
  \o FlattenSeq([k \in DOMAIN Elements(criteria) |->
       When(~IsContent(Elements(criteria)[k]), Invalid(Append(base, Digits(k - 1))))])

\* The type is named in detail[].loc once it has been established.
QuestionFaults(id, raw) ==
  LET base == <<<<"questions">>, id>>
      at_criteria == Append(base, <<"criteria">>)
      type == DeclaredType(raw)
      faults ==
        When(raw.kind # "object", Invalid(base))
        \o When(type = "", Invalid(Append(base, <<"type">>)))
        \o FlattenSeq([k \in DOMAIN Fields(raw) |->
             When(Fields(raw)[k].key \notin CommonFields,
                  Invalid(Append(base, Fields(raw)[k].key)))])
        \o When(~IsEntry(OrNone(Get(raw, <<"instructions">>))),
                Invalid(Append(base, <<"instructions">>)))
        \o CASE type = "noul" -> NoulFaults(OrNone(Get(raw, <<"criteria">>)), at_criteria)
             [] type = "choice" -> ChoiceFaults(Get(raw, <<"criteria">>), at_criteria)
             [] type = "score" -> ScoreFaults(Get(raw, <<"criteria">>), at_criteria)
             [] OTHER -> <<>>
  IN [i \in DOMAIN faults |-> [faults[i] EXCEPT !.tag = type]]

ValidationFaults(value, policy) ==
  LET questions == Get(value, <<"questions">>)
      model == Get(value, <<"model">>)
  IN When(value.kind # "object", Invalid(<<>>))
     \o FlattenSeq([i \in DOMAIN TopLevelFields |->
          When(Get(value, TopLevelFields[i]) = Missing, Invalid(<<TopLevelFields[i]>>))])
     \o FlattenSeq([i \in DOMAIN Fields(value) |->
          When(policy = "reject" /\ Fields(value)[i].key \notin ToSet(TopLevelFields),
               Invalid(<<Fields(value)[i].key>>))])
     \o When(model.kind # "string" \/ model.text = <<>>, Invalid(<<<<"model">>>>))
     \o When(~IsContent(Get(value, <<"state">>)), Invalid(<<<<"state">>>>))
     \o When(questions.kind # "object" \/ Len(Fields(questions)) \notin 1..MaxQuestions,
             Invalid(<<<<"questions">>>>))
     \o FlattenSeq([q \in DOMAIN Fields(questions) |->
          QuestionFaults(Fields(questions)[q].key, Fields(questions)[q].value)])

\* The ValidatedRequest.
Criteria(type, criteria) ==
  CASE type = "noul" -> [k \in 1..2 |-> LET side == <<<<"true">>, <<"false">>>>[k] IN
                           [key |-> side, entry |-> OrNone(Get(criteria, side))]]
    [] type = "choice" -> [k \in DOMAIN criteria.members |->
                            [key |-> criteria.members[k].key, entry |-> criteria.members[k].value]]
    [] type = "score" -> [k \in DOMAIN criteria.members |->
                            [key |-> Digits(k - 1), entry |-> criteria.members[k]]]

Validated(value) ==
  LET questions == Get(value, <<"questions">>).members IN
  [model |-> Get(value, <<"model">>).text,
   state |-> Get(value, <<"state">>),
   questions |-> [q \in DOMAIN questions |->
     LET raw == questions[q].value
         type == DeclaredType(raw)
     IN [id |-> questions[q].key, type |-> type,
         instructions |-> OrNone(Get(raw, <<"instructions">>)),
         criteria |-> Criteria(type, Get(raw, <<"criteria">>))]]]

\* The request schema (contracts/schemas, appendix A of the specification) with the limits
\* in force, for comparison with the validator.
Has(value, key) == Get(value, key) # Missing
QuestionSchema(raw) ==
  LET criteria == Get(raw, <<"criteria">>)
      options == {m.value : m \in ToSet(Fields(criteria))}
      keys == {m.key : m \in ToSet(Fields(criteria))}
  IN /\ raw.kind = "object"
     /\ {m.key : m \in ToSet(raw.members)} \subseteq CommonFields
     /\ Has(raw, <<"instructions">>) => IsEntry(Get(raw, <<"instructions">>))
     /\ \/ /\ DeclaredType(raw) = "noul" /\ criteria.kind \in {"missing", "null", "object"}
           /\ keys \subseteq {<<"true">>, <<"false">>} /\ \A v \in options : IsEntry(v)
        \/ /\ DeclaredType(raw) = "choice" /\ criteria.kind = "object"
           /\ Len(criteria.members) \in MinOptions..MaxOptions /\ \A v \in options : IsEntry(v)
        \/ /\ DeclaredType(raw) = "score" /\ criteria.kind = "array"
           /\ Len(criteria.members) \in MinLevels..MaxLevels
           /\ \A v \in ToSet(criteria.members) : IsContent(v)
RequestSchema(value, policy) ==
  LET model == Get(value, <<"model">>)
      questions == Get(value, <<"questions">>)
      keys == {m.key : m \in ToSet(Fields(value))}
  IN /\ value.kind = "object"
     /\ policy = "reject" => keys \subseteq ToSet(TopLevelFields)
     /\ model.kind = "string" /\ model.text # <<>>
     /\ IsContent(Get(value, <<"state">>))
     /\ questions.kind = "object" /\ Len(questions.members) \in 1..MaxQuestions
     /\ \A m \in ToSet(questions.members) : QuestionSchema(m.value)

\* detail_loc()
Location(fault) ==
  <<<<"body">>>> \o
  IF Len(fault.path) > 2 /\ fault.path[1] = <<"questions">> /\ fault.tag # ""
    THEN SubSeq(fault.path, 1, 2) \o <<<<fault.tag>>>> \o SubSeq(fault.path, 3, Len(fault.path))
    ELSE fault.path
=============================================================================
