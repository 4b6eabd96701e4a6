---------------------------- MODULE RequestPath ----------------------------
(***************************************************************************)
(* One POST /v1/systemone from its bytes to its body: the server that was  *)
(* started (Bundles), AuthenticationMiddleware, system_one() of            *)
(* jevbert/api/routes.py up to the engine (Contract), the job it gives to  *)
(* the encoder and the worker (Serializer), and the answer (Answers).      *)
(*                                                                         *)
(* The concurrency of it - deadlines, admission, several requests, when a  *)
(* bundle is ready - is the subject of Server; here the request is alone.  *)
(***************************************************************************)
EXTENDS Contract, Bundles

CONSTANTS SettingsChoices,  \* the configurations an operator may start the server with
          Calls,            \* the requests a caller may send
          MaxBodyBytes

ASSUME CallsAssumption ==
  /\ \A c \in Calls : c.body.value \in Json /\ c.body.bytes \in Bytes /\ c.chunks \in Seq(Nat)
  /\ MaxBodyBytes \in Nat

\* What the types of config.py and of a manifest make sure of.
ASSUME SettingsAssumption ==
  \A s \in SettingsChoices :
    /\ s.max_sequence_tokens \in Nat \ {0} /\ s.max_request_tokens \in Nat \ {0}
    /\ s.max_request_chars \in Nat /\ IsSequence(s.bundles)
    /\ \A m \in ToSet(s.bundles) \cup {FakeManifest} :
         /\ m.max_sequence_tokens \in Nat \ {0} /\ m.max_request_tokens \in Nat \ {0}
         /\ m.model_max_sequence_tokens \in Nat
         /\ \A t \in {m.temperature[type] : type \in DOMAIN m.temperature} :
              t > 0 => t \in DOMAIN Exp

VARIABLES
  intake,    \* how far the server and the reading of the request have come
  settings,  \* the configuration
  call,      \* the request: header fields, chunks, and what they spell
  received,  \* bytes of the body so far
  bundle,    \* the manifest of the bundle that was resolved, which the headers name
  response   \* the body of a 200

outside == <<intake, settings, call, received, bundle, response>>
pathvars == <<serializer, outside>>

None == [none |-> TRUE]

PathInit ==
  /\ SerializerInit
  /\ intake = "starting" /\ settings = None /\ call = None /\ received = 0
  /\ bundle = None /\ response = None

StartServer ==
  /\ intake = "starting"
  /\ \E s \in SettingsChoices :
       settings' = s /\ intake' = IF Startable(s) THEN "listening" ELSE "down"
  /\ UNCHANGED <<serializer, call, received, bundle, response>>

-----------------------------------------------------------------------------
(* Before the body is understood                                           *)

\* authenticate()
Authentic(c) == c.scheme = "bearer" /\ c.token \in ToSet(ApiKeys(settings))

\* _check_media_type()
JsonMediaType(c) ==
  /\ c.media_type = "application/json" /\ c.charset \in {"", "utf-8"}
  /\ c.encoding \in {"", "identity"}

\* The part of _read_body() before its first await; a length is not always declared.
TooLargeAsDeclared(c) == c.declared > MaxBodyBytes

\* Nothing of the rest changes when the handler refuses the request.
StopAt(fault) ==
  /\ Refuse(fault.status, fault.code, fault.path, fault.tag)
  /\ UNCHANGED <<request, budget, compiled, at, flat, marks, encoded, taken, offset, total,
                 sent, logits, grouped, backend>>

Receive ==
  /\ intake = "listening"
  /\ \E c \in Calls :
       LET faults == When(~Authentic(c), Fault(401, "unauthorized", <<>>))
                     \o When(~JsonMediaType(c), Fault(415, "unsupported_media_type", <<>>))
                     \o When(TooLargeAsDeclared(c), Fault(413, "request_too_large", <<>>))
       IN /\ call' = c
          /\ IF faults # <<>> THEN StopAt(Head(faults)) /\ intake' = "handled"
             ELSE UNCHANGED serializer /\ intake' = "reading"
  /\ UNCHANGED <<settings, received, bundle, response>>

\* request.stream(): bytes are counted as they arrive.
ReadChunk ==
  /\ intake = "reading" /\ call.chunks # <<>>
  /\ received' = received + Head(call.chunks)
  /\ call' = [call EXCEPT !.chunks = Tail(@)]
  /\ IF received' > MaxBodyBytes
       THEN StopAt(Fault(413, "request_too_large", <<>>)) /\ intake' = "handled"
       ELSE UNCHANGED <<serializer, intake>>
  /\ UNCHANGED <<settings, bundle, response>>

\* system_one() from the end of the body to the await of the engine.
Handle ==
  LET value == call.body.value
      faults == ParseFaults(call.body)
                \o ValidationFaults(value, settings.unknown_top_level_fields)
      named == Resolve(settings, Validated(value).model)
  IN /\ intake = "reading" /\ call.chunks = <<>> /\ intake' = "handled"
     /\ \/ faults # <<>> /\ StopAt(Head(faults)) /\ UNCHANGED bundle
        \/ /\ faults = <<>> /\ named = {}
           /\ StopAt(Fault(422, "model_not_found", <<<<"model">>>>)) /\ UNCHANGED bundle
        \/ /\ faults = <<>> /\ named # {} /\ bundle' \in named
           /\ \/ StopAt(Fault(503, "model_unavailable", <<>>))
              \/ Begin(Validated(value),
                       [chars |-> EffectiveMaxRequestChars(settings),
                        sequence |-> bundle'.max_sequence_tokens,
                        request |-> bundle'.max_request_tokens])
     /\ UNCHANGED <<settings, call, received, response>>

-----------------------------------------------------------------------------
(* The job, and the answer                                                 *)

Job == /\ Compile \/ Flatten \/ Tokenizing \/ Take \/ EndOfEncoding \/ Gather \/ Score \/ Split
       /\ UNCHANGED outside

\* build_response(): an answer that cannot be computed, or breaks an invariant, is a 500.
Respond ==
  LET payload == Payload(bundle.public_id, bundle.temperature)
      computed == ValueError \notin ToSet(ValuesOf(payload.answers))
  IN /\ stage = "split" /\ ~More
     /\ IF computed /\ InvariantsHold(payload)
          THEN response' = payload /\ stage' = "answered" /\ UNCHANGED refusal
          ELSE Inexplicable /\ UNCHANGED response
     /\ UNCHANGED <<request, budget, compiled, at, flat, marks, encoded, taken, offset, total,
                    sent, logits, grouped, backend>>
     /\ UNCHANGED <<intake, settings, call, received, bundle>>

PathNext == StartServer \/ Receive \/ ReadChunk \/ Handle \/ Job \/ Respond

PathSpec == PathInit /\ [][PathNext]_pathvars

-----------------------------------------------------------------------------
(* Properties                                                              *)

Ended == stage \in {"answered", "over"}

(* The lists and offsets of the job stay within each other; a request ends with a refusal
   or with a body, never with both. *)
PathTypeOK ==
  /\ stage \in Stages /\ backend \in Behaviours
  /\ stage = "compile" => Askable(request)
  /\ intake \in {"starting", "down", "listening", "reading", "handled"}
  /\ at \in 1..(Len(compiled) + 1) /\ Len(marks) <= Len(compiled)
  /\ offset \in 0..Len(flat) /\ Len(encoded) \in {0, Len(flat)}
  /\ Len(sent) <= Len(encoded) /\ Len(logits) \in {0, Len(sent)}
  /\ total \in Nat /\ received \in Nat
  /\ (refusal # Nothing) = (stage = "over")
  /\ (response # None) = (stage = "answered")

\* What is wrong with a request, in the order the documentation of routes.py gives.
Size == received + SumFunction(call.chunks)
WellWritten(body) ==
  /\ body.bytes = "plain"
  /\ \A part \in Parts(body.value) : ~(RepeatsAKey(part) \/ NotANumber(part) \/ Unpaired(part))
Nested(body) == \E v \in Layer(body.value, MaxDepth) : v.kind \in {"array", "object"}

FirstFault ==
  LET body == call.body
      model == Get(body.value, <<"model">>).text
  IN IF ~Authentic(call) THEN "unauthorized"
     ELSE IF ~JsonMediaType(call) THEN "unsupported_media_type"
     ELSE IF call.declared > MaxBodyBytes \/ Size > MaxBodyBytes THEN "request_too_large"
     ELSE IF body.bytes \in {"bom", "latin-1"} THEN "invalid_json"
     ELSE IF Nested(body) THEN "validation_error"
     ELSE IF ~WellWritten(body) THEN "invalid_json"
     ELSE IF ~RequestSchema(body.value, settings.unknown_top_level_fields) THEN "validation_error"
     ELSE IF Resolve(settings, model) = {} THEN "model_not_found"
     ELSE "none"

\* A path leads to a value of the body, or to a field that is missing from one.
Inner(value, key) ==
  IF value.kind = "array"
    THEN value.members[CHOOSE i \in DOMAIN value.members : key = Digits(i - 1)]
    ELSE Get(value, key)
Leads(value, path) ==
  LET reached[n \in 0..(Len(path) - 1)] ==
        IF n = 0 THEN value ELSE Inner(reached[n - 1], path[n])
  IN path = <<>> \/ reached[Len(path) - 1].kind \in {"object", "array"}

\* Its location names a type only if that is the type of the question it leads to.
NamesItsType(value, fault) ==
  Len(Location(fault)) > Len(fault.path) + 1 =>
    Get(Get(Get(value, <<"questions">>), fault.path[2]), <<"type">>).text = Location(fault)[4]

(* A request is refused before the model for what is wrong with it, and for the first thing
   in the documented order; nothing else is refused there. The checks of the code are the
   scan of the raw text and the validator, those of the property the nesting of the value
   and the published schema. The error points into the body, and names the type of a
   question only where the question has it. Deep nesting is told before other faults of
   the JSON (section 4 of the README). *)
RefusedForFirstFault ==
  /\ stage = "over" /\ intake = "handled" /\ request = Nobody =>
       /\ refusal.code \in {FirstFault} \cup (IF FirstFault = "none" THEN {"model_unavailable"}
                                              ELSE {})
       /\ refusal.code = "validation_error" => Leads(call.body.value, refusal.path)
       /\ NamesItsType(call.body.value, refusal)
  /\ stage = "compile" => FirstFault = "none"

\* What the caller asked for, without regard to any order: the pair for one option.
PairFor(q, key) ==
  [premise |-> Render(request.state),
   hypothesis |-> Hypothesis(Instruction(q),
     CASE q.type = "noul" -> NoulSide(q, key[1])
       [] q.type = "choice" -> ChoiceCandidate(q, key)
       [] q.type = "score" -> Render((CHOOSE c \in ToSet(q.criteria) : c.key = key).entry))]
TokensOf(q, key) == Len(Encode(PairFor(q, key)))
Keys(q) == ToSet(AsWritten(q))
TokensInAll ==
  SumFunction([q \in DOMAIN request.questions |->
    SumFunction([key \in Keys(request.questions[q]) |-> TokensOf(request.questions[q], key)])])
OverTokens(sequence, all) ==
  \/ TokensInAll > all
  \/ \E q \in ToSet(request.questions) : \E key \in Keys(q) : TokensOf(q, key) > sequence
SequencesInAll ==
  SumFunction([q \in DOMAIN request.questions |-> Cardinality(Keys(request.questions[q]))])

(* What reaches the model, whole and untruncated, is within the limits of the operator as
   well as those of the bundle and its model; what is refused as too long is past the
   bundle's token limits or past a gate that is there to spare the tokenizer. *)
WithinBudget ==
  /\ stage = "split" /\ at = 1 =>
       /\ ~OverTokens(settings.max_sequence_tokens, settings.max_request_tokens)
       /\ ~OverTokens(bundle.max_sequence_tokens, bundle.max_request_tokens)
       /\ bundle.model_max_sequence_tokens # NoLimit =>
            \A i \in DOMAIN sent : Len(sent[i]) <= bundle.model_max_sequence_tokens
       /\ total = TokensInAll
  /\ refusal.code = "context_length_exceeded" =>
       \/ OverTokens(bundle.max_sequence_tokens, bundle.max_request_tokens)
       \/ PastCeiling(request, EffectiveMaxRequestChars(settings)) # {}
       \/ SequencesInAll * MinTokensPerSequence > bundle.max_request_tokens

\* The answer that the model's word on each option calls for: the softmax of what it says.
Says(q) ==
  [key \in Keys(q) |-> IF backend = "ties" THEN 0 ELSE Logit(Encode(PairFor(q, key)))]
Shares(says, t) ==
  LET Part(key) == Weight(t, Max({says[other] : other \in DOMAIN says}) - says[key]) IN
  [key \in DOMAIN says |->
    [part |-> Part(key), whole |-> SumFunction([other \in DOMAIN says |-> Part(other)])]]

DistributionFollows(answer, q, share) ==
  answer.probabilities
    = [k \in DOMAIN q.criteria |-> [key |-> AsWritten(q)[k], value |-> share[AsWritten(q)[k]]]]
AnswerFollows(answer, q, share) ==
  CASE q.type = "noul" -> answer.noul = share[<<"true">>]
    [] q.type = "choice" ->
         /\ DistributionFollows(answer, q, share)
         /\ \A key \in DOMAIN share \ {answer.choice} :
              \/ share[answer.choice].part > share[key].part
              \/ share[answer.choice].part = share[key].part /\ Before(answer.choice, key)
    [] q.type = "score" ->
         /\ DistributionFollows(answer, q, share)
         /\ answer.score.part
              = SumFunction([k \in DOMAIN q.criteria |-> (k - 1) * share[Digits(k - 1)].part])
         /\ ValuesOf(answer.legend) = [k \in DOMAIN q.criteria |-> q.criteria[k].entry]

(* A 200 answers what was asked: each question under its ID, each option in the caller's
   order with the probability the model gives to that option's text, the most probable one
   chosen, of equals the first by code point; under the name of the bundle that did it, which
   is the one asked for or the one the alias stands for. Sorting the options for the model
   leaves no trace. *)
AnswersFollowOptions ==
  response # None =>
    /\ response.model = bundle.public_id
    /\ \/ request.model = bundle.public_id
       \/ \E a \in ToSet(settings.aliases) :
            a.alias = request.model /\ a.target = bundle.public_id
    /\ KeysOf(response.answers) = [q \in DOMAIN request.questions |-> request.questions[q].id]
    /\ \A q \in DOMAIN request.questions :
         LET asked == request.questions[q] IN
         AnswerFollows(response.answers[q].value, asked,
                       Shares(Says(asked), bundle.temperature[asked.type]))
    /\ response.usage.input_tokens = TokensInAll

(* A 500 is the backend's doing, and a backend that breaks its contract never makes a
   200: no text of a caller, and no order or number of options, turns one into the other. *)
OnlyBackendFaults500 ==
  Ended => (refusal.status = 500 <=> backend \in Broken)

(* "The gate only ever fires on requests the token budget would refuse anyway"
   (config.py:58-60): with the ceiling that is derived from the token limit, too many
   characters means too many tokens. *)
GateFiresOnlyOverBudget ==
  /\ stage = "over" /\ request # Nobody /\ settings.max_request_chars = NoLimit
  /\ PastCeiling(request, budget.chars) # {}
  => OverTokens(bundle.max_sequence_tokens, bundle.max_request_tokens)
=============================================================================
