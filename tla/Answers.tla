------------------------------ MODULE Answers ------------------------------
(***************************************************************************)
(* From logits to the body of a 200 (jevbert/scoring/numeric.py and        *)
(* jevbert/contracts/response.py). A probability is a part of a whole; the *)
(* exponential is the table Exp: what a logit that is gap below the        *)
(* largest weighs at a temperature, 0 where it underflows. Distinct gaps   *)
(* may weigh the same, as they do in floating point.                       *)
(*                                                                         *)
(* A JSON object whose order matters is the sequence of its pairs.         *)
(***************************************************************************)
EXTENDS Serializer

CONSTANT Exp

ASSUME ExpAssumption ==
  \A t \in DOMAIN Exp :
    /\ t \in Nat /\ 0 \in DOMAIN Exp[t] /\ Exp[t][0] > 0
    /\ \A g, h \in DOMAIN Exp[t] : Exp[t][h] \in Nat /\ (g <= h => Exp[t][g] >= Exp[t][h])

\* What a function returns that raises ValueError.
ValueError == <<>>

Weight(t, gap) == IF gap \in DOMAIN Exp[t] THEN Exp[t][gap] ELSE 0

\* probabilities_from_logits()
Centered(values, t, i) == Weight(t, Max(ToSet(values)) - values[i])
Probabilities(values, t) ==
  IF Len(values) < 2 \/ t <= 0 \/ NotFinite \in ToSet(values) THEN ValueError
  ELSE LET whole == SumFunction([i \in DOMAIN values |-> Centered(values, t, i)])
       IN [i \in DOMAIN values |-> [part |-> Centered(values, t, i), whole |-> whole]]

\* normalized_entropy_confidence(): the order of the probabilities does not count.
Confidence(probabilities) ==
  [p \in ToSet(probabilities) |->
    Cardinality({i \in DOMAIN probabilities : probabilities[i] = p})]

\* expected_score()
ExpectedScore(probabilities) ==
  IF Len(probabilities) > 10 THEN ValueError
  ELSE [part |-> SumFunction([i \in DOMAIN probabilities |-> (i - 1) * probabilities[i].part]),
        whole |-> probabilities[1].whole]

Value(object, key) == object[CHOOSE i \in DOMAIN object : object[i].key = key].value
KeysOf(object) == [i \in DOMAIN object |-> object[i].key]
ValuesOf(object) == [i \in DOMAIN object |-> object[i].value]

\* select_choice(): the largest; of equals, the first by code point.
LastOfEquals(object) ==    \* mutant: >= in the search
  LET keys == SortedKeys(ToSet(KeysOf(object)))
      Best(i) == \A j \in DOMAIN keys : Value(object, keys[j]).part <= Value(object, keys[i]).part
  IN keys[CHOOSE i \in DOMAIN keys : Best(i) /\ \A j \in (i + 1)..Len(keys) : ~Best(j)]
SelectChoice(object) ==
  LET keys == SortedKeys(ToSet(KeysOf(object)))
      Best(i) == \A j \in DOMAIN keys : Value(object, keys[j]).part <= Value(object, keys[i]).part
  IN keys[CHOOSE i \in DOMAIN keys : Best(i) /\ \A j \in 1..(i - 1) : ~Best(j)]

Digits(n) == <<ToString(n)>>

-----------------------------------------------------------------------------
(* _build_answer() and build_response()                                    *)

\* The probabilities in the order the caller gave the options in.
ModelOrder(c, by_key) == by_key    \* mutant: in the order the model was asked in
WireOrder(c, by_key) ==
  [k \in DOMAIN c.output_keys |->
    [key |-> c.output_keys[k], value |-> Value(by_key, c.output_keys[k])]]

BuildAnswer(c, values, t) ==
  LET p == Probabilities(values, t)
      by_key == [k \in DOMAIN p |-> [key |-> c.option_keys[k], value |-> p[k]]]
      by_level == [k \in DOMAIN p |-> [key |-> Digits(k - 1), value |-> p[k]]]
  IN CASE p = ValueError -> ValueError
       [] p # ValueError /\ c.type = "noul" -> [type |-> "noul", noul |-> p[2]]
       [] p # ValueError /\ c.type = "choice" ->
            [type |-> "choice", choice |-> SelectChoice(by_key),
             probabilities |-> WireOrder(c, by_key), confidence |-> Confidence(p)]
       [] p # ValueError /\ c.type = "score" ->
            [type |-> "score", score |-> ExpectedScore(p),
             legend |-> [k \in DOMAIN c.legend |->
                          [key |-> Digits(k - 1), value |-> c.legend[k]]],
             probabilities |-> by_level, confidence |-> Confidence(p)]

Payload(model, temperatures) ==
  [model |-> model,
   answers |-> [q \in DOMAIN compiled |->
                 [key |-> compiled[q].id,
                  value |-> BuildAnswer(compiled[q], grouped[q],
                                        temperatures[compiled[q].type])]],
   usage |-> [input_tokens |-> total, output_tokens |-> 0]]

-----------------------------------------------------------------------------
(* verify_invariants(): I01 to I09                                         *)

AnswerFields(type) ==
  CASE type = "noul" -> {"type", "noul"}
    [] type = "choice" -> {"type", "choice", "probabilities", "confidence"}
    [] type = "score" -> {"type", "score", "legend", "probabilities", "confidence"}

IsProbability(p) == p.part \in 0..p.whole

DistributionHolds(answer, c) ==
  LET p == ValuesOf(answer.probabilities) IN
  /\ KeysOf(answer.probabilities) = c.output_keys
  /\ \A k \in DOMAIN p : IsProbability(p[k])
  /\ SumFunction([k \in DOMAIN p |-> p[k].part]) = p[1].whole
  /\ answer.confidence = Confidence(p)

ChoiceHolds(answer) == answer.choice = SelectChoice(answer.probabilities)

ScoreHolds(answer, c) ==
  /\ answer.score = ExpectedScore(ValuesOf(answer.probabilities))
  /\ answer.score.part \in 0..((Len(answer.probabilities) - 1) * answer.score.whole)
  /\ KeysOf(answer.legend) = c.output_keys
  /\ ValuesOf(answer.legend) = c.legend

AnswerHolds(answer, c) ==
  /\ answer.type = c.type /\ DOMAIN answer = AnswerFields(c.type)
  /\ c.type = "noul" => IsProbability(answer.noul)
  /\ c.type # "noul" => DistributionHolds(answer, c)
  /\ c.type = "choice" => ChoiceHolds(answer)
  /\ c.type = "score" => ScoreHolds(answer, c)

InvariantsHold(payload) ==
  /\ DOMAIN payload = {"model", "answers", "usage"}
  /\ ToSet(KeysOf(payload.answers)) = {compiled[q].id : q \in DOMAIN compiled}
  /\ \A q \in DOMAIN compiled : AnswerHolds(Value(payload.answers, compiled[q].id), compiled[q])
  /\ DOMAIN payload.usage = {"input_tokens", "output_tokens"}
  /\ payload.usage.input_tokens = total /\ payload.usage.output_tokens = 0
=============================================================================
