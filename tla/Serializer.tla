----------------------------- MODULE Serializer -----------------------------
(***************************************************************************)
(* serializer-nli-v1 (jevbert/compiler): a validated request becomes one   *)
(* premise and hypothesis per candidate, these become token sequences that *)
(* are held to the limits, and the values of the model go back to the      *)
(* questions they came from. The flat list is made, cut, gathered and cut  *)
(* again in loops with offsets of their own; one round is one step.        *)
(*                                                                         *)
(* A JSON value is [kind, text, members]: the text of a string or literal, *)
(* the members of an array or (key, value) of an object. Keys are texts.   *)
(***************************************************************************)
EXTENDS Tokens

CONSTANTS
  CanonicalJson(_),  \* compiler/normalize.py: the sorted JSON text of an array or object
  Point,             \* the order of pieces by code point
  Logit(_),          \* what the model says of a sequence (external)
  NotFinite,         \* nan and the infinities among the logits
  Requests, Budgets  \* what compile_and_encode() may be called with

ASSUME PointAssumption ==
  /\ \A a, b \in DOMAIN Point : Point[a] \in Int /\ (Point[a] = Point[b] => a = b)
  /\ DOMAIN Point \cap DOMAIN Spelling = {}

\* The pieces of the templates.
ASSUME TemplatesAssumption ==
  {"The answer to the question is", "yes", "no", ".", ":", "-"} \cap DOMAIN Spelling = {}

VARIABLES
  stage,     \* how far the request has come
  request,   \* the ValidatedRequest
  budget,    \* max_request_chars and the bundle's TokenBudget
  compiled,  \* CompiledRequest.questions
  at,        \* the question that the loop at hand has come to
  flat,      \* the pairs of all questions
  marks,     \* history: where the pairs of each question begin in flat
  encoded,   \* what count_and_encode() returned
  taken,     \* EncodedQuestion.sequences, question by question
  offset,    \* of encode_request(), then of split_by_question()
  total,     \* EncodedRequest.total_tokens
  sent,      \* all_sequences(): what score() gets
  logits,    \* what it returned
  grouped,   \* split_by_question()
  backend,   \* history: how the backend behaved
  refusal    \* why there is no 200

serializer == <<stage, request, budget, compiled, at, flat, marks, encoded, taken,
                offset, total, sent, logits, grouped, backend, refusal>>

Stages == {"idle", "compile", "flatten", "take", "gather", "split", "answered", "over"}
Behaviours == {"sound", "ties", "short", "not finite", "raises"}
Broken == {"short", "not finite", "raises"}

Nobody == [questions |-> <<>>]
Nothing == [status |-> 0, code |-> "", path |-> <<>>, tag |-> ""]

SerializerInit ==
  /\ stage = "idle" /\ request = Nobody /\ refusal = Nothing /\ backend = "sound"
  /\ budget = [chars |-> 0, sequence |-> 0, request |-> 0]
  /\ compiled = <<>> /\ at = 1 /\ flat = <<>> /\ marks = <<>> /\ encoded = <<>> /\ taken = <<>>
  /\ offset = 0 /\ total = 0 /\ sent = <<>> /\ logits = <<>> /\ grouped = <<>>

\* The error the handler ends with.
Refuse(status, code, path, tag) ==
  /\ stage' = "over"
  /\ refusal' = [status |-> status, code |-> code, path |-> path, tag |-> tag]

TooLong(path) == Refuse(422, "context_length_exceeded", path, "")
Inexplicable == Refuse(500, "inference_error", <<>>, "")

-----------------------------------------------------------------------------
(* compile_request()                                                       *)

Null == [kind |-> "null", text |-> <<"null">>, members |-> <<>>]

Render(content) == IF content.kind = "string" THEN content.text ELSE CanonicalJson(content)

NoulDefault(side) == <<"The answer to the question is", Space, side, ".">>
NoulSide(q, side) ==
  LET given == CHOOSE c \in ToSet(q.criteria) : c.key = <<side>> IN
  IF given.entry = Null THEN NoulDefault(IF side = "true" THEN "yes" ELSE "no")
  ELSE Render(given.entry)

\* Python compares strings by code point, a prefix before what continues it.
Before(s, t) ==
  \E n \in 0..Len(s) :
    /\ n <= Len(t) /\ SubSeq(s, 1, n) = SubSeq(t, 1, n)
    /\ n < Len(t) /\ (n < Len(s) => Point[s[n + 1]] < Point[t[n + 1]])
SortedKeys(keys) ==
  [i \in 1..Cardinality(keys) |->
    CHOOSE key \in keys : Cardinality({other \in keys : Before(other, key)}) = i - 1]

\* A null description means the key alone names the option.
ChoiceCandidate(q, key) ==
  LET given == CHOOSE c \in ToSet(q.criteria) : c.key = key IN
  IF given.entry = Null THEN key ELSE key \o <<":", Space>> \o Render(given.entry)

\* What validate_request() lets through.
AsWritten(q) == [i \in DOMAIN q.criteria |-> q.criteria[i].key]
IsText(content) == IsSequence(Render(content))
AskableQuestion(q) ==
  /\ IsSequence(q.criteria)
  /\ q.instructions # Null => IsText(q.instructions)
  /\ \A i \in DOMAIN q.criteria : q.type = "score" \/ q.criteria[i].entry # Null =>
                                   IsText(q.criteria[i].entry)
  /\ \/ q.type = "noul" /\ AsWritten(q) = <<<<"true">>, <<"false">>>>
     \/ q.type = "choice" /\ ToSet(AsWritten(q)) \subseteq Seq(DOMAIN Point)
     \/ q.type = "score" /\ IsInjective(AsWritten(q))
Askable(r) ==
  /\ IsText(r.state) /\ IsSequence(r.questions) /\ Len(r.questions) > 0
  /\ \A i \in DOMAIN r.questions : AskableQuestion(r.questions[i])

ASSUME RequestsAssumption == \A r \in Requests : Askable(r)

\* The keys in the order the model is asked in.
NoulOptionOrder == <<<<"false">>, <<"true">>>>
OptionKeys(q) ==
  CASE q.type = "noul" -> NoulOptionOrder
    [] q.type = "choice" -> SortedKeys(ToSet(AsWritten(q)))
    [] q.type = "score" -> AsWritten(q)

Candidates(q) ==
  CASE q.type = "noul" -> <<NoulSide(q, "false"), NoulSide(q, "true")>>
    [] q.type = "choice" -> [k \in DOMAIN OptionKeys(q) |-> ChoiceCandidate(q, OptionKeys(q)[k])]
    [] q.type = "score" -> [k \in DOMAIN q.criteria |-> Render(q.criteria[k].entry)]

\* None and an instruction that renders to nothing are the same.
Instruction(q) == IF q.instructions = Null THEN <<>> ELSE Render(q.instructions)

\* nli-template-v1
Hypothesis(instruction, candidate) ==
  IF instruction = <<>> THEN candidate
  ELSE instruction \o <<Space, "-", Space>> \o candidate

Expand(q, premise) ==
  [id |-> q.id, type |-> q.type, option_keys |-> OptionKeys(q),
   output_keys |-> IF q.type = "noul" THEN NoulOptionOrder ELSE AsWritten(q),
   pairs |-> [k \in DOMAIN Candidates(q) |->
               [premise |-> premise,
                hypothesis |-> Hypothesis(Instruction(q), Candidates(q)[k])]],
   legend |-> IF q.type # "score" THEN <<>>
              ELSE [k \in DOMAIN q.criteria |-> q.criteria[k].entry]]

\* The questions at which the running total of characters is past the ceiling. What the
\* template puts between instruction and candidate is not counted.
CharsOf(q, premise) ==
  LET candidates == Candidates(q) IN
  (Chars(premise) + Chars(Instruction(q))) * Len(candidates)
    + MapThenSumSet(LAMBDA k : Chars(candidates[k]), DOMAIN candidates)
PastCeiling(r, ceiling) ==
  LET premise == Render(r.state)
      Total(q) == MapThenSumSet(LAMBDA p : CharsOf(r.questions[p], premise), 1..q)
  IN {q \in DOMAIN r.questions : Total(q) > ceiling}

\* compile_and_encode() is called on the encoder thread.
Begin(r, b) ==
  /\ stage = "idle" /\ stage' = "compile"
  /\ request' = r /\ budget' = b
  /\ UNCHANGED <<compiled, at, flat, marks, encoded, taken, offset, total, sent, logits,
                 grouped, backend, refusal>>

Compile ==
  LET past == PastCeiling(request, budget.chars) IN
  /\ stage = "compile"
  /\ \/ /\ past # {}
        /\ TooLong(<<<<"questions">>, request.questions[Min(past)].id>>)
        /\ UNCHANGED compiled
     \/ /\ past = {} /\ stage' = "flatten" /\ UNCHANGED refusal
        /\ compiled' = [q \in DOMAIN request.questions |->
                         Expand(request.questions[q], Render(request.state))]
  /\ UNCHANGED <<request, budget, at, flat, marks, encoded, taken, offset, total, sent,
                 logits, grouped, backend>>

-----------------------------------------------------------------------------
(* encode_request()                                                        *)

More == at <= Len(compiled)

\* The list of all pairs.
Flatten ==
  /\ stage = "flatten" /\ More
  /\ marks' = Append(marks, Len(flat))
  /\ flat' = flat \o compiled[at].pairs /\ at' = at + 1
  /\ UNCHANGED <<stage, request, budget, compiled, encoded, taken, offset, total, sent, logits,
                 grouped, backend, refusal>>

\* Four control tokens and one of data.
MinTokensPerSequence == 5
MaxSequences == budget.request \div MinTokensPerSequence

\* Too many are refused untokenized; a pair that cannot be encoded raises ValueError.
Tokenizing ==
  LET sequences == [i \in 1..Len(flat) |-> Encode(flat[i])] IN
  /\ stage = "flatten" /\ ~More
  /\ \/ /\ Len(flat) > MaxSequences
        /\ TooLong(<<>>) /\ UNCHANGED <<at, encoded, backend>>
     \/ /\ Len(flat) <= MaxSequences
        /\ \/ backend' \in {"short", "raises"}
           \/ UNCHANGED backend /\ \E i \in 1..Len(flat) : sequences[i] = NotEncoded
        /\ Inexplicable /\ UNCHANGED <<at, encoded>>
     \/ /\ Len(flat) <= MaxSequences
        /\ \A i \in 1..Len(flat) : sequences[i] # NotEncoded
        /\ encoded' = sequences /\ at' = 1 /\ stage' = "take"
        /\ UNCHANGED <<backend, refusal>>
  /\ UNCHANGED <<request, budget, compiled, flat, marks, taken, offset, total, sent, logits,
                 grouped>>

\* A Python slice: what lies beyond the end is left out.
Slice(s, from, to) == SubSeq(s, from + 1, IF to < Len(s) THEN to ELSE Len(s))

\* One question: its part of the list, each sequence within max_sequence_tokens.
TooLongToEncode(sequences) ==
  \E i \in DOMAIN sequences : Len(sequences[i]) > budget.sequence

Take ==
  LET count == Len(compiled[at].pairs)
      sequences == Slice(encoded, offset, offset + count)
  IN /\ stage = "take" /\ More
     /\ \/ /\ TooLongToEncode(sequences)
           /\ TooLong(<<<<"questions">>, compiled[at].id>>)
           /\ UNCHANGED <<at, taken, offset, total>>
        \/ /\ ~TooLongToEncode(sequences)
           /\ taken' = Append(taken, sequences) /\ at' = at + 1
           /\ offset' = offset + count
           /\ total' = total + SumFunction([i \in DOMAIN sequences |-> Len(sequences[i])])
           /\ UNCHANGED <<stage, refusal>>
     /\ UNCHANGED <<request, budget, compiled, flat, marks, encoded, sent, logits, grouped,
                    backend>>

EndOfEncoding ==
  /\ stage = "take" /\ ~More
  /\ \/ total > budget.request /\ TooLong(<<>>) /\ UNCHANGED at
     \/ total <= budget.request /\ stage' = "gather" /\ at' = 1 /\ UNCHANGED refusal
  /\ UNCHANGED <<request, budget, compiled, flat, marks, encoded, taken, offset, total, sent,
                 logits, grouped, backend>>

-----------------------------------------------------------------------------
(* all_sequences(), the call of score(), split_by_question()               *)

Gather ==
  /\ stage = "gather" /\ More
  /\ sent' = sent \o taken[at] /\ at' = at + 1
  /\ UNCHANGED <<stage, request, budget, compiled, flat, marks, encoded, taken, offset, total,
                 logits, grouped, backend, refusal>>

\* "ties": the model cannot tell the sequences apart.
Score ==
  /\ stage = "gather" /\ ~More
  /\ \/ /\ backend' \in {"short", "raises"} /\ Inexplicable
        /\ UNCHANGED <<at, offset, logits>>
     \/ /\ \/ backend' = "sound" /\ logits' = [i \in 1..Len(sent) |-> Logit(sent[i])]
           \/ backend' = "ties" /\ logits' = [i \in 1..Len(sent) |-> 0]
           \/ /\ backend' = "not finite"
              /\ logits' = [i \in 1..Len(sent) |-> IF i = Len(sent) THEN NotFinite ELSE 0]
        /\ stage' = "split" /\ at' = 1 /\ offset' = 0 /\ UNCHANGED refusal
  /\ UNCHANGED <<request, budget, compiled, flat, marks, encoded, taken, total, sent, grouped>>

\* One question: the offset has gone past the questions before it.
OneMore(q) == Len(taken[q]) + 1    \* mutant: the bound is taken for inclusive
Count(q) == Len(taken[q])
Split ==
  /\ stage = "split" /\ More
  /\ grouped' = Append(grouped, Slice(logits, offset, offset + Len(taken[at])))
  /\ offset' = offset + Count(at) /\ at' = at + 1
  /\ UNCHANGED <<stage, request, budget, compiled, flat, marks, encoded, taken, total, sent,
                 logits, backend, refusal>>

SerializerNext ==
  \/ \E r \in Requests, b \in Budgets : Begin(r, b)
  \/ Compile \/ Flatten \/ Tokenizing \/ Take \/ EndOfEncoding
  \/ Gather \/ Score \/ Split

SerializerSpec == SerializerInit /\ [][SerializerNext]_serializer

-----------------------------------------------------------------------------
(* Properties                                                              *)

(* A value goes back to the question and the option it was computed for: what stands at
   option k of question q is what the model says of the pair that was compiled for it,
   although the list was cut twice and joined twice in between. *)
EachToItsOwn ==
  stage = "split" /\ ~More /\ backend = "sound" =>
    \A q \in DOMAIN compiled :
      grouped[q] = [k \in 1..Len(compiled[q].pairs) |-> Logit(Encode(compiled[q].pairs[k]))]

(* What score() gets is whole: no sequence is longer than the limit, so none has to be
   truncated. *)
NothingToTruncate ==
  stage \in {"gather", "split"} => \A i \in 1..Len(sent) : ~(Len(sent[i]) > budget.sequence)

(* A caller's text cannot write control tokens: whatever it spells, and in whatever
   characters, the model is given the four control tokens of the assembly and between them
   what the tokenizer reads in the two texts. *)
ControlStaysOut ==
  stage = "take" /\ at = 1 =>
    \A i \in DOMAIN encoded : \E n \in 0..(Len(encoded[i]) - 4) :
      LET premise == SubSeq(encoded[i], 2, n + 1)
          hypothesis == SubSeq(encoded[i], n + 4, Len(encoded[i]) - 1)
      IN /\ encoded[i] = Assemble(premise, hypothesis)
         /\ Reads(premise, flat[i].premise) /\ Reads(hypothesis, flat[i].hypothesis)
=============================================================================
