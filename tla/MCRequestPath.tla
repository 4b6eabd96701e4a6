--------------------------- MODULE MCRequestPath ---------------------------
(***************************************************************************)
(* A small instance of RequestPath for TLC: a tokenizer, configurations of *)
(* a server, and the requests a caller may make of a few words.            *)
(***************************************************************************)
EXTENDS RequestPath, JsonText

-----------------------------------------------------------------------------
(* The tokenizer and the model                                             *)

SpecialTokens ==
  [bos |-> <<"<", "s", ">">>, eos |-> <<"<", "/", "s", ">">>,
   pad_id |-> <<"<", "pad", ">">>, unk_id |-> <<"<", "unk", ">">>]
\* A full-width angle, a control character that is deleted, a ligature, a half-width syllable;
\* with its sound mark that is another one, and two characters only together become an angle.
Folding == "wide <" :> <<"<">> @@ "control" :> <<>> @@ "ae" :> <<"a", "e">>
             @@ "half ha" :> <<"ha">> @@ "half" :> <<"h">>
JointFolding == <<"half", "angle">> :> <<"<">> @@ <<"half ha", "voiced">> :> <<"ba">>
Widths == [responsibility |-> 14] @@ "The answer to the question is" :> 29
            @@ [yes |-> 3, no |-> 2]
\* Words stand behind letters.
Letters == [B |-> 1, a |-> 2, b |-> 3, s |-> 4]
Words == <<"true", "false", "type", "criteria", "instructions", "model", "state", "questions",
           "q1", "q2", "q3", "q4", LoneSurrogate>>
CodePoints == Letters @@ [word \in ToSet(Words) |-> 4 + CHOOSE i \in DOMAIN Words : Words[i] = word]

Worth == [a |-> 1, b |-> 3, B |-> 2, yes |-> 1, e |-> 2]
SumOfWorth(ids) == FoldLeft(LAMBDA n, p : n + (IF p \in DOMAIN Worth THEN Worth[p] ELSE 0), 0, ids)
\* At temperature 2 a gap of one is lost in rounding; a gap of four underflows.
Exponentials == 1 :> (0 :> 8 @@ 1 :> 3 @@ 2 :> 1) @@ 2 :> (0 :> 8 @@ 1 :> 8 @@ 2 :> 3 @@ 3 :> 1)

-----------------------------------------------------------------------------
(* JSON                                                                    *)

Str(text) == [kind |-> "string", text |-> text, members |-> <<>>]
Word(w) == Str(<<w>>)
Number == [kind |-> "number", text |-> <<"7">>, members |-> <<>>]
Huge == [kind |-> "number", text |-> <<Infinite>>, members |-> <<>>]
Arr(members) == [kind |-> "array", text |-> <<>>, members |-> members]
Obj(members) == [kind |-> "object", text |-> <<>>, members |-> members]
Field(name, value) == [key |-> <<name>>, value |-> value]

Question(type, more) == Obj(<<Field("type", Word(type))>> \o more)
Noul(criteria) == Question("noul", <<Field("criteria", criteria)>>)
Choice(options) == Question("choice", <<Field("criteria", Obj(options))>>)
Rubric(levels) == Question("score", <<Field("criteria", Arr(levels))>>)
Guided(instructions, question) == Obj(Append(question.members, Field("instructions", instructions)))

Body(model, state, questions) ==
  Obj(<<Field("model", Str(model)), Field("state", state),
        Field("questions", Obj([i \in DOMAIN questions |->
                                 Field(<<"q1", "q2", "q3">>[i], questions[i])]))>>)

Spells(angle) == Str(angle \o <<"s", ">", "a">>)
States ==
  {Str(<<>>), Word("a"), Word("responsibility"),
   Spells(<<"<">>), Spells(<<"wide <", "control">>), Spells(<<"half", "angle", "/">>),
   Spells(<<"half ha", "voiced", "wide <">>),
   Obj(<<Field("b", Word("ae")), Field("a", Arr(<<Number, Null>>))>>),
   Str(<<Quote, "[", "[", "[", "[", "[", "[", Backslash>>)}

Plain == Question("noul", <<>>)
Sided == Guided(Word("a"), Noul(Obj(<<Field("true", Word("b")), Field("false", Null)>>)))
Unsorted == Choice(<<Field("b", Null), Field("B", Word("a")), [key |-> <<"B", "a">>, value |-> Null]>>)
Forged == Guided(Str(<<>>), Choice(<<Field("b", Null), Field("a", Spells(<<"wide <">>))>>))
Levels == Guided(Word("e"), Rubric(<<Word("b"), Arr(<<Word("a")>>), Str(<<>>)>>))
Void == Rubric(<<Str(<<>>), Str(<<>>), Str(<<>>), Str(<<>>)>>)
Asked == {Plain, Sided, Unsorted, Forged, Levels, Void}
QuestionLists == {<<q>> : q \in Asked} \cup (Asked \X {Unsorted, Plain})
                  \cup {<<Levels, Plain, Unsorted>>, <<Plain, Plain, Plain>>}

Models == {<<"nli">>, <<"narrow">>, <<"jev-latest">>}
Understood == {Body(model, state, questions) :
                 model \in Models, state \in States, questions \in QuestionLists}

Good == Body(<<"nli">>, Word("a"), <<Sided>>)
With(field, value) ==
  Obj([i \in DOMAIN Good.members |->
        IF Good.members[i].key = <<field>> THEN Field(field, value) ELSE Good.members[i]])
Without(field) == Obj(SelectSeq(Good.members, LAMBDA m : m.key # <<field>>))
Asking(question) == With("questions", Obj(<<Field("q1", Plain), Field("q2", question)>>))

MisshapenQuestions ==
  {Word("noul"), Arr(<<>>), Obj(<<>>), Question("maybe", <<>>), Question("noul", <<Field("a", Null)>>),
   Guided(Number, Plain), Noul(Arr(<<>>)), Noul(Obj(<<Field("a", Null)>>)),
   Noul(Obj(<<Field("true", Number)>>)), Question("choice", <<>>), Noul(Number),
   Question("choice", <<Field("criteria", Arr(<<>>))>>), Choice(<<Field("a", Null)>>),
   Choice(<<Field("a", Null), Field("b", Number)>>),
   Choice([i \in 1..4 |-> Field(<<"a", "b", "B", "s">>[i], Null)]),
   Question("score", <<>>), Question("score", <<Field("criteria", Null)>>), Rubric(<<Word("a")>>),
   Rubric([i \in 1..5 |-> Word("a")]), Rubric(<<Word("a"), Null>>), Rubric(<<Word("a"), Number>>)}
Misshapen ==
  {Word("a"), Arr(<<>>), Obj(<<>>), Without("model"), Without("state"), Without("questions"),
   With("model", Number), With("model", Str(<<>>)), With("state", Null), With("questions", Arr(<<>>)),
   With("questions", Obj(<<>>)),
   With("questions", Obj([i \in 1..4 |-> Field(<<"q1", "q2", "q3", "q4">>[i], Plain)])),
   Obj(Append(Good.members, Field("b", Null))),
   With("model", Word("jev-1"))}
  \cup {Asking(question) : question \in MisshapenQuestions}
Deep == With("state", Arr(<<Arr(<<Arr(<<Arr(<<Arr(<<>>)>>)>>)>>)>>))
AtTheLimit == With("state", Arr(<<Arr(<<Arr(<<Arr(<<>>)>>)>>)>>))
Forbidden ==
  {Deep, AtTheLimit, With("state", Arr(<<Huge>>)), With("state", Str(<<LoneSurrogate>>)),
   With("state", Obj(<<Field("a", Null), Field("a", Null)>>)),
   With("state", Obj(<<Field(LoneSurrogate, Null)>>)),
   With("questions", Obj(<<Field("q1", Plain), Field("q1", Plain)>>))}

Sent(body) ==
  [scheme |-> "bearer", token |-> "key", media_type |-> "application/json", charset |-> "",
   encoding |-> "", declared |-> -1, chunks |-> <<8>>, body |-> [bytes |-> "plain", value |-> body]]
Post == Sent(Good)
SmallCalls ==
  {Sent(body) : body \in Understood \cup Misshapen \cup Forbidden}
  \cup {[Post EXCEPT !.body = [bytes |-> bytes, value |-> body]] :
          bytes \in Bytes, body \in {Good, Deep}}
  \cup {[Post EXCEPT !.scheme = scheme, !.token = token, !.media_type = type] :
          scheme \in {"", "basic", "bearer"}, token \in {"", "key", "other"},
          type \in {"application/json", "text/plain"}}
  \cup {[Post EXCEPT !.charset = charset, !.encoding = encoding] :
          charset \in {"utf-8", "latin-1"}, encoding \in {"identity", "gzip"}}
  \cup {[Post EXCEPT !.declared = declared, !.chunks = chunks] :
          declared \in {-1, 8, 9}, chunks \in {<<>>, <<4, 4>>, <<4, 4, 1>>}}

WrittenBodies == {c.body.value : c \in SmallCalls}
SmallJson == {part : part \in UNION {Parts(body) : body \in WrittenBodies}}

-----------------------------------------------------------------------------
(* The server                                                              *)

Manifest(id, sequence, all) ==
  [public_id |-> id, backend |-> NliBackend, max_sequence_tokens |-> sequence,
   max_request_tokens |-> all, model_max_sequence_tokens |-> 20, template |-> Template,
   dtype |-> "float32", confidence |-> "normalized-entropy-v1",
   temperature |-> [noul |-> 1, choice |-> 2, score |-> 1]]
Nli == Manifest(<<"nli">>, 16, 60)
Narrow == Manifest(<<"narrow">>, 9, 17)
Fake == [Manifest(<<"fake">>, 9, 17) EXCEPT !.backend = FakeBackend, !.dtype = "not-applicable",
                                            !.model_max_sequence_tokens = NoLimit]
KeyLengths == [key |-> 32, short |-> 31]

Poc ==
  [keys |-> <<"", "key">>, max_sequence_tokens |-> 16, max_request_tokens |-> 60,
   max_request_chars |-> NoLimit, unknown_top_level_fields |-> "ignore",
   enable_fake_bundle |-> FALSE, bundles |-> <<Nli, Narrow>>,
   allow_jev_aliases |-> TRUE,
   aliases |-> <<[alias |-> <<"jev-latest">>, target |-> <<"nli">>]>>]
Only(manifest) == [Poc EXCEPT !.bundles = <<manifest>>, !.aliases = <<>>]
SmallSettings ==
  {Poc, [Poc EXCEPT !.max_request_chars = 120, !.unknown_top_level_fields = "reject",
                    !.enable_fake_bundle = TRUE],
   [Poc EXCEPT !.keys = <<"">>], [Poc EXCEPT !.keys = <<"key", "short">>],
   [Poc EXCEPT !.max_sequence_tokens = 61], [Poc EXCEPT !.max_sequence_tokens = 15],
   [Poc EXCEPT !.max_request_tokens = 40], [Poc EXCEPT !.allow_jev_aliases = FALSE],
   [Poc EXCEPT !.aliases[1].target = <<"jev-1">>], [Poc EXCEPT !.aliases[1].alias = <<"narrow">>],
   [Poc EXCEPT !.bundles = <<Nli, Nli>>], Only(Fake), [Only(Nli) EXCEPT !.bundles = <<>>],
   Only([Nli EXCEPT !.template = "nli-template-v2"]), Only([Nli EXCEPT !.dtype = "not-applicable"]),
   Only([Nli EXCEPT !.dtype = "fp32"]), Only([Nli EXCEPT !.confidence = "other"]),
   Only([Nli EXCEPT !.temperature = [noul |-> 1, choice |-> 0, score |-> 1]]),
   Only([Nli EXCEPT !.temperature = [noul |-> 1, score |-> 1]]),
   Only([Nli EXCEPT !.max_sequence_tokens = 10, !.max_request_tokens = 9]),
   Only([Nli EXCEPT !.model_max_sequence_tokens = 15]), Only([Nli EXCEPT !.backend = "other"])}

SmallRequests == {Validated(body) : body \in Understood \cup {Good, AtTheLimit,
                                      Obj(Append(Good.members, Field("b", Null)))}}
SmallBudgets == {[chars |-> 240, sequence |-> 16, request |-> 60]}
=============================================================================
