------------------------------- MODULE Bundles -------------------------------
(***************************************************************************)
(* How a server starts: the preconditions of jevbert/config.py, and        *)
(* build_registry(), _check_manifest_against_limits() and ModelRegistry of *)
(* jevbert/inference/registry.py. What raises ConfigurationError is not    *)
(* startable. The files of a manifest are the subject of ModelFiles.       *)
(***************************************************************************)
EXTENDS Integers, SequencesExt

CONSTANTS KeyLength,      \* the length of each API key
          FakeManifest    \* the manifest of the fake bundle

MinApiKeyLength == 32
NoLimit == 0
Template == "nli-template-v1"
ComputeDtypes == {"auto", "float32", "float16", "bfloat16"}
FakeBackend == "fake"
NliBackend == "nli"

\* parse_api_keys()
ApiKeys(settings) == SelectSeq(settings.keys, LAMBDA key : key # "")

EffectiveMaxRequestChars(settings) ==
  IF settings.max_request_chars # NoLimit THEN settings.max_request_chars
  ELSE 4 * settings.max_request_tokens

\* _check_startup_preconditions()
PreconditionsHold(settings) ==
  /\ ApiKeys(settings) # <<>>
  /\ \A key \in ToSet(ApiKeys(settings)) : KeyLength[key] >= MinApiKeyLength
  /\ settings.max_sequence_tokens <= settings.max_request_tokens
  /\ settings.aliases # <<>> => settings.allow_jev_aliases

\* _check_manifest_against_limits()
RequestLimitIgnored(manifest, settings) ==    \* mutant: one of the two names is left out
  /\ manifest.max_sequence_tokens <= manifest.max_request_tokens
  /\ manifest.max_sequence_tokens <= settings.max_sequence_tokens
NarrowsOnly(manifest, settings) ==
  /\ manifest.max_sequence_tokens <= manifest.max_request_tokens
  /\ manifest.max_sequence_tokens <= settings.max_sequence_tokens
  /\ manifest.max_request_tokens <= settings.max_request_tokens
FitsTheServer(manifest, settings) ==
  /\ NarrowsOnly(manifest, settings)
  /\ manifest.model_max_sequence_tokens # NoLimit =>
       manifest.max_sequence_tokens <= manifest.model_max_sequence_tokens
  /\ manifest.template = Template
  /\ manifest.dtype \in ComputeDtypes \cup {"not-applicable"}
  /\ manifest.confidence = "normalized-entropy-v1"
  /\ \A type \in {"noul", "choice", "score"} :
       type \in DOMAIN manifest.temperature /\ manifest.temperature[type] > 0

\* build_backend(), as far as the manifest decides.
CanBeBuilt(manifest) ==
  \/ manifest.backend = FakeBackend
  \/ manifest.backend = NliBackend /\ manifest.dtype \in ComputeDtypes

\* The manifests that are to be registered.
Registered(settings) ==
  IF settings.enable_fake_bundle /\ FakeManifest \notin ToSet(settings.bundles)
    THEN Append(settings.bundles, FakeManifest) ELSE settings.bundles

Aliases(settings) == IF settings.allow_jev_aliases THEN settings.aliases ELSE <<>>

\* ModelRegistry.__init__()
NamesAreClear(manifests, aliases) ==
  LET ids == {m.public_id : m \in ToSet(manifests)} IN
  /\ Cardinality(ids) = Len(manifests)
  /\ \A i \in DOMAIN aliases : aliases[i].target \in ids /\ aliases[i].alias \notin ids

Startable(settings) ==
  LET manifests == Registered(settings) IN
  /\ PreconditionsHold(settings)
  /\ manifests # <<>>
  /\ \A manifest \in ToSet(manifests) :
       /\ manifest.backend = FakeBackend => settings.enable_fake_bundle
       /\ FitsTheServer(manifest, settings)
       /\ CanBeBuilt(manifest)
  /\ NamesAreClear(manifests, Aliases(settings))

\* resolve(): the manifest of the bundle a name stands for, if there is one.
Named(settings, id) == {m \in ToSet(Registered(settings)) : m.public_id = id}
Resolve(settings, name) ==
  IF Named(settings, name) # {} THEN Named(settings, name)
  ELSE UNION {Named(settings, a.target) : a \in {b \in ToSet(Aliases(settings)) : b.alias = name}}
=============================================================================
