# Formal model of JevBERT

JevBERT answers typed questions (`noul`, `choice`, `score`) over HTTP with a zero-shot
NLI model. This directory models two things: the parts of the program whose correctness
depends on the *order* of steps - threads, deadlines, shutdown, batching, resumption - and
the path of one request from its bytes to its answer, where the checks, limits, escapes and
index arithmetic of eight modules have to fit together. TLC checks both on small instances,
and TLAPS proves the central properties for every value of the constants.

## 1. Inventory

Paths are relative to the repository; `J/` stands for `src/jevbert/`.

| component | state it keeps | operations | what makes it correct |
|---|---|---|---|
| inference engine, `J/inference/engine.py` | two single-thread pools, the admission counter `_pending`, per job a future and a cancel token | `start`, `shutdown(wait)`, `run`, `run_encoding`, `run_blocking`, `run_encoding_blocking`, the worker's release | the counter is exact; never more unfinished work than the limit; an abandoned job harms nobody; everyone is answered; stopping never hangs |
| bundle registry, `J/inference/registry.py` | per bundle LOADING / READY / FAILED, aliases | `load`, `load_all`, `resolve`, `is_ready`, `build_registry` | nothing is served before its warmup ran on both workers; a failed bundle stays failed |
| application and request handler, `J/api/app.py`, `routes.py` | the lifespan's loading thread; per request its stage and deadline | lifespan start/stop, `system_one`, `readyz`, `models`, `capabilities` | the documented order of refusals; two engine stages under one deadline |
| request context, auth, errors, `J/api/middleware.py`, `auth.py`, `errors.py` | per request: headers, status, one log record | wrap, authenticate, map exceptions | exactly one status and one log line per request |
| serializer and budgets, `J/compiler/*.py` | per call: the flat list, an offset, a total | expand questions, character and token budgets, flatten / split | no over-budget request is scored; every logit returns to its own question |
| NLI backend, `J/backends/nli.py` | loaded model, counters | `load`, `count_and_encode`, `score` (microbatches) | no text of a caller becomes a control token; each sequence scored once and answered in the request's order |
| contract, `J/contracts/*.py` | none (pure) | strict JSON, validation, response building | a request is refused for its first fault in the documented order; a 200 says what the model said of each option |
| numerics, `J/scoring/numeric.py` | none (pure, floats) | softmax, entropy, choice of the largest | ties are broken by code point, whatever order the options came in |
| model fetching, `J/fetch.py` | the model directory and the manifest's hashes | `fetch_model`, `record_source_hashes` | bytes are pinned once, never silently replaced; a server loads only what the manifest vouches for |
| benchmark runner, `bench/runner.py`, `datasets.py` | the JSONL files, a work queue, worker threads | plan, send, record, interrupt, resume | no settled sample is sent again, no record is lost |
| configuration and command line, `J/config.py`, `J/__main__.py` | settings, fixed at the start | `load_settings`, `init-env` | a server that starts has keys, and limits that no manifest widens |
| fake backend, metrics, report, scripts, smoke evaluation | none worth modelling | arithmetic, a test double, drivers of a running server | - |

How they interact. The HTTP handler runs on the event loop. For each request it
authenticates, validates, resolves the bundle and then awaits **two** engine calls: one on
the encoder pool (compile and tokenize), one on the inference pool (score), both under the
request's one deadline and both through the same admission counter. The lifespan starts the
engine, spawns a daemon thread that loads every bundle and warms it up through the
engine's *blocking* calls (same workers, no admission slot), and on exit calls
`shutdown(wait=False)` on the event loop. Worker threads release slots; they share nothing
else with the loop but futures and cancel tokens.

The hard behaviours are therefore: the interleaving of the event loop with the two workers
and the loading thread; deadlines that fire at any stage of a job; cancellation that is only
cooperative; shutdown while jobs are queued or running, and jobs that outlive it. Outside
the server: interruption and resumption of a benchmark, and of a download.
`PROJECT.json` lists each hazard at its line.

## 2. Plan

Done:

1. **InferenceEngine**: the engine, with `BoundedService` as its abstract specification and
   `InferenceEngineProofs`.
2. **Server**: request handler, registry and lifespan, composed with the engine itself (it
   extends `InferenceEngine`), and `ServerProofs`.
3. **Microbatches**: `plan_microbatches` and `score`, and `MicrobatchesProofs`.
4. **BenchRunner** (`bench/runner.py`): workers on a shared queue, interruption, a crash in
   the middle of a write, resumption from the file, with `ResultLedger` as its abstract
   specification, and `BenchRunnerProofs`.
5. **ModelFiles** (`fetch.py` with the server's `load`): trust on first fetch, a crash between
   download, verification and the rewriting of the manifest, a server that starts meanwhile;
   `ModelFilesProofs`.
6. **The path of one request**: `Tokens`, `Serializer`, `Answers`, `Contract` and `Bundles`,
   each for one part of the code, and `RequestPath`, which composes them; `SerializerProofs`
   and, from the bytes of the body on, `RequestPathProofs`. `FoldLemmas` holds what both it and
   later proofs need to know of the folds of the community modules.

To do:

7. Theorems for what is left to TLC (end of section 5).
8. A composition of `Server` and `RequestPath`: it would add nothing between the awaits,
   where one request is alone on the event loop, and multiply the two state spaces.

## 3. Modules

### InferenceEngine.tla

One call of `run()` or `run_encoding()` is a member of `Calls`, one call of the blocking
counterparts a member of `Warmups`. What `work` computes is left out; it ends with a result,
an error, or - only if its token is set - with `InferenceCancelled`, or it does not end.

| variable | code |
|---|---|
| `gen`, `attached` | how often the pools were made; `_executor` / `_encoder` are set |
| `open`, `shutting` | pools of the latest start that still accept `submit()`; the `shutdown()` in progress and its `wait` |
| `pending` | `_pending` |
| `phase`, `born` | where the job is; the start whose pool it captured |
| `caller`, `outcome` | what the awaiting coroutine has seen; what the future holds |
| `cancelled`, `late` | the job's `CancelToken` is set; its deadline has passed |
| `queue` | the work queue of each `ThreadPoolExecutor` |

Actions follow the code between two points where another thread can act. `_submit()` is
split at the lock and at `run_in_executor` (`Enter`, `Acquire`, `Dispatch` /
`DispatchFails`), because the lock can be contended by a worker and the pool can be shut
down by another thread; but there is no `await` among those steps, so no other coroutine
runs (`LoopFree`). `Deliver` and `GiveUp` are the ends of `await wait_for(shield(...))`.
The worker is `Take`, `Return` (the `finally` of `_guard` releases the slot *before* the
executor sets the future) and `Resolve`. `shutdown()` is `BeginShutdown`, one `ClosePool`
per pool in the code's order, and `EndShutdown` with the reset. The two assignments that
detach the pools are one step: a warmup that reads `_encoder` between them behaves as one
that read it before. A pool that is detached still drains its queue, so pools are indexed by
the start that made them.

The thread pools are `external`: modelled as a FIFO queue and one worker, `submit()`
raising after `shutdown()`.

### BoundedService.tla

What a request may rely on: a semaphore of `Capacity` slots and one verdict per call.
`InferenceEngine!Service` instantiates it with `held` = jobs queued or running and
`verdict` = the meaning of what the caller saw.

### Server.tla

Extends the engine: a server state is an engine state and four more variables, and every
action either is an action of the engine or leaves its variables alone (theorem
`ServerRunsTheEngine`). Nothing of the engine is abstracted in the composition.

| variable | code |
|---|---|
| `handler` | where `system_one` of a request is: reading the body, in `_run_encoding`, in `_run_inference`, done |
| `status` | the status its access log line carries |
| `bundle`, `progress` | `Bundle.state`; where `Bundle.load()` is: backend, encoder warmup, inference warmup, over |

| action | code |
|---|---|
| `Receive` | the middlewares, authentication and media type, up to the first `await` |
| `Refuse`, `Encode` | from the end of `_read_body` to the first engine call: JSON, validation, `resolve`, readiness, the deadline already passed |
| `AfterEncoding`, `AfterScoring` | what follows each engine call, with the mapping of its exceptions to 422, 500, 504 and 529 |
| `Submit`, `Hear`, `Abandon`, `TimePasses` | the engine's own steps on behalf of the request |
| `LoadBackend`, `WarmUp`, `AfterWarmup` | `Bundle.load()` on the loading thread, bundle after bundle (`load_all`) |
| `Startup`, `Exit`, `Stopping` | the lifespan: `engine.start()`, and `engine.shutdown(wait=False)` |

There is one event loop. `MayRun` says that a coroutine may go on: no other coroutine is
due (its engine call has ended and it has not run yet, `Due`), none is in the await-free
part of `_submit`, and the lifespan is not inside `shutdown()`. A request's two engine
calls are `<<r, "encoder">>` and `<<r, "inference">>`; `DeadlineOf` makes them share one
deadline, as `started_at` does. A bundle's two warmup calls are two jobs of the same
kind. In the engine a warmup is two steps, `WarmupEnter` (the pool is read) and
`WarmupSubmit`, since the lifespan may shut the pool down in between.
`ServerAssumption` fixes how the engine's constants are built from requests and bundles.

Abstractions. A refusal before the engine is one of a set of codes; that the code checks
readiness after validation shows in `Refuse` and `Encode` only as alternatives at one
point, because nothing is awaited between them. The lifespan may exit whenever the loop
is idle, with requests in flight: an ASGI server usually drains them first, which is one
of these behaviours. `loader.join(5 s)` is left out: it delays the end of the process and
changes no state. A dropped connection is logged with the middleware's initial status 500.
The engine's `DispatchFails` for a request cannot happen here, because shutdown runs on the
loop; the engine allows it for other owners.

### Microbatches.tla

`score()` of the NLI backend on the inference worker: the sort, `plan_microbatches()`
sequence by sequence (`Place`, `EndOfPlan`), the loop over the batches (`Check`, `Forward`)
and the event loop's `Cancel` at any time. A batch is kept as a stretch of the sorted
order, since the code fills batches in that order; `results` is the returned list, with
the logit of sequence *i* named *i*. `Forward` either fills in the whole batch or fails
(out of memory, a logit that is not finite). `Enter` chooses *any* function that is sorted
stably; the proof derives that it is a permutation. That the model is loaded
(`_require_model`) is assumed: a bundle is only scored when READY.

### BenchRunner.tla, ResultLedger.tla

`bench run` for one target and one task, run after run; several tasks follow one another in
the code, each with its own file. `ResultLedger` is what the command promises, without a
file: a verdict per sample and edition, and the samples a request is out for.

| variable | code |
|---|---|
| `edition` | the sample file's and the question's SHA-256, which every line is stamped with |
| `file`, `open` | the lines of `runs/<target>/<task>.jsonl`; whether the last lacks its newline |
| `main` | `run_target` and `_send_all`: starting the threads, joining them, joining them after Ctrl+C, or past a second Ctrl+C |
| `todo`, `planned` | the queue, and what it held at first |
| `force`, `base`, `sent`, `result` | `retry_failed`, lines before the run, the summary's count, how the run ended |
| `stop`, `errors` | the stop event; the list of what workers raised |
| `worker`, `example` | where each thread is in its loop, and the sample it holds |
| `runs`, `cut` | history: how many runs sent something; a write was cut short |

| action | code |
|---|---|
| `Edit`, `Repair` | the operator between two runs: `prepare` or an edit; deleting a line that cannot be read |
| `Begin` | reading the file, `current_records`, `pending_samples`, filling the queue |
| `StartThread`, `Finish` | the threads are started one by one; the joins and what `run_target` returns or raises |
| `Interrupt` | Ctrl+C: caught once around the joins; elsewhere, or again, it ends the program, whose threads are daemons |
| `Look`, `TakeNext`, `Lock`, `WriteLine` | a worker: the stop event, then the queue, the request, the write lock, the line and the count |
| `Fail` | `guarded()`: a worker raises, in its request, in its write or around them |
| `Killed` | the process is gone, perhaps in the middle of a write |

Abstractions. A status is `ok`, `retryable` (no connection, 408, 429, 5xx) or `final`
(everything else). The answer to a request is chosen when its line is written, since nothing
looks at it earlier. Editions have the same sample ids. A command that finds nothing to
send, a file it cannot read, or a target that must not be billed changes nothing and is a
stutter. The operator does not edit the experiment while a run is on.

`Cuts` says what an interrupted write leaves: nothing, part of a line, or (`unterminated`) a
whole record cut exactly before its newline. Such a record is read back and counts, and the
next append goes onto it, so that both are lost: `KeepsTheLedger` and `NothingLost` do not
hold then, which their comments name as the exception. `bench_resume` has the first two ends
of a write; what follows from the third is told in section 4 and listed among the hazards.

### ModelFiles.tla

Two programs on the same files: `fetch-model`, and a server that starts.

| variable | code |
|---|---|
| `manifest`, `torn` | `source_model.files` as last written to its end; the file has been emptied by `write_text` and not filled again |
| `disk`, `exists` | the bytes under each name in the model directory; whether there is one |
| `fetch`, `left` | where `fetch_model` is; what it has yet to download |
| `server`, `expected`, `unread`, `loaded` | the start of the server: manifest read, files verified one after the other, then opened one after the other |
| `told` | the last message, as far as it tells the operator what to do |
| `mishaps` | bound on everything that nobody asked for |

`RunFetch` is `fetch_model` up to the download with its four early ends, `Put` one file that
`snapshot_download` (external) moves into place, `Record` and `Write` are `hash_files` and
`record_source_hashes`, split where the manifest file is empty. `StartServer` is
`read_manifest` and `_build_nli`; `LookForOthers`, `Verify` and `Open` are `load` of the
backend on the loading thread. `FollowAdvice` is an operator who does what the last message
says; `Mishap` is everything else: kills, wrong or missing bytes in a download, damage to
the directory, and any command at any time, which is how a fetch meets a starting server.

Bytes stand for their hash. Within one step `fetch-model` compares all files: nobody else
writes to the directory while it runs. The operator touches it only while neither program
is at work on it, as the backend's docstring assumes (nli.py:21-25). One `fetch-model`
runs at a time; two that both find no hashes could overwrite each other's record.

### Tokens.tla

How the NLI backend makes one token sequence of a premise and a hypothesis. A text is a
sequence of *pieces*: a character the escapes have to tell apart, or a word of `Width`
characters that is one token. `Normalize` is the tokenizer's own normalizer: it writes other
pieces for one piece (`Fold`: a full-width angle, a deleted control character, a ligature)
or for two neighbours together (`Joint`), which is what the first escape cannot see, because
it asks the normalizer about one character at a time. `Tokenize` is external: it reads special
tokens out of the normalized text. `EscapeReserved`, `EscapeEveryAngle`, `Misplaced`,
`Reencode` and `Encode` follow the functions of the same names. `SpellingAssumption` is what
`reserved_strings_for` enforces: every special token is spelled with one "<", in front, and no
space behind it ("no reserved string begins with `<` followed by a space", nli.py:112-114). The name
of a special token is an ID and no piece of a text. `FoldingAssumption` is what the two escapes
take the normalizer for. It leaves alone what it has written, and spaces; the characters it
turns into "<" become nothing else (measured for every character: L08 of `compat/differences.md`
counts three, all of them one character to one); and no two pieces that are already written
become a "<" together, on which `escape_every_angle` rests. That two pieces it has *not* written
may become one is left open: this is the case the first escape misses.

### Serializer.tla

`compile_and_encode()`, `all_sequences()` and `split_by_question()`. Expanding a question is
an operator (`Expand`); what runs in a loop with an offset of its own is a step per round.

| variable | code |
|---|---|
| `stage`, `at` | the function and loop the request has come to, and the question in it |
| `request`, `budget`, `compiled` | the `ValidatedRequest`, the limits, `CompiledRequest.questions` |
| `flat`, `encoded`, `taken`, `offset`, `total` | the locals of `encode_request()` |
| `sent`, `logits`, `grouped` | what `score()` gets and returns; the result of `split_by_question()`, whose offset is `offset` again |
| `refusal` | status, code, path and tag of the error |
| `marks`, `backend` | history: where each question begins in `flat`; how the backend behaved |

`Compile` is refused by the character ceiling; `Tokenizing` by the count of sequences, before
anything is tokenized, or by a backend that raises or returns another number; `Take` by a
sequence that is too long; `EndOfEncoding` by the total. `Score` is external: what the model
says of a sequence is the constant `Logit`, or the same for all ("ties"), or it fails.
`PointAssumption` and `TemplatesAssumption` say that neither a key nor the wording of a template
has the name of a special token among its pieces.

`ControlStaysOut` is about meaning as well as about control tokens: what the model reads between
the four tokens of the assembly is the caller's own text, as the normalizer writes it. It compares
with `Data` only where the text has no angle or no neighbours that are folded together
(`Composed`): an escape parts every piece that becomes an angle from the next one, and two
neighbours that are parted are not folded together any more. A text may also spell `<unk>`,
which is no control token, through such neighbours: see section 4.

### Answers.tla

`scoring/numeric.py`, `build_response()` and `verify_invariants()`. A probability is a part of
a whole, and the exponential a table `Exp`, of which only monotony is assumed (and that it
has the temperatures of the manifests, `SettingsAssumption`): two gaps may
weigh the same, as they do after rounding, and a large one nothing, as after underflow. So ties
occur although logits differ. The confidence is represented by what it depends on, the
probabilities without their order; the order of the sums, which the tolerances are for, is
left out. An object whose order matters is the sequence of its pairs.

### Contract.tla

`parse_strict_json()` and `validate_request()`. The body is a value of `Json` as written - keys
may be repeated, numbers infinite - and the way it came into bytes. `WrittenJson` is its text
(external: the caller's encoder), and `TooDeep` scans that text character by character as
`_check_depth` does. `Within`, `Layer` and `Parts` are the recursion of
`_reject_lone_surrogates`, layer by layer and as deep as the scan lets through. Each validator
is the sequence of faults in the order of the code; the handler raises the first. The numbers
of options and levels have both their limits from the configuration, `MinOptions` and
`MinLevels` being 2 or more (config.py:46-49).
`QuestionSchema` and `RequestSchema` are no code: they say what the validators are compared
with (the published schema, `contracts/schemas`). `JsonAssumption` says what the decoder
returns: texts and members are sequences, keys are made of characters that have a code point,
what is inside a value is a value, none is "missing" (which is what `dict.get()` finds in place
of one), and no text or canonical text has the name of a special token
among its pieces. `WrittenAssumption` is JSON's grammar, one layer at a time: brackets around
the texts of the members, `Separated` by commas, a string `Quoted` with its quotes and
backslashes escaped, and null, numbers, true and false as words without quotes and brackets.

### JsonText.tla

`canonical_json()` and the text a caller writes, by recursion over the value: `Dump`. The
modules above take both as constants (`CanonicalJson`, `WrittenJson`), so that theorems
can be stated about them; the run gives them these definitions, and TLC finds that the second
satisfies `WrittenAssumption`.

### Bundles.tla

`Startable` is `load_settings()` and `build_registry()` up to the point where no
`ConfigurationError` is raised; `Resolve` is `ModelRegistry.resolve()`. The files of a manifest
are the subject of `ModelFiles`.

### RequestPath.tla

Composes the five: it extends them and adds how far the request has come before the engine.

| variable | code |
|---|---|
| `intake` | the server starts, listens, reads the body, has handed the request on |
| `settings`, `bundle` | the configuration; the bundle that was resolved |
| `call`, `received` | the request as it arrives; `received` of `_read_body` |
| `response` | the body of a 200 |

| action | code |
|---|---|
| `StartServer` | `load_settings`, `build_registry` |
| `Receive` | the authentication middleware, `_check_media_type`, the declared length |
| `ReadChunk` | one round of `_read_body` |
| `Handle` | from the end of the body to the first engine call; a bundle may be unready |
| `Job` | the steps of Serializer |
| `Respond` | `build_response` and `verify_invariants` |

Deadlines, admission, other requests and the readiness of a bundle are the subject of
`Server`. There the refusals of this path are the codes among which `Refuse` chooses; here it is
decided which one. On the event loop nothing is awaited between the end of the body and the
engine call, nor after the second engine call, and what the two engine calls compute is private
to the request, so the two models do not disturb each other.

### MC*.tla, *.cfg

Model values for TLC and the symmetry among interchangeable calls (used only in runs
without liveness properties).

## 4. Runs

| run | instance | shows |
|---|---|---|
| `engine_restart` | 2 inference calls (one slot) + 1 warmup, two starts | `TypeOK`, `NoPhantomSlots`, `CancelledNeverDelivered`, `RefusedOnlyWhenFull` |
| `engine_live` | 2 calls + 1 warmup, 1 slot, one start | `SlotAccounting`, `AdmissionBound`, refinement of `BoundedService` (`ImplementsService`), `CallerAnswered`, `NowaitEnds`, `SlotsReturned` |
| `engine_restart_bound` | 3 inference calls, 1 slot, two starts | finding: `RestartKeepsBound` fails |
| `server_requests` | 2 requests for 1 bundle, 1 slot | `ServerTypeOK`, `TimeoutIsHonest`, `TurnedAwayForOthers` |
| `server_bundles` | 1 request, 2 bundles, 2 slots | `NothingBeforeReady`, `WarmupAlone`, `OneSlotPerRequest`, `Answered`, `LoaderEnds` |
| `microbatches` | every request of up to 5 sequences of 1, 3, 4 or 13 tokens; ceilings of 12 tokens and 3 sequences | `MicrobatchTypeOK`, `CeilingsHold`, `FewestBatches`, `InOrderGiven`, `NoForwardAfterCancel` |
| `bench_resume` | 2 samples, 2 threads, 2 editions, 2 runs | `BenchTypeOK`, `NothingLost`, `ReadableUnlessCut`, refinement of `ResultLedger` (`KeepsTheLedger`), `RunEnds` |
| `bench_separator` | 2 samples, 1 thread, 1 run, texts that may hold a separator | finding: `ReadableUnlessCut` fails |
| `model_files` | 2 source files and one other name, two contents, manifests with no hash or all, 4 mishaps | `ModelTypeOK`, `ServesWhatItVouches`, `HashesKept`, `FetchedMeansServable`, `AdviceWorks` |
| `model_one_hash` | a manifest that lacks one hash | finding: `FetchedMeansServable` fails |
| `request_path` | 22 configurations (two of them start), 618 requests of up to 3 questions, two bundles and an alias | `PathTypeOK`, `RefusedForFirstFault`, `WithinBudget`, `ControlStaysOut`, `EachToItsOwn`, `AnswersFollowOptions`, `OnlyBackendFaults500` |
| `request_gates` | the same | finding: `GateFiresOnlyOverBudget` fails |

The strengthenings the proofs rest on (`SupportInv`, `ServingInv`, `PlanInv`, `VouchedInv`,
`SInv`) are no runs of their own: they are proved.

Bounds. `MaxStarts` bounds how often `start()` makes pools (2 is enough for a job of an old
start to meet a new one); every other variable is finite by itself, so nothing else is cut
off. One slot and two calls already give a full engine, a queue behind a running job and a
release that races an admission; two slots with three calls separate "full" from "one".
All safety properties of the engine and the server are also proved for all sizes.
A request is two engine calls, so two requests with one slot already compete at both
stages; two slots are needed for one request to be able to take both, and a second bundle
for a warmup to run beside a served request. `microbatches` has ceilings that are met
exactly (3 x 4 tokens, 3 sequences), crossed by either measure, and a sequence longer than
the token ceiling; five sequences make up to five batches.

`bench_resume` needs two threads for a write that waits for another's lock, two runs for
resumption, two editions for an edit and its way back, and two samples so that one can be
settled while the other is open. `MaxRuns` only counts runs that send something; the
operator may edit and repair as often as wanted.

`model_files` needs two files, so that one can be verified or downloaded before the other, and
a name that is no source file for the refusals of strays and of dropped hashes. `MaxMishaps` = 4
allows a command at the wrong time, a kill and two bad downloads; 5 finds nothing more.

`request_path`: the texts of a request are chosen for what the escapes, the renderer and the scan
tell apart: a special token spelled plainly, in full-width characters with a deleted character
in it, and with two characters that become an angle only together; neighbours that are folded
together beside an angle; brackets and a quote and a
backslash in a string; a word of 14 letters that is one token; an object whose keys are not
sorted; an empty string. Each kind of question occurs with and without instructions, criteria
and descriptions, options out of code point order, one a prefix of another. The malformed
bodies break each rule of the parser and of the validator once, in the second question where a
question can break it. Budgets are such that every limit is met and crossed by some of them:
16 tokens a sequence and 60 a request for one bundle, 9 and 17 for the other, which two
questions cross by their number before they are tokenized. Each of the 20 configurations that
do not start violates one precondition; a check that is dropped lets one of them start.

Deadlock is not checked where the system really stops: every call and start is finite in
number, so the server does; so does one call of `score()`, one request alone, and the bench runs over
one edition; an operator whose model is served has nothing more to do. In `bench_resume` the operator can always edit, and it is checked.

Fairness. `LoopFairness`: asyncio runs every ready callback and timer, and time passes; it
says nothing about the workers, so `CallerAnswered` holds although `work()` may hang.
`OwnerFairness`: a `shutdown()` that was called goes on; with `wait=True` its joins are
enabled only when the workers have drained, so nothing is promised there. `SlotsReturned`
assumes `WorkerFairness` in the formula itself: work terminates (a bounded request,
a loop over microbatches) and a pool's worker takes its queue.

`ServerFairness`: the loop runs what is ready, time passes, the loading thread goes on
(its `.result()` has a timeout, and reading the weights ends), and a shutdown that has begun
is finished. Nothing is asked of clients - not that they send their body, nor that the
lifespan ends - nor of the workers: a warmup or a request's work may hang for ever.

`Fairness` of BenchRunner: threads run, a request ends (the client has a timeout), and joins
return once their threads have ended. Nothing is assumed of Ctrl+C, crashes or failures.
After a second Ctrl+C the program goes down (`Killed` from "exiting").

`Fairness` of ModelFiles: both programs run on, and the operator does what the messages say,
which is the subject of `AdviceWorks`. Mishaps are finite in number (`MaxMishaps`); a torn
manifest, and one that records other bytes than the revision's, are excepted, because no
message helps there.

### Findings

`engine_restart_bound`: `shutdown(wait=False)` resets the counter while an old job runs;
after `start()`, the old job's release takes away a slot that a *new* call holds, and one
more call than `max_pending_requests` is let in. The comment in `_submit` (engine.py:142-144)
promises otherwise. The server starts its engine once per lifespan, so it is met only
where an engine object is reused. `NoPhantomSlots` shows the other direction - what
the comment in `shutdown` (82-84) is about - is safe.

`bench_separator`: the file is written with `json.dumps(..., ensure_ascii=False)`
(bench/runner.py:310), which leaves U+2028, U+2029 and U+0085 as they are, and read with
`str.splitlines()` (runner.py:142), which splits at them. An answer or error text that holds
one of them makes a line that was written whole unreadable, and the next run refuses the file
with "a run killed mid-write?". The docstring promises "one JSON line per sample per run"
(runner.py:9). With plain texts `ReadableUnlessCut` holds (`bench_resume`).

`model_one_hash`: with a manifest that records some of the source files, and a directory that
matches them, `fetch-model` compares only the recorded names and returns 0 with "Nothing to
download" (fetch.py:208-216), while the server refuses to start with "Run `python -m jevbert
fetch-model` before starting the server" (registry.py:336-342). A build that adds a name to
`SOURCE_FILES` gets there. Deleting the directory helps, which no message says.

`request_gates`: the character ceiling is derived as four times `max_request_tokens`
(config.py:61), and the comment above it says that the gate "only ever fires on requests the
token budget would refuse anyway" (58-60). The multiplier bounds the wrong side: a token may
stand for *more* than four characters, and three questions about a state that is one long word
are refused with `context_length_exceeded` although their tokens fit. `WithinBudget` says what
does hold: nothing over the token limits is scored.

### Where the words and the code differ

These are no runs of their own: the properties are stated the code's way, or name the exception.

* bench/runner.py:15-18 says that a final answer "is not sent again unless `retry_failed` is set:
  it was answered, possibly billed", and docs/BENCHMARK.md:33 that a rerun skips what is settled
  because the file is append-only. One cut is enough to break that: a line is appended as it is
  (runner.py:312-313), whatever the file ends with. A write that stops exactly before its newline
  leaves a whole record; the next run reads it, counts its sample as settled and sends another
  one, whose line is glued to it. The two are no JSON together, so the sample is open again, the
  run after that refuses the file with "delete that line and run again" (149-150), and then
  sends a sample that was answered. With "unterminated" added to `Cuts` in BenchResume.cfg, TLC
  finds this as a violation of `KeepsTheLedger`. With every other cut it holds, in
  `bench_resume` and for every size (`RunnerKeepsTheLedger`).
* routes.py:3-5 gives the order of refusals as "400 -> 422 (structure, depth)". The depth is
  checked *before* the JSON is decoded (strict_json.py:46-48, for a good reason), so a body that
  is both cut off and too deep is a 422. `RefusedForFirstFault` has it the code's way, and every
  other step of that order as documented.
* serializer_nli.py:252-255 calls five tokens "the cheapest a sequence can possibly be". An empty
  premise with an empty hypothesis makes four (`NoulSide` of an empty criterion, an empty level).
  The count gate can therefore refuse a request of only empty texts that would fit;
  `WithinBudget` lists the gate as a reason of its own.
* nli.py:112-114 says that after the first escape no reserved string "can survive". It judges
  characters one by one, and two that the normalizer folds together can still spell one. For a
  control token the second try repairs this. `<unk>` is no control token (nli.py:420-427 leaves
  it out), nothing looks for it, and a text that spells it in this way is scored with the unknown
  token in it, where POC_DESIGN.md:279 has every literal `<unk>` escaped. `Reads` allows just
  this. No checkpoint's normalizer is known to do it.

## 5. Proofs

### InferenceEngineProofs.tla

Assumptions: `JobsAssumption` (finite disjoint sets of calls and warmups, each job for one
pool) and `LimitsAssumption` (`MaxPending >= 1`, as `__init__` checks).

* `TypeCorrect`, `CancellationStaysInside`: from `WellFormed == TypeOK /\ FutureInv`.
  `FutureInv` ties a job's future, caller and token together; without it a job could finish
  "cancelled" while its caller waits.
* `NoPhantoms`, `RefusalsAreHonest`: `NoPhantomSlots` alone is not inductive, because a
  restart makes every older call drop out of `Owed`: one needs `StoppedInv` (a stopped
  engine's counter is at most the one call between admission and dispatch). Counting steps
  rest on the lemmas about cardinalities of sets of calls.
* `ExactAccounting`, `AdmissionIsBounded`: the equality of counter and `Held`, valid until
  the first shutdown ended, with `LoopInv` (one call at a time in the await-free part; before
  the first start nobody gets in).
* `EngineImplementsService`: for `MaxStarts = 1`, each action maps to one abstract action or
  a stutter. `Acquire`'s refusal is the delicate one: "full" must mean exactly `Capacity`
  calls are *dispatched*, which needs that no other call is between admission and dispatch.

### ServerProofs.tla

Assumption: `ServerAssumption`, under which the engine's own assumptions are instances.

* `ServerRunsTheEngine`: `ServerSpec => Spec`, action by action. All theorems about the
  engine therefore hold in the server and are cited below.
* `ServerTypeCorrect`, and `ReadinessRests`: `ServingInv` is the inductive part. Of its
  conjuncts, `AnswerInv` ties what a caller was told to its future; `ReadyInv` says that a
  READY bundle's two warmup calls returned results and that a request past the readiness
  check is for such a bundle; `StagesInOrder` that a request is scored only after its
  encoding; `OneWorker` that two running jobs are on different workers.
* `ServedOnlyWhenReady`, `WarmupIsAlone`, `OneSlotEach`: consequences of `ServingInv`. The
  last needs that a result is only delivered after the slot came back.
* `TimeoutsAreHonest`: a 504 comes from "expired", "deadline" or "cancelled"; the first two
  need `AnswerInv`, the third never happens (`CancelledNeverDelivered` of the engine).
* `RefusedForOthers`: from `RefusedOnlyWhenFull` of the engine and `OneSlotPerRequest`, by
  counting: as many requests hold slots as jobs do.

### MicrobatchesProofs.tla

Assumptions: token counts are naturals, both ceilings at least 1.

`PlanInv` with `CeilingsHold` is inductive. `TilingInv` says that the closed batches cover a
prefix of the order, `OpenInv` what the open batch already keeps to, `ScatterInv` that every
position before the current batch has its value in place. Two lemmas about sorting carry
the rest: `SortedLengths` (the last of a stretch is the longest, so the `longest` that the
ceiling test sees is the padded width) and `SortIsOnto` (a stable sort is injective, hence
onto, so the scatter fills every index).

`PlanIsTheBest` says that no way of dealing the sequences to batches, sorted or not, needs
fewer of them. Take any deal that keeps to the ceilings: no *b* of its batches hold together more
sequences than the first *b* of the plan (`NoDealReachesFurther`), so fewer batches than the plan
has cannot hold them all. In a least counterexample the one of the *b* batches that
holds the longest sequence would be larger than the plan's batch *b* with one more sequence, and that
one was closed because it had no room: `FullInv`, the part of the invariant this needs.

Theorems: `MicrobatchTypes`, `PlanCovers`, `PlanKeepsToCeilings`, `PlanIsTheBest`,
`ScoresInOrder`, `CancelStopsScoring`.

### ModelFilesProofs.tla

Assumption: `FilesAssumption` (the source files are some of the names; "missing" is no content).

`VouchedInv` with the types is inductive. Its point is why a download cannot change a file
that a server has already verified: it started either without a directory, and then fills in
files that are missing, which no server can have verified; or for a manifest without hashes,
and then no server starts until it has ended. `RecordedHashesStay` needs that what is being
written was compared with what is recorded, and that the directory did not change since.
`FetchedIsServable` has the finding's case excluded by its hypothesis. Theorems:
`ModelTypeCorrect`, `VouchedFilesRest`, `ServesVouchedBytes`, `RecordedHashesStay`,
`FetchedIsServable`.

### SerializerProofs.tla

Assumption: `RequestsAssumption` (a request is `Askable`: a non-empty sequence of questions of
the three types, with texts where texts are rendered and keys that differ; what the validator
lets through, see below). Nothing is assumed of the tokenizer, the model, or the budgets.

`SInv` is inductive, one part per stage. Its point is `marks`: the history of where each
question's pairs begin in the flat list. While `encode_request()` cuts the list, `offset` is
the mark of the question at hand, and question *q* has been given exactly the sequences of its
own pairs; while the sequences are gathered, `sent` has the length of that mark again, because
nothing was cut short on the way; so the second offset, counted in sequences instead of pairs,
runs over the same marks. Without the marks the two cuts have nothing in common to be compared
by. Theorems: `SerializerInvariant`, `ValuesComeHome` (property `EachToItsOwn`),
`NothingIsTruncated`, and two about the encoding of one pair, whatever a behaviour does:

* `MisplacedMissesNothing`: the check of an assembled sequence finds nothing exactly if neither
  part holds a control token, whatever the tokenizer returned.
* `EveryPairIsEncoded`: no pair of texts ends in the `ValueError` of nli.py:524, because the
  second escape leaves nothing to object to. Assumptions: `SpellingAssumption`,
  `FoldingAssumption`, and that the pieces of both texts name no token (`PlainPair`). What
  `EscapeEveryAngle` hands on has been normalized, so normalizing it again changes nothing
  (`NormalizedReadsTheSame`); every angle in it has a space behind it, a spelling has none there,
  so it spells nothing (`EveryAngleSpellsNothing`); and a text that spells nothing is read piece
  by piece, without a token name (`NothingSpelledIsData`).

`EscapesReadTheText` is the other half, for `ControlStaysOut`: either escape leaves the pieces as
they are but for spaces. For the first that holds where no neighbours are folded together
(`SpacedIsApart`), and where there is no angle it changes nothing.

### RequestPathProofs.tla, FoldLemmas.tla

Assumptions: `JsonAssumption` and `WrittenAssumption` (section 3, Contract), `CallsAssumption`
(bodies are of `Json`, in one of the ways of `Bytes`; chunks have a length),
`SettingsAssumption` (limits are naturals, as the types of `config.py` and the manifest's parser
make sure of, and the table of exponentials has the temperatures of the manifests),
`ExpAssumption` (the exponential is monotone and not negative, and a temperature is a number),
`PointAssumption` (different characters have different code points),
`DigitsAssumption` (so have different level numbers different digits), `SpellingAssumption` and
`FoldingAssumption` (section 3, Tokens). Nothing is assumed of which settings start, which bodies
are valid, or which texts can be encoded; what the model says is assumed in one theorem only
(`PathOnlyBackendFaults500`), where it is named.

* `ValidatedIsAskable`: a body in which `validate_request()` finds no fault is `Askable`. Every
  list of faults is built by `\o` and is empty only if each part is, so each check is known to
  have passed; a body whose parser found nothing is no premise, because the validator's own
  checks are enough.
* `ValidatedIsDistinct`: here the parser is needed. It refuses a key that is repeated in any of the
  values it sees, layer by layer from the outside (`LayerUnfolds`, `NextLayer`); as many different
  keys as members means that no two are the same (`KeysAreDistinct`); so the questions of a
  request have different IDs and the options of a question different keys. Options are three
  layers down, so that `MaxDepth >= 3` is a hypothesis: `max_json_depth` is 32 as shipped, and a
  limit below 3 refuses every request that asks something.
* `ValidatorIsTheSchema`: `validate_request()` lets through exactly what the published schema
  allows. Each list of faults is empty exactly if its part of the schema holds (`WhenLists`,
  `JoinLists`, `EachLists`; `NoulFaultsList`, `ChoiceFaultsList`, `ScoreFaultsList`,
  `QuestionFaultsList`, `ValidationFaultsList`). The schema speaks of all members of an object and
  the code of the one it finds under a key, which is the same where no key is repeated (`Keyed`).
* `PathRefusedForFirstFault`: `Screened` says what has been found in order while the body is still
  being read, and is inductive on top of `Course`. The same lemmas on lists give the first fault of
  each: its code is that of the first check that fails (`FirstOfThree`, `BodyFaults`), its path
  leads from the body to the place (`InBody`, `FaultIsReached`), and its location names the type of
  that question (`FaultNamesItsType`). What the property says of nesting is about the value, and
  what the code looks at is the text: `ScanMeasuresNesting` is needed. Hypothesis: `MaxDepth >= 3`.
* `ScanMeasuresNesting`: the scan of the raw text finds too deep exactly the values that have a
  container below the layers that are let through, cut off or not. `Passes` says what a text does
  to a scan that meets it outside a string at depth *d*: it leaves it there, outside, and has it past
  the limit exactly if it was before or the text goes deeper. A string does not (`PassesString`:
  each character, escaped or not, leaves the scan inside the string, `StaysAll`), nor does a
  word (`PassesNeutral`); texts one after the other do if one of them does (`PassesFlatten`,
  `PassesSeparated`), and brackets put it one deeper (`PassesNested`). On the other side, the
  layers of a value are those of its members, one further down (`LayerFromOutside`, `Goes`). The
  induction is over the length of the text: a member's is shorter (`WithinIsShorter`), so that a
  shortest text that is misjudged does not exist (`EveryTextPasses`). A text that is cut lacks its
  last character, which opens nothing (`TextEndsShut`, `CutChangesNothing`).
* `PathCourse`: with it, `SInv` holds on the whole path and not only for the members of
  `Requests`. `Course` says that what is compiled is the expansion of what was validated, and
  that budget, bundle and the name in the request belong together. `PathValuesComeHome` follows.
* `PathLedger`: `Ledger` is inductive on top of `Course`. `Counted` has the two sums: the flat
  list is as long as the options of the questions before `at`, the total is the sum of their
  tokens. `TokensOf` counts by key, and the code by position in a sorted list, so that each step
  of the loop needs two facts: that `OptionKeys` is a bijection from positions to keys, and
  that a sum does not change when it is renamed along one (`SumRenamed`). The first rests on
  `SortedKeysAreTheKeys`: comparison by code point is a strict total order on texts, so the
  number of keys before a key is its position. `Carried` and `Lists` are what the type
  invariant says of the rest.
* `PathTypes` and `PathIsWithinBudget`: consequences of `PathLedger`. That the limits of the
  operator hold as well needs `Startable`, which only lets manifests narrow them; that the model's
  own limit does, that all pairs of the list are texts, so that their encoding has a length.
* `PathAnswersFollow`: a body is made in one step only, so the property is inductive on top of
  `PathLedger`; the work is in that step. `ValuesAreSaid`: the part of the list that belongs to a
  question holds what the model says of its options, in the order it was asked in, or the last
  of all values is not finite, and then the last question has no answer. `SharesOfOptions`: the
  softmax of those values, position by position, is the softmax by key, again because a sum may
  be renamed. `ChosenIsFirstOfBest`: the search of `select_choice()` has something to find, as a
  finite set of numbers has a largest member, and stops at the first of the largest; that first in
  the list is first by code point is `SortedKeysAreTheKeys` once more. That the levels of a score
  are numbered in order, and are ten at most, is `Graded`, which the validator makes sure of.

* `PathControlStaysOut`: `Counted` keeps that both sides of every pair of the list are texts
  without the name of a token in them (`InText`), from the validated request (`Legible`) through
  the templates (`PairIsFree`); so every pair has an encoding (`ListIsEncoded`, from
  `EveryPairIsEncoded`), and with `EncodedReads` (of SerializerProofs) what is asked of each member
  follows.
* `PathOnlyBackendFaults500`: a request ends with a 500 exactly if the backend broke its contract.
  `Blamed` says when which behaviour can have been chosen; three facts carry it. No valid request
  fails to encode (`ListIsEncoded`), so that the only 500 before `score()` is the backend's. A body
  with a value that is not finite is not made (`NotFiniteIsNoBody`). And `verify_invariants()` finds
  nothing in a body made of finite values (`SoundPayloadHolds`): the softmax is a distribution
  (`SoftmaxIsDistribution`), putting the options back in the caller's order changes neither its sum,
  nor its entropy, nor the option that `select_choice()` finds (`OrderDoesNotCount`,
  `SameValuesSameChoice`, `WireHolds`), an expected score lies between the first level and the
  last (`ScoreIsAnAverage`), and each ID is there once (`ValidatedIsDistinct`). Hypotheses:
  `MaxDepth >= 3`, as above, and `FiniteLogits`: a backend that behaves has a finite logit for every
  sequence, since one that is not finite is its fault by definition ("not finite" of
  `Behaviours`).

`FoldLemmas` proves, from the definitions of the community modules, what `SumFunctionOnSet`
and `FlattenSeq` do: a sum unfolds at any of its members (the definition picks one by CHOOSE),
does not depend on the order or on the names of the members, a sum whose members are at most *c*
times another's is at most *c* times the other (`SumBelow`), and a flattened sequence is one,
empty only if all parts are. Flattening distributes over appending, so that what is said of a text
is said of its pieces one by one (`ByAppending`, `EachOfBoth`). They are inductions over the size of a finite set, by least
counterexample, since the library's induction theorems take an operator as a parameter, which the
provers cannot instantiate.

### BenchRunnerProofs.tla

Assumption: `BenchAssumption` (the samples of a plan are different; "none" is no sample and no
edition). The theorems name what else they need: `Texts` without separators where a record
has to be read back, and `Cuts` without "unterminated", the cut just before the newline, after
which the promises do not hold (section 3).

* `BenchTypeCorrect`: `Form` says where threads may be while the main thread is where it is,
  and `CountInv` that what is sent, in flight and queued is no more than was planned.
* `FilesReadBack`: without separators, no line is broken and none lacks its newline as long as
  no write was cut short (`CleanInv`).
* `RunnerKeepsTheLedger`: the refinement of `ResultLedger`. `FreshInv` says that the queue and
  the threads hold each sample at most once and that what is queued is not settled, `TrailInv`
  that a line without a newline is a damaged one, so that an append glued to it loses nothing
  that counted. The lemmas under it are about `Standing`, the last readable record of a sample:
  one more line decides for its own sample and edition (`StandingAppend`), a deleted broken
  line for none (`StandingDelete`), and a set of line numbers has a last one (`SomeLast`, by
  the well-foundedness of the naturals).
* `NothingTakenIsLost`: `LostInv` ties the file's growth to the summary's count while no worker
  has raised, and says that what left the queue is in flight or in the file. That an empty
  queue is left behind by a run that ended by itself needs the order of the two reads in the
  worker: a thread ends for the stop event or for the empty queue, and nothing else.

### Only model-checked

The liveness properties (fairness and ENABLED are out of the prover's reach). The engine's
refinement is stated for one start: after a restart it is false (the finding). That `Dump`
satisfies `WrittenAssumption`, and that a body read back by the decoder is the value that was written:
`JsonText` is recursive, and the decoder external.

## 6. Not modelled

The rounding of floating point beyond ties and underflow, and tensor code. The wording of
messages, headers, request IDs, the access log and the JSON of an error body. The templates
nli-template-v2 and v3, which no bundle of this build may name. The digest of a manifest,
`readyz`, `models` and `capabilities`, which read and change nothing. YAML parsing, `init-env`
and the argument parser. The fake backend, a test double. The benchmark's configuration,
sampling, metrics and report, and the scripts: pure functions over finished data. `work()`
raising `TimeoutError` itself, and a thread pool that cannot spawn its thread, are left out of
the engine.
