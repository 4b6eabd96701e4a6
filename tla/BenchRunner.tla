----------------------------- MODULE BenchRunner -----------------------------
(***************************************************************************)
(* `bench run` for one target and one task (bench/runner.py: run_target,   *)
(* _send_all, read_records, current_records, pending_samples): worker      *)
(* threads take samples from a queue and append one line each to a file,   *)
(* the main thread waits for them, Ctrl+C and crashes come at any time, and *)
(* a later run resumes from the file.                                      *)
(*                                                                         *)
(* An edition is what a line is stamped with: the SHA-256 of the sample    *)
(* file and of the question. Editions have the same sample ids. A text     *)
(* with a separator holds one of the characters str.splitlines() splits at *)
(* and json.dumps(ensure_ascii=False) leaves as they are (U+2028, U+0085). *)
(* The operator does not run `prepare` or edit the file while a run is on. *)
(***************************************************************************)
EXTENDS Naturals, Sequences, SequencesExt

CONSTANTS Plan,         \* the sample ids, in the order of the sample file
          Concurrency,  \* client.concurrency
          Editions,
          Texts,        \* \subseteq {"plain", "separator"}: what an answer may hold
          Cuts,         \* what a write that does not come to its end may leave: nothing,
                        \* part of the line, or all of it but the newline
          MaxRuns       \* bound: runs that send something

Samples == Range(Plan)
Workers == 1..Concurrency

ASSUME BenchAssumption ==
  /\ Concurrency \in Nat \ {0} /\ MaxRuns \in Nat
  /\ Plan \in Seq(Samples)
  /\ \A i, j \in DOMAIN Plan : i # j => Plan[i] # Plan[j]    \* stratified_sample()
  /\ "none" \notin Samples \cup Editions
  /\ Texts \subseteq {"plain", "separator"}
  /\ Cuts \subseteq {"nothing", "part", "unterminated"}

VARIABLES
  edition,   \* the experiment file and the sample as they are now
  file,      \* the lines of runs/<target>/<task>.jsonl
  open,      \* the last of them has no newline
  main,      \* where the main thread is
  todo,      \* the queue
  planned,   \* what it held at first
  force,     \* retry_failed
  base,      \* the lines there were when the run began
  stop,      \* the stop event
  errors,    \* a worker has raised
  worker,    \* where each thread is
  example,   \* the sample it has taken
  sent,      \* summary.sent
  result,    \* how the last run ended
  runs, cut  \* history: runs so far; a write was cut short

disk == <<file, open>>
run == <<planned, force, base, runs>>
signals == <<stop, errors>>
vars == <<edition, disk, main, todo, run, signals, worker, example, sent, result, cut>>

\* api_error 4xx, no_choice, response_invalid, ... are all "final"; connection_error
\* and 408, 429, 5xx are "retryable".
Statuses == {"ok", "retryable", "final"}
Records == [sample : Samples, status : Statuses, edition : Editions, text : Texts]
Damaged == [sample |-> "none", status |-> "none", edition |-> "none", text |-> "part"]

Sending == {"sending", "locked"}
NoExample == [w \in Workers |-> "none"]

\* The records that may be made of what the other side answers to s: _send_one().
RecordsOf(s) == {[sample |-> s, status |-> status, edition |-> edition, text |-> text] :
                   status \in Statuses, text \in Texts}

BenchTypeOK ==
  /\ edition \in Editions
  /\ \A i \in DOMAIN file : file[i] \in Records \cup {Damaged}
  /\ open \in BOOLEAN /\ (open => file # <<>>)
  /\ main \in {"idle", "starting", "waiting", "stopping", "exiting"}
  /\ Range(todo) \subseteq Range(planned) /\ Range(planned) \subseteq Samples
  /\ force \in BOOLEAN /\ base \in Nat /\ runs \in 0..MaxRuns
  /\ stop \in BOOLEAN /\ errors \in BOOLEAN /\ cut \in BOOLEAN
  /\ \A w \in Workers :
       /\ worker[w] \in {"off", "looking", "taking", "sending", "locked", "ended"}
       /\ example[w] \in IF worker[w] \in Sending THEN Samples ELSE {"none"}
  /\ sent \in 0..Len(planned)
  /\ result \in {"none", "done", "interrupted", "failed", "killed"}

Init ==
  /\ edition \in Editions
  /\ file = <<>> /\ open = FALSE
  /\ main = "idle" /\ todo = <<>> /\ planned = <<>> /\ force = FALSE /\ base = 0
  /\ stop = FALSE /\ errors = FALSE /\ sent = 0 /\ result = "none" /\ runs = 0 /\ cut = FALSE
  /\ worker = [w \in Workers |-> "off"] /\ example = NoExample

-----------------------------------------------------------------------------
(* The file                                                                *)

\* What splitlines() and json.loads() make of a line.
Broken(line) == line = Damaged \/ line.text = "separator"
Readable == \A i \in DOMAIN file : ~Broken(file[i])

\* current_records(): the standing record of s under e, the last one in the file.
StatusUnder(s, e) ==
  LET mine == {i \in DOMAIN file : file[i].sample = s /\ file[i].edition = e /\ ~Broken(file[i])}
  IN IF mine = {} THEN "none" ELSE file[CHOOSE i \in mine : \A j \in mine : j <= i].status

\* pending_samples(): not to be sent again.
RefusalsToo(status, forced) == status = "ok"    \* mutant: every failure is sent again
Settles(status, forced) == status = "ok" \/ (status = "final" /\ ~forced)

\* An append goes onto the last line if that has no newline.
Appended(line) == IF open THEN [file EXCEPT ![Len(file)] = Damaged] ELSE Append(file, line)

\* A write of a line comes to its end, or is cut short.
NoNewline(line) == file' = Appended(line) /\ open' = TRUE /\ UNCHANGED cut    \* mutant
Whole(line) == file' = Appended(line) /\ open' = FALSE /\ UNCHANGED cut
CutShort(line) ==
  /\ cut' = TRUE
  /\ \/ "nothing" \in Cuts /\ UNCHANGED disk
     \/ "part" \in Cuts /\ file' = Appended(Damaged) /\ open' = TRUE
     \/ "unterminated" \in Cuts /\ file' = Appended(line) /\ open' = TRUE

-----------------------------------------------------------------------------
(* The operator, between two runs                                          *)

\* `prepare`, or an edit of the experiment file; also back to what it was.
Edit ==
  /\ main = "idle" /\ \E e \in Editions : e # edition /\ edition' = e
  /\ UNCHANGED <<disk, main, todo, run, signals, worker, example, sent, result, cut>>

\* "delete that line and run again".
Repair ==
  /\ main = "idle"
  /\ \E i \in DOMAIN file :
       /\ Broken(file[i])
       /\ file' = RemoveAt(file, i)
       /\ open' = (open /\ i # Len(file))
  /\ UNCHANGED <<edition, main, todo, run, signals, worker, example, sent, result, cut>>

\* run_target() up to the threads. With nothing to send, a file that cannot be read or
\* a target that must not be billed, the command ends and changes nothing.
Begin(limit, forced) ==
  LET pending == {i \in 1..limit : ~Settles(StatusUnder(Plan[i], edition), forced)} IN
  /\ main = "idle" /\ runs < MaxRuns /\ Readable
  /\ pending # {}
  /\ \E order \in SetToSeqs(pending) :
       /\ \A i, j \in DOMAIN order : i < j => order[i] < order[j]
       /\ planned' = [i \in DOMAIN order |-> Plan[order[i]]]
  /\ main' = "starting" /\ todo' = planned' /\ force' = forced
  /\ base' = Len(file) /\ runs' = runs + 1 /\ sent' = 0 /\ result' = "none"
  /\ stop' = FALSE /\ errors' = FALSE
  /\ worker' = [w \in Workers |-> "off"]
  /\ UNCHANGED <<edition, disk, example, cut>>

-----------------------------------------------------------------------------
(* The main thread                                                         *)

Threads == {w \in Workers : w <= Len(planned)}

StartThread(w) ==
  /\ main = "starting" /\ w \in Threads
  /\ \A v \in Threads : worker[v] = "off" <=> v >= w
  /\ worker' = [worker EXCEPT ![w] = "looking"]
  /\ main' = IF w + 1 \in Threads THEN "starting" ELSE "waiting"
  /\ UNCHANGED <<edition, disk, todo, run, signals, example, sent, result, cut>>

\* Ctrl+C while the threads are joined, and again while they finish. Outside the try
\* block, or the second time, the program goes down with its daemon threads.
Interrupt ==
  /\ \/ /\ main = "waiting" /\ stop' = TRUE /\ main' = "stopping"
     \/ /\ main \in {"starting", "stopping"} /\ main' = "exiting" /\ UNCHANGED stop
  /\ UNCHANGED errors
  /\ UNCHANGED <<edition, disk, todo, run, worker, example, sent, result, cut>>

\* The joins have returned. After an interrupt it is the interrupt that is raised: what a
\* worker raised is then not reported.
NoJoin == main = "stopping" \/ \A w \in Threads : worker[w] = "ended"    \* mutant
Joined == \A w \in Threads : worker[w] = "ended"

Finish ==
  /\ main \in {"waiting", "stopping"} /\ Joined
  /\ main' = "idle"
  /\ result' = IF main = "stopping" THEN "interrupted" ELSE IF errors THEN "failed" ELSE "done"
  /\ UNCHANGED <<edition, disk, todo, run, signals, worker, example, sent, cut>>

\* The process is gone, in the middle of a write perhaps.
Killed ==
  /\ main # "idle"
  /\ main' = "idle" /\ result' = "killed" /\ worker' = [w \in Workers |-> "off"]
  /\ example' = NoExample /\ todo' = <<>> /\ planned' = <<>> /\ base' = 0 /\ sent' = 0
  /\ stop' = FALSE /\ errors' = FALSE
  /\ \/ UNCHANGED <<disk, cut>>
     \/ \E w \in Workers : /\ worker[w] = "locked"
                           /\ \E line \in RecordsOf(example[w]) : Whole(line) \/ CutShort(line)
  /\ UNCHANGED <<edition, force, runs>>

-----------------------------------------------------------------------------
(* A worker thread                                                         *)

\* The stop event is read before the queue is.
Look(w) ==
  /\ worker[w] = "looking"
  /\ worker' = [worker EXCEPT ![w] = IF stop THEN "ended" ELSE "taking"]
  /\ UNCHANGED <<edition, disk, main, todo, run, signals, example, sent, result, cut>>

TakeNext(w) ==
  /\ worker[w] = "taking"
  /\ IF todo = <<>>
       THEN worker' = [worker EXCEPT ![w] = "ended"] /\ UNCHANGED <<todo, example>>
       ELSE /\ worker' = [worker EXCEPT ![w] = "sending"]
            /\ todo' = Tail(todo) /\ example' = [example EXCEPT ![w] = Head(todo)]
  /\ UNCHANGED <<edition, disk, main, run, signals, sent, result, cut>>

\* _send_one() has returned, and the write lock is free.
LockKept == \A v \in Workers : worker[v] # "locked" /\ (worker[v] = "ended" => ~errors)    \* mutant
LockFree == \A v \in Workers : worker[v] # "locked"

Lock(w) ==
  /\ worker[w] = "sending" /\ LockFree
  /\ worker' = [worker EXCEPT ![w] = "locked"]
  /\ UNCHANGED <<edition, disk, main, todo, run, signals, example, sent, result, cut>>

AllLines == Len(file) + 1    \* mutant: what is in the file, not what this run sent
Counted == sent + 1

WriteLine(w) ==
  /\ worker[w] = "locked" /\ worker' = [worker EXCEPT ![w] = "looking"]
  /\ \E line \in RecordsOf(example[w]) : Whole(line)
  /\ example' = [example EXCEPT ![w] = "none"] /\ sent' = Counted
  /\ UNCHANGED <<edition, main, todo, run, signals, result>>

\* guarded(): a worker that raises stops the run - in its request, in its write, or while
\* it makes its client or logs its progress, before it looks at the queue again.
Fail(w) ==
  /\ \/ worker[w] \in {"looking", "sending"} /\ UNCHANGED <<disk, cut>>
     \/ worker[w] = "locked" /\ \E line \in RecordsOf(example[w]) : CutShort(line)
  /\ example' = [example EXCEPT ![w] = "none"]
  /\ worker' = [worker EXCEPT ![w] = "ended"] /\ stop' = TRUE /\ errors' = TRUE
  /\ UNCHANGED <<edition, main, todo, run, sent, result>>

Worker(w) == Look(w) \/ TakeNext(w) \/ Lock(w) \/ WriteLine(w)

Next ==
  \/ Edit \/ Repair \/ \E limit \in DOMAIN Plan, forced \in BOOLEAN : Begin(limit, forced)
  \/ Interrupt \/ Finish \/ Killed
  \/ \E w \in Workers : StartThread(w) \/ Worker(w) \/ Fail(w)

\* Threads run, requests end (the client's timeout), the joins return.
Fairness == /\ \A w \in Workers : WF_vars(Worker(w)) /\ WF_vars(StartThread(w))
            /\ WF_vars(Finish)
            /\ WF_vars(main = "exiting" /\ Killed)

Spec == Init /\ [][Next]_vars
FairSpec == Spec /\ Fairness

-----------------------------------------------------------------------------
(* Properties                                                              *)

\* What the file says of every sample, and the samples a request is out for.
VerdictOf(status) == IF status \in {"ok", "final"} THEN status ELSE "open"
Verdict == [e \in Editions |-> [s \in Samples |-> VerdictOf(StatusUnder(s, e))]]
Asked == {example[w] : w \in Workers} \ {"none"}

(* "The samples that are settled are skipped": through interrupts, kills, failing writes,
   edits and edits taken back, a sample answered under this edition stays answered and is
   not sent again, and one that was refused is sent again only on request. One end of a
   write is excepted: a record cut exactly before its newline ("unterminated" \in Cuts)
   reads back and counts until the next append is glued to it, and then the sample is open
   again. BenchResume.cfg has every other cut. *)
Ledger == INSTANCE ResultLedger WITH
  forced <- force, verdict <- Verdict, sending <- Asked
KeepsTheLedger == Ledger!Spec

(* "The requests already in flight finish and are recorded": after a run that ended by
   itself or by one Ctrl+C, and in which no worker raised, every sample that was taken has
   exactly one new line, and the summary counts those lines. Not so after an earlier kill
   that left a whole record without its newline ("unterminated" \in Cuts): the run's first
   line is glued to it. *)
NothingLost ==
  main = "idle" /\ result \in {"done", "interrupted"} /\ ~errors =>
    /\ sent = Len(file) - base
    /\ \A s \in Range(planned) \ Range(todo) :
         \E i \in base + 1 .. Len(file) : file[i].sample = s /\ file[i].edition # "none"
    /\ result = "done" => todo = <<>>

(* "One JSON line per sample per run": a file can be read back, unless some write was
   cut short ("a run killed mid-write?"). *)
ReadableUnlessCut == ~cut => Readable

(* A run that is on comes to an end, also with a worker that failed or after Ctrl+C: no
   thread waits for the lock or the queue for ever. *)
RunEnds == main # "idle" ~> main = "idle"
=============================================================================
