---------------------------- MODULE ResultLedger ----------------------------
(***************************************************************************)
(* What `bench run` promises of the results it keeps (bench/runner.py, its *)
(* docstring; docs/BENCHMARK.md): a sample that was answered under the     *)
(* edition at hand - the sample file and the question - stays answered,    *)
(* and is not sent again. How results are stored, and what a crash does to *)
(* the file, is not visible here.                                          *)
(***************************************************************************)
CONSTANTS Samples, Editions

VARIABLES
  edition,   \* the sample file and the question of the experiment
  forced,    \* the run was asked to send refused samples again
  verdict,   \* the standing verdict on each sample under each edition
  sending    \* the samples a request is out for

ledger == <<edition, forced, verdict, sending>>

Verdicts == {"open", "final", "ok"}

Empty == /\ edition \in Editions /\ forced \in BOOLEAN
         /\ verdict = [e \in Editions |-> [s \in Samples |-> "open"]]
         /\ sending = {}

\* Only an open question is sent, or a refusal on request.
Send(s) ==
  /\ s \notin sending
  /\ \/ verdict[edition][s] = "open"
     \/ verdict[edition][s] = "final" /\ forced
  /\ sending' = sending \cup {s}
  /\ UNCHANGED <<edition, forced, verdict>>

Record(s, v) ==
  /\ s \in sending
  /\ verdict' = [verdict EXCEPT ![edition][s] = v]
  /\ sending' = sending \ {s}
  /\ UNCHANGED <<edition, forced>>

\* Answers may be lost before they are recorded: the sample stays what it was.
Lose == /\ sending' \in SUBSET sending
        /\ UNCHANGED <<edition, forced, verdict>>

\* The run dies right after one of its answers was recorded.
Die == /\ sending' = {}
       /\ \E s \in sending, v \in Verdicts : verdict' = [verdict EXCEPT ![edition][s] = v]
       /\ UNCHANGED <<edition, forced>>

\* Between two runs the experiment may be changed, and changed back.
Prepare == /\ sending = {}
           /\ edition' \in Editions /\ forced' \in BOOLEAN
           /\ UNCHANGED <<verdict, sending>>

Next == \/ \E s \in Samples : Send(s) \/ \E v \in Verdicts : Record(s, v)
        \/ Lose \/ Die \/ Prepare

Spec == Empty /\ [][Next]_ledger
=============================================================================
