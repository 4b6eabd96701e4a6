------------------------- MODULE MCInferenceEngine -------------------------
(***************************************************************************)
(* Small instances of InferenceEngine for TLC.                             *)
(***************************************************************************)
EXTENDS InferenceEngine, TLC

CONSTANTS e1,          \* a call of run_encoding()
          i1, i2, i3,  \* calls of run()
          w1           \* a warmup job of the inference worker

\* Every call of run() has a deadline of its own; e1 passes None.
MCDeadlineOf == [c \in {i1, i2, i3} \cap Calls |-> c]

\* Everything but e1 goes to the inference worker.
MCStageOf == [j \in Jobs |-> IF j = e1 THEN "encoder" ELSE "inference"]

\* i1, i2 and i3 are interchangeable: same stage, all with a deadline.
InferenceSymmetry == Permutations({i1, i2, i3} \cap Calls)
=============================================================================
