--------------------------- MODULE MCMicrobatches ---------------------------
(***************************************************************************)
(* Small instances of Microbatches for TLC.                                *)
(***************************************************************************)
EXTENDS Microbatches

CONSTANTS MaxSequences,  \* bound: the longest request
          TokenCounts    \* bound: the token counts of its sequences

\* Every request of at most MaxSequences sequences.
AllRequests == UNION {[1..n -> TokenCounts] : n \in 0..MaxSequences}
=============================================================================
