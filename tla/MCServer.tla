------------------------------ MODULE MCServer ------------------------------
(***************************************************************************)
(* Small instances of Server for TLC.                                      *)
(***************************************************************************)
EXTENDS Server, TLC

CONSTANTS r1, r2,   \* requests
          b1, b2    \* bundles

MCCalls == Requests \X Stages
MCWarmups == Bundles \X Stages
MCStageOf == [j \in Jobs |-> j[2]]
MCDeadlineOf == [c \in Calls |-> c[1]]

OneBundle == <<b1>>
TwoBundles == <<b1, b2>>

\* Every request names b1, the first bundle to be loaded.
AllAskFirst == [r \in Requests |-> b1]
=============================================================================
