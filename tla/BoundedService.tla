--------------------------- MODULE BoundedService ---------------------------
(***************************************************************************)
(* What the inference engine promises to the requests that call it, with   *)
(* its threads, pools and counters left out: a counting semaphore of       *)
(* Capacity slots and one verdict per call.                                *)
(*                                                                         *)
(*   - a call is let in only while fewer than Capacity calls hold a slot,  *)
(*     and it is told "overloaded" only while exactly Capacity do;         *)
(*   - an answer reaches the caller after the slot has been given back;    *)
(*   - giving up (deadline, dropped connection) does not give it back;     *)
(*   - every call gets at most one verdict.                                *)
(***************************************************************************)
EXTENDS Naturals, FiniteSets

CONSTANTS Calls, Capacity

VARIABLES held,     \* the calls whose work the service still owes
          verdict   \* what each call has been told so far

svars == <<held, verdict>>

Verdicts == {"none", "accepted", "answered", "abandoned", "overloaded", "declined"}

Init == held = {} /\ verdict = [c \in Calls |-> "none"]

Tell(c, from, to) == /\ verdict[c] = from
                     /\ verdict' = [verdict EXCEPT ![c] = to]

Accept(c) == /\ Tell(c, "none", "accepted")
             /\ Cardinality(held) < Capacity
             /\ held' = held \cup {c}

\* The engine is not running, or the deadline had passed already.
Decline(c) == Tell(c, "none", "declined") /\ UNCHANGED held

Overload(c) == /\ Tell(c, "none", "overloaded")
               /\ Cardinality(held) = Capacity
               /\ UNCHANGED held

GiveBack(c) == c \in held /\ held' = held \ {c} /\ UNCHANGED verdict

Answer(c) == c \notin held /\ Tell(c, "accepted", "answered") /\ UNCHANGED held

GiveUp(c) == Tell(c, "accepted", "abandoned") /\ UNCHANGED held

Next == \E c \in Calls : \/ Accept(c) \/ Decline(c) \/ Overload(c)
                         \/ GiveBack(c) \/ Answer(c) \/ GiveUp(c)

Spec == Init /\ [][Next]_svars
=============================================================================
