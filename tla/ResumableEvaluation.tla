------------------------ MODULE ResumableEvaluation ------------------------
(***************************************************************************)
(* What an evaluation promises whoever interrupts and resumes it, without  *)
(* saying how: there is no process, no file and no task.  Every case is    *)
(* measured once, with both runners; what is measured is never lost; and   *)
(* when all cases are measured, exactly these results are published, as    *)
(* often as one likes.                                                     *)
(*                                                                         *)
(* EvalHarness implements this specification.                              *)
(***************************************************************************)
CONSTANTS
    Results,        \* what a run of a case may come to
    None            \* not measured, not published

VARIABLES
    cases,          \* the cases of the suite
    measured,       \* the pair of results of each case, or None
    published       \* the last report, or None

vars == <<cases, measured, published>>

Pair == [baseline : Results, controlled : Results]

Init ==
    /\ measured = [case \in cases |-> None]
    /\ published = None

\* Both runners have been through the case.
Measure(case) ==
    /\ measured[case] = None
    /\ measured'[case] \in Pair
    /\ measured' = [measured EXCEPT ![case] = measured'[case]]
    /\ UNCHANGED <<cases, published>>

Publish ==
    /\ \A case \in cases : measured[case] # None
    /\ published' = measured
    /\ UNCHANGED <<cases, measured>>

Next == (\E case \in cases : Measure(case)) \/ Publish

Spec == Init /\ [][Next]_vars
=============================================================================
