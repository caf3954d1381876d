--------------------------- MODULE MCControlPlane ---------------------------
(***************************************************************************)
(* ControlPlane for TLC: tenant A has an operator, an approver and two     *)
(* cases, one of them irreversible; tenant B has an approver.              *)
(***************************************************************************)
EXTENDS ControlPlane, TLC

CONSTANTS r1, r2, h1, h2, release, hold, operator, approver, stranger, A, B

MCOneRun == {r1}
MCTwoRuns == {r1, r2}
MCOneHandler == {h1}
MCTwoHandlers == {h1, h2}

MCCases == {release, hold}
MCRelease == {release}
MCIrreversible == {release} \cap Cases
MCActors == {operator, approver, stranger}
MCOperators == {operator}
MCApprovers == {approver, stranger}
MCTenantOf == release :> A @@ hold :> A @@ operator :> A @@ approver :> A @@ stranger :> B

MCToolFaults == {"tool_failure"}
MCExceptions == {"tool_failure", "exception"}
MCAllFaults == {"tool_failure", "exception", "crash"}

\* Requests, and the runs they create, are interchangeable.
MCSymmetry == Permutations(Handlers) \cup Permutations(Runs)
=============================================================================
