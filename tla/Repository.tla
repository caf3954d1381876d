----------------------------- MODULE Repository -----------------------------
(***************************************************************************)
(* The store of runs, audit events, approvals and tool receipts:           *)
(* src/control_plane/repository.py, in its two implementations, and the    *)
(* unique constraints of infra/sql/001_init.sql.  Every operation is one   *)
(* transaction (PostgresRepository) or one critical section                *)
(* (MemoryRepository); the operators below state what each one writes.     *)
(***************************************************************************)
EXTENDS Domain

VARIABLES
    runs,       \* runs[r]: the RunRecord of run r, or None
    run_events, \* run_events[r]: the kinds of event appended to run r
    approvals,  \* approvals[r]: the decisions recorded for run r
    receipts    \* receipts[r]: the statuses of the tool receipts saved for run r

repositoryVars == <<runs, run_events, approvals, receipts>>

RepositoryTypeOK ==
    /\ runs \in [Runs -> RunRecord \cup {None}]
    /\ run_events \in [Runs -> SUBSET EventKind]
    /\ approvals \in [Runs -> SUBSET ApprovalDecision]
    /\ receipts \in [Runs -> SUBSET {"succeeded", "replayed"}]

RepositoryInit ==
    /\ runs = [r \in Runs |-> None]
    /\ run_events = [r \in Runs |-> {}]
    /\ approvals = [r \in Runs |-> {}]
    /\ receipts = [r \in Runs |-> {}]

\* The status of run r, "absent" before create_run.
RunStatusOf(r) == IF runs[r] = None THEN "absent" ELSE runs[r].status

create_run(r, case, parent) ==
    runs' = [runs EXCEPT ![r] =
               [case_id |-> case, status |-> "running", blocked_reason |-> "none",
                replay_of |-> parent]]

update_run(r, status, reason) ==
    runs' = [runs EXCEPT ![r].status = status, ![r].blocked_reason = reason]

append_event(r, kind) ==
    run_events' = [run_events EXCEPT ![r] = @ \cup {kind}]

\* As ApprovalConflicts, with the verdict in the unique index.
ApprovalConflictsSameVerdict(r, decision) ==
    /\ Backend = "postgres"
    /\ \E row \in approvals[r] :
          /\ row.proposed_action_hash = decision.proposed_action_hash
          /\ row.approved = decision.approved

\* The table approvals is UNIQUE (run_id, action_hash): a second INSERT raises
\* UniqueViolation.  The list of MemoryRepository takes any number.
ApprovalConflicts(r, decision) ==
    /\ Backend = "postgres"
    /\ \E row \in approvals[r] :
          row.proposed_action_hash = decision.proposed_action_hash

save_approval(r, decision) ==
    approvals' = [approvals EXCEPT ![r] = @ \cup {decision}]

\* The table tool_invocations is UNIQUE (tool_name, idempotency_key), and both
\* are functions of the run.
ReceiptConflicts(r) == Backend = "postgres" /\ receipts[r] # {}

save_receipt(r, status) ==
    receipts' = [receipts EXCEPT ![r] = @ \cup {status}]
=============================================================================
