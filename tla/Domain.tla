------------------------------- MODULE Domain -------------------------------
(***************************************************************************)
(* The vocabulary the control plane's modules share: the types of          *)
(* src/control_plane/domain.py, reduced to what authorization, execution   *)
(* and audit tell apart.                                                   *)
(***************************************************************************)
CONSTANTS
    Runs,           \* run ids: a uuid4 is drawn for every new run
    Cases,          \* open cases, each asking for one action
    Irreversible,   \* the cases that ask for release_transfer
    Actors,         \* authenticated subjects
    Operators,      \* the actors with the operator role
    Approvers,      \* the actors with the approver role
    TenantOf,       \* the tenant of every actor and of every case
    Forged,         \* an action hash that is the hash of no proposed action
    Backend,        \* settings.repository_backend: "postgres" or "memory"
    None            \* absence

ASSUME BackendAssumption == Backend \in {"memory", "postgres"}

ASSUME ActorAssumption ==
    /\ Operators \subseteq Actors
    /\ Approvers \subseteq Actors

ASSUME RunAssumption == Forged \notin Runs /\ None \notin Runs

----------------------------------------------------------------------------
\* ProposedAction binds a run's case and its idempotency key "<run>:<action>",
\* so two runs propose different actions; sha256 is taken as injective.  The run
\* stands for its proposed action, for the action's hash and for its key.
action_hash(r) == r

Hashes == Runs \cup {Forged}

\* What an approver submits: ApprovalDecision.
ApprovalDecision == [approved : BOOLEAN, actor_id : Actors, proposed_action_hash : Hashes]

\* The decision that permits the effect of run r.
Permits(decision, r) ==
    decision.approved /\ decision.proposed_action_hash = action_hash(r)

RunStatus == {"running", "awaiting_approval", "completed", "blocked"}

Closed == {"completed", "blocked"}

BlockedReason == {"none", "policy", "hash_mismatch", "tool_failure"}

RunRecord ==
    [case_id : Cases, status : RunStatus, blocked_reason : BlockedReason,
     replay_of : Runs \cup {None}]

ASSUME NoneAssumption == None \notin RunRecord \cup ApprovalDecision

\* The kinds of RunEvent, by the node (or the call) that appends them.
EventKind ==
    {"intake_validation", "authoritative_record_collection", "policy_retrieval",
     "conflict_freshness_checks", "deterministic_policy_decision", "llm_recommendation",
     "paused", "approval", "retry", "effect", "outcome_verification",
     "audit_closure", "blocked_closure", "replay"}
=============================================================================
