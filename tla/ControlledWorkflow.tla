------------------------- MODULE ControlledWorkflow -------------------------
(***************************************************************************)
(* The LangGraph workflow of one run: src/control_plane/workflow.py.  A    *)
(* handler is one HTTP request inside graph.ainvoke; it carries its own    *)
(* copy of the run's graph state and runs one node after the other.        *)
(*                                                                         *)
(* A node is one action, except that human_interrupt and                   *)
(* idempotent_execution are cut where they touch the store or the tool     *)
(* server, for another handler, a crash or a failure may come in between.  *)
(*                                                                         *)
(* LangGraph itself is external.  What is modelled of it: after every node *)
(* the graph state is put into the run's checkpoint in the background, so  *)
(* that a crash can lose the latest states; it is flushed before ainvoke   *)
(* returns or raises; an invocation with Command(resume) starts from the   *)
(* checkpoint, and only the human_interrupt node looks at the decision.    *)
(***************************************************************************)
EXTENDS Repository, ToolGateway, Naturals

CONSTANT Handlers   \* the requests being served, in any instance of the service

VARIABLES
    checkpoint, \* checkpoint[r]: the graph state LangGraph has stored for run r
    handler,    \* handler[h]: where request h stands
    graph,      \* graph[h]: the graph state request h works on
    saved       \* saved[h]: that state has reached the checkpoint

workflowVars == <<checkpoint, handler, graph, saved>>

----------------------------------------------------------------------------
\* WorkflowState, reduced to what routing and the properties look at; the other
\* channels are functions of the run.
Node ==
    {"START", "intake_validation", "authoritative_record_collection", "policy_retrieval",
     "conflict_freshness_checks", "deterministic_policy_decision", "llm_recommendation",
     "human_interrupt", "idempotent_execution", "outcome_verification", "audit_closure",
     "blocked_closure"}

WorkflowState ==
    [current_node : Node,
     allowed : BOOLEAN,                 \* decision.allowed
     unsupported_claims : BOOLEAN,      \* recommendation.unsupported_claims is not empty
     approval : ApprovalDecision \cup {None},
     blocked_reason : BlockedReason,
     receipt : {"none", "succeeded", "replayed"},
     outcome_verified : BOOLEAN]

StartState ==
    [current_node |-> "START", allowed |-> FALSE, unsupported_claims |-> FALSE,
     approval |-> None, blocked_reason |-> "none", receipt |-> "none",
     outcome_verified |-> FALSE]

MaxAttempts == 3

HandlerState ==
    [pc : {"idle", "resume", "graph", "approval", "approval_saved", "lookup",
           "receipt", "receipt_saved", "return"},
     run : Runs \cup {None},
     decision : ApprovalDecision \cup {None},   \* the payload of Command(resume)
     attempt : 1 .. MaxAttempts,
     retryable : BOOLEAN,                       \* last_error.retryable
     receipt : {"none", "succeeded", "replayed"}]

Idle ==
    [pc |-> "idle", run |-> None, decision |-> None, attempt |-> 1, retryable |-> FALSE,
     receipt |-> "none"]

WorkflowTypeOK ==
    /\ checkpoint \in [Runs -> WorkflowState]
    /\ handler \in [Handlers -> HandlerState]
    /\ graph \in [Handlers -> WorkflowState]
    /\ saved \in [Handlers -> BOOLEAN]

WorkflowInit ==
    /\ checkpoint = [r \in Runs |-> StartState]
    /\ handler = [h \in Handlers |-> Idle]
    /\ graph = [h \in Handlers |-> StartState]
    /\ saved = [h \in Handlers |-> TRUE]

----------------------------------------------------------------------------
(***************************************************************************)
(* The edges of the compiled graph.                                        *)
(***************************************************************************)
AfterRecommendation(g) ==
    IF g.allowed /\ ~g.unsupported_claims THEN "human_interrupt" ELSE "blocked_closure"

\* As AfterApproval, ignoring a rejection.
AfterApprovalUnread(g) ==
    IF g.blocked_reason = "none" THEN "idempotent_execution" ELSE "blocked_closure"

\* As AfterApproval, asking again after a rejection.
AfterApprovalAskAgain(g) ==
    IF g.blocked_reason # "none" THEN "blocked_closure"
    ELSE IF g.approval.approved THEN "idempotent_execution" ELSE "human_interrupt"

AfterApproval(g) ==
    IF g.blocked_reason = "none" /\ g.approval.approved
    THEN "idempotent_execution" ELSE "blocked_closure"

AfterVerification(g) ==
    IF g.outcome_verified THEN "audit_closure" ELSE "blocked_closure"

\* The node LangGraph runs next on graph state g.
NextNode(g) ==
    CASE g.current_node = "START" -> "intake_validation"
      [] g.current_node = "intake_validation" -> "authoritative_record_collection"
      [] g.current_node = "authoritative_record_collection" -> "policy_retrieval"
      [] g.current_node = "policy_retrieval" -> "conflict_freshness_checks"
      [] g.current_node = "conflict_freshness_checks" -> "deterministic_policy_decision"
      [] g.current_node = "deterministic_policy_decision" -> "llm_recommendation"
      [] g.current_node = "llm_recommendation" -> AfterRecommendation(g)
      [] g.current_node = "human_interrupt" -> AfterApproval(g)
      [] g.current_node = "idempotent_execution" -> "outcome_verification"
      [] g.current_node = "outcome_verification" -> AfterVerification(g)
      [] g.current_node \in {"audit_closure", "blocked_closure"} -> "END"

----------------------------------------------------------------------------
(***************************************************************************)
(* Steps common to all nodes.                                              *)
(***************************************************************************)
Run(h) == handler[h].run

At(h, node) == handler[h].pc = "graph" /\ NextNode(graph[h]) = node

Goto(h, label) == handler' = [handler EXCEPT ![h].pc = label]

\* A node returns: its updates are merged into the graph state, and LangGraph
\* starts to store the new state.
Return(h, g) ==
    /\ handler' = [handler EXCEPT ![h].pc = "graph", ![h].attempt = 1,
                                  ![h].retryable = FALSE, ![h].receipt = "none"]
    /\ graph' = [graph EXCEPT ![h] = g]
    /\ saved' = [saved EXCEPT ![h] = FALSE]
    /\ UNCHANGED checkpoint

\* The request is over; its graph state is gone with it.
Leave(h) ==
    /\ handler' = [handler EXCEPT ![h] = Idle]
    /\ graph' = [graph EXCEPT ![h] = StartState]
    /\ saved' = [saved EXCEPT ![h] = TRUE]

\* LangGraph stores the graph state of request h (external).
Persist(h) ==
    /\ ~saved[h]
    /\ checkpoint' = [checkpoint EXCEPT ![Run(h)] = graph[h]]
    /\ saved' = [saved EXCEPT ![h] = TRUE]
    /\ UNCHANGED <<handler, graph, repositoryVars, gatewayVars>>

\* An exception leaves ainvoke and the request: LangGraph flushes the state the
\* failed node started from, and nobody updates the run.
Unwind(h) ==
    /\ checkpoint' = IF saved[h] THEN checkpoint
                     ELSE [checkpoint EXCEPT ![Run(h)] = graph[h]]
    /\ Leave(h)

----------------------------------------------------------------------------
(***************************************************************************)
(* The nodes before the interrupt.                                         *)
(***************************************************************************)

\* _validate, _collect, _retrieve and _check: an audit event each, and data that
\* only the decision looks at.
Gather(h, node) ==
    /\ At(h, node)
    /\ append_event(Run(h), node)
    /\ Return(h, [graph[h] EXCEPT !.current_node = node])
    /\ UNCHANGED <<runs, approvals, receipts, gatewayVars>>

GatherNodes ==
    {"intake_validation", "authoritative_record_collection", "policy_retrieval",
     "conflict_freshness_checks"}

\* _decide: the policy allows or denies the action on the evidence collected.
Decide(h) ==
    /\ At(h, "deterministic_policy_decision")
    /\ append_event(Run(h), "deterministic_policy_decision")
    /\ \E allowed \in BOOLEAN :
          Return(h, [graph[h] EXCEPT !.current_node = "deterministic_policy_decision",
                                     !.allowed = allowed])
    /\ UNCHANGED <<runs, approvals, receipts, gatewayVars>>

\* _recommend: the model's answer cites retrieved policies only, or not.
Recommend(h) ==
    /\ At(h, "llm_recommendation")
    /\ append_event(Run(h), "llm_recommendation")
    /\ \E unsupported \in BOOLEAN :
          Return(h, [graph[h] EXCEPT !.current_node = "llm_recommendation",
                                     !.unsupported_claims = unsupported])
    /\ UNCHANGED <<runs, approvals, receipts, gatewayVars>>

\* A tool call of _collect, the retriever or the model provider raises; no node
\* catches it.
NodeRaises(h) ==
    /\ \/ At(h, "authoritative_record_collection") /\ RemoteCallMayRaise
       \/ /\ At(h, "policy_retrieval") \/ At(h, "llm_recommendation")
          /\ "exception" \in Faults
    /\ Unwind(h)
    /\ UNCHANGED <<repositoryVars, gatewayVars>>

----------------------------------------------------------------------------
(***************************************************************************)
(* _human_interrupt.                                                       *)
(***************************************************************************)

\* The first pass announces the pause and interrupts the graph: ainvoke returns.
Interrupt(h) ==
    /\ At(h, "human_interrupt")
    /\ handler[h].decision = None
    /\ append_event(Run(h), "paused")
    /\ Goto(h, "return")
    /\ UNCHANGED <<runs, approvals, receipts, gatewayVars, checkpoint, graph, saved>>

\* As ReadDecision, without comparing the hash.
ReadDecisionAnyHash(h) ==
    /\ At(h, "human_interrupt")
    /\ handler[h].decision # None
    /\ append_event(Run(h), "paused")
    /\ Goto(h, "approval")
    /\ UNCHANGED <<checkpoint, graph, saved, runs, approvals, receipts, gatewayVars>>

\* The resumed pass announces the pause again and takes the decision.  One that
\* names another action blocks the run.
ReadDecision(h) ==
    /\ At(h, "human_interrupt")
    /\ handler[h].decision # None
    /\ append_event(Run(h), "paused")
    /\ \/ /\ handler[h].decision.proposed_action_hash # action_hash(Run(h))
          /\ Return(h, [graph[h] EXCEPT !.current_node = "human_interrupt",
                                        !.approval = handler[h].decision,
                                        !.blocked_reason = "hash_mismatch"])
       \/ /\ handler[h].decision.proposed_action_hash = action_hash(Run(h))
          /\ Goto(h, "approval")
          /\ UNCHANGED <<checkpoint, graph, saved>>
    /\ UNCHANGED <<runs, approvals, receipts, gatewayVars>>

SaveApproval(h) ==
    /\ handler[h].pc = "approval"
    /\ ~ApprovalConflicts(Run(h), handler[h].decision)
    /\ save_approval(Run(h), handler[h].decision)
    /\ Goto(h, "approval_saved")
    /\ UNCHANGED <<runs, run_events, receipts, checkpoint, graph, saved, gatewayVars>>

\* save_approval raises UniqueViolation.
ApprovalConflict(h) ==
    /\ handler[h].pc = "approval"
    /\ ApprovalConflicts(Run(h), handler[h].decision)
    /\ Unwind(h)
    /\ UNCHANGED <<repositoryVars, gatewayVars>>

\* The node appends its second event and returns.
AnnounceApproval(h) ==
    /\ handler[h].pc = "approval_saved"
    /\ append_event(Run(h), "approval")
    /\ Return(h, [graph[h] EXCEPT !.current_node = "human_interrupt",
                                  !.approval = handler[h].decision])
    /\ UNCHANGED <<runs, approvals, receipts, gatewayVars>>

----------------------------------------------------------------------------
(***************************************************************************)
(* _execute: up to three attempts with the same idempotency key.           *)
(***************************************************************************)
Release(h) == runs[Run(h)].case_id \in Irreversible

GiveUp(h) ==
    Return(h, [graph[h] EXCEPT !.current_node = "idempotent_execution",
                               !.blocked_reason = "tool_failure",
                               !.outcome_verified = FALSE])

\* As RetryOrGiveUp, without counting the attempts.
RetryForEver(h, retryable) ==
    IF retryable
    THEN /\ handler' = [handler EXCEPT ![h].pc = "graph"]
         /\ UNCHANGED <<checkpoint, graph, saved>>
    ELSE GiveUp(h)

\* The end of one turn of the loop, after a ToolFailure.
RetryOrGiveUp(h, retryable) ==
    IF retryable /\ handler[h].attempt < MaxAttempts
    THEN /\ handler' = [handler EXCEPT ![h].pc = "graph", ![h].attempt = @ + 1,
                                       ![h].retryable = FALSE]
         /\ UNCHANGED <<checkpoint, graph, saved>>
    ELSE GiveUp(h)

HoldReceipt(h, receiptStatus) ==
    /\ handler' = [handler EXCEPT ![h].pc = "receipt", ![h].receipt = receiptStatus]
    /\ UNCHANGED <<checkpoint, graph, saved>>

\* The call returns a receipt.
ExecuteReceipt(h) ==
    /\ At(h, "idempotent_execution")
    /\ \E receiptStatus \in {"succeeded", "replayed"} :
          /\ execute(Run(h), Receipt(receiptStatus))
          /\ HoldReceipt(h, receiptStatus)
    /\ UNCHANGED repositoryVars

\* As ExecuteToolFailure, never asking what became of the effect.
ExecuteToolFailureNoLookup(h) ==
    /\ At(h, "idempotent_execution")
    /\ \E retryable, committed \in BOOLEAN :
          /\ execute(Run(h), ToolFailure(retryable, committed))
          /\ RetryOrGiveUp(h, retryable)
    /\ append_event(Run(h), "retry")
    /\ UNCHANGED <<runs, approvals, receipts>>

\* The call raises ToolFailure.  If the action is irreversible or the effect is
\* known to be committed, its status is looked up before anything else.
ExecuteToolFailure(h) ==
    /\ At(h, "idempotent_execution")
    /\ \E retryable, committed \in BOOLEAN :
          /\ execute(Run(h), ToolFailure(retryable, committed))
          /\ IF Release(h) \/ committed
             THEN /\ handler' = [handler EXCEPT ![h].pc = "lookup",
                                                ![h].retryable = retryable]
                  /\ UNCHANGED <<checkpoint, graph, saved>>
             ELSE RetryOrGiveUp(h, retryable)
    /\ append_event(Run(h), "retry")
    /\ UNCHANGED <<runs, approvals, receipts>>

\* The call raises something else, which nobody catches.
ExecuteRaises(h) ==
    /\ At(h, "idempotent_execution")
    /\ execute(Run(h), Exception)
    /\ Unwind(h)
    /\ UNCHANGED repositoryVars

\* As Lookup, taking the answer "not_found" for a receipt.
LookupUnread(h) ==
    /\ handler[h].pc = "lookup"
    /\ HoldReceipt(h, status(Run(h)))
    /\ UNCHANGED <<repositoryVars, gatewayVars>>

\* get_action_status finds the effect, or the loop goes on.
Lookup(h) ==
    /\ handler[h].pc = "lookup"
    /\ IF status(Run(h)) # "not_found"
       THEN HoldReceipt(h, status(Run(h)))
       ELSE RetryOrGiveUp(h, handler[h].retryable)
    /\ UNCHANGED <<repositoryVars, gatewayVars>>

\* get_action_status raises, inside the except clause: nobody catches it.
LookupRaises(h) ==
    /\ handler[h].pc = "lookup"
    /\ RemoteCallMayRaise
    /\ Unwind(h)
    /\ UNCHANGED <<repositoryVars, gatewayVars>>

\* As SaveReceipt, leaving the receipt out of the audit ledger.
SkipReceiptRecord(h) ==
    /\ handler[h].pc = "receipt"
    /\ Goto(h, "receipt_saved")
    /\ UNCHANGED <<repositoryVars, checkpoint, graph, saved, gatewayVars>>

SaveReceipt(h) ==
    /\ handler[h].pc = "receipt"
    /\ ~ReceiptConflicts(Run(h))
    /\ save_receipt(Run(h), handler[h].receipt)
    /\ Goto(h, "receipt_saved")
    /\ UNCHANGED <<runs, run_events, approvals, checkpoint, graph, saved, gatewayVars>>

\* save_receipt raises UniqueViolation.
ReceiptConflict(h) ==
    /\ handler[h].pc = "receipt"
    /\ ReceiptConflicts(Run(h))
    /\ Unwind(h)
    /\ UNCHANGED <<repositoryVars, gatewayVars>>

\* The node appends its event and returns.
AnnounceEffect(h) ==
    /\ handler[h].pc = "receipt_saved"
    /\ append_event(Run(h), "effect")
    /\ Return(h, [graph[h] EXCEPT !.current_node = "idempotent_execution",
                                  !.receipt = handler[h].receipt])
    /\ UNCHANGED <<runs, approvals, receipts, gatewayVars>>

----------------------------------------------------------------------------
(***************************************************************************)
(* _verify, _close and _blocked.                                           *)
(***************************************************************************)

\* Every receipt the gateways return says response["verified"], so that a held
\* receipt verifies; a blocked execution does not, and is not announced.
Verify(h) ==
    /\ At(h, "outcome_verification")
    /\ LET held == graph[h].blocked_reason = "none" /\ graph[h].receipt # "none" IN
          /\ IF held THEN append_event(Run(h), "outcome_verification")
             ELSE UNCHANGED run_events
          /\ Return(h, [graph[h] EXCEPT !.current_node = "outcome_verification",
                                        !.outcome_verified = held])
    /\ UNCHANGED <<runs, approvals, receipts, gatewayVars>>

Close(h) ==
    /\ At(h, "audit_closure")
    /\ append_event(Run(h), "audit_closure")
    /\ Return(h, [graph[h] EXCEPT !.current_node = "audit_closure"])
    /\ UNCHANGED <<runs, approvals, receipts, gatewayVars>>

\* Without a reason of its own the run is blocked with the policy's reason codes.
Block(h) ==
    /\ At(h, "blocked_closure")
    /\ append_event(Run(h), "blocked_closure")
    /\ Return(h, [graph[h] EXCEPT !.current_node = "blocked_closure",
                                  !.blocked_reason = IF @ = "none" THEN "policy" ELSE @])
    /\ UNCHANGED <<runs, approvals, receipts, gatewayVars>>

----------------------------------------------------------------------------
\* ainvoke(Command(resume)): the invocation starts from the checkpoint.
Resume(h) ==
    /\ handler[h].pc = "resume"
    /\ Goto(h, "graph")
    /\ graph' = [graph EXCEPT ![h] = checkpoint[Run(h)]]
    /\ saved' = [saved EXCEPT ![h] = TRUE]
    /\ UNCHANGED <<checkpoint, repositoryVars, gatewayVars>>

\* A step of the workflow's own code in request h.
WorkflowStep(h) ==
    \/ \E node \in GatherNodes : Gather(h, node)
    \/ Decide(h) \/ Recommend(h) \/ NodeRaises(h)
    \/ Interrupt(h) \/ ReadDecision(h)
    \/ SaveApproval(h) \/ ApprovalConflict(h) \/ AnnounceApproval(h)
    \/ ExecuteReceipt(h) \/ ExecuteToolFailure(h) \/ ExecuteRaises(h)
    \/ Lookup(h) \/ LookupRaises(h)
    \/ SaveReceipt(h) \/ ReceiptConflict(h) \/ AnnounceEffect(h)
    \/ Verify(h) \/ Close(h) \/ Block(h)
    \/ Resume(h)
=============================================================================
