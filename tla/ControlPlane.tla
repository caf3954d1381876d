---------------------------- MODULE ControlPlane ----------------------------
(***************************************************************************)
(* The control plane: src/control_plane/service.py and the run routes of   *)
(* src/control_plane/api.py, around the workflow, the store and the tool   *)
(* gateway.  Operators start and replay runs, approvers decide paused      *)
(* ones, each in a request of its own; the requests interleave, and any of *)
(* them may be cut off by the crash of its process.                        *)
(*                                                                         *)
(* The status of a run is read before the workflow is resumed and written  *)
(* after it has returned; nothing locks the run in between.                *)
(***************************************************************************)
EXTENDS ControlledWorkflow

vars == <<repositoryVars, gatewayVars, workflowVars>>

TypeOK == RepositoryTypeOK /\ GatewayTypeOK /\ WorkflowTypeOK

Init == RepositoryInit /\ GatewayInit /\ WorkflowInit

\* An idle handler takes a request about run r and is at the given point of it.
Enter(h, r, label, decision) ==
    /\ handler[h].pc = "idle"
    /\ handler' = [handler EXCEPT ![h] =
                     [Idle EXCEPT !.pc = label, !.run = r, !.decision = decision]]
    /\ UNCHANGED <<checkpoint, graph, saved, gatewayVars>>

\* _authorized_run
SameTenant(actor, r) == TenantOf[actor] = TenantOf[runs[r].case_id]

----------------------------------------------------------------------------
\* POST /v1/cases/{case}/runs: start_run creates the run and enters the workflow.
StartRun(h, actor, case, r) ==
    /\ actor \in Operators
    /\ TenantOf[actor] = TenantOf[case]
    /\ runs[r] = None
    /\ create_run(r, case, None)
    /\ Enter(h, r, "graph", None)
    /\ UNCHANGED <<run_events, approvals, receipts>>

\* As Replay, running the original again instead of a child.
ReplayInPlace(h, actor, parent, r) ==
    /\ actor \in Operators
    /\ runs[parent] # None /\ SameTenant(actor, parent)
    /\ runs[r] = None
    /\ update_run(parent, "running", "none")
    /\ append_event(parent, "replay")
    /\ Enter(h, parent, "graph", None)
    /\ UNCHANGED <<approvals, receipts>>

\* POST /v1/runs/{parent}/replay: an event for the original, and a child run r.
Replay(h, actor, parent, r) ==
    /\ actor \in Operators
    /\ runs[parent] # None /\ SameTenant(actor, parent)
    /\ runs[r] = None
    /\ append_event(parent, "replay")
    /\ create_run(r, runs[parent].case_id, parent)
    /\ Enter(h, r, "graph", None)
    /\ UNCHANGED <<approvals, receipts>>

\* POST /v1/runs/{r}/approvals: the check of approve, up to its first await.
Approve(h, actor, r, decision) ==
    /\ actor \in Approvers
    /\ decision.actor_id = actor
    /\ RunStatusOf(r) = "awaiting_approval"
    /\ SameTenant(actor, r)
    /\ Enter(h, r, "resume", decision)
    /\ UNCHANGED repositoryVars

\* As Status, with every run that is not completed waiting.
StatusDefaultsToWaiting(h) ==
    IF graph[h].current_node = "audit_closure" /\ graph[h].outcome_verified
    THEN "completed" ELSE "awaiting_approval"

\* _status of the graph state ainvoke returned.  Its last case, "running", needs a
\* graph that stops before a closure, and ainvoke returns from none.
Status(h) ==
    CASE handler[h].pc = "return" -> "awaiting_approval"
      [] graph[h].current_node = "audit_closure" /\ graph[h].outcome_verified -> "completed"
      [] graph[h].current_node = "blocked_closure" \/ graph[h].blocked_reason # "none" ->
            "blocked"
      [] OTHER -> "running"

\* ainvoke has returned, at the interrupt or at the end of the graph and with the
\* checkpoint stored; the run is updated and the request answered.
Finish(h) ==
    /\ handler[h].pc = "return" \/ At(h, "END")
    /\ saved[h]
    /\ update_run(Run(h), Status(h), graph[h].blocked_reason)
    /\ Leave(h)
    /\ UNCHANGED <<run_events, approvals, receipts, gatewayVars, checkpoint>>

\* The process dies: what LangGraph has not stored is lost.  A tool request that
\* was under way may still be carried out by the server.
Crash(h) ==
    /\ "crash" \in Faults
    /\ handler[h].pc # "idle"
    /\ \/ UNCHANGED inflight
       \/ At(h, "idempotent_execution") /\ inflight' = inflight \cup {Run(h)}
    /\ Leave(h)
    /\ UNCHANGED <<repositoryVars, effects, attempts, checkpoint>>

----------------------------------------------------------------------------
Request(h) ==
    \/ \E actor \in Actors, case \in Cases, r \in Runs : StartRun(h, actor, case, r)
    \/ \E actor \in Actors, parent \in Runs, r \in Runs : Replay(h, actor, parent, r)
    \/ \E actor \in Actors, r \in Runs, decision \in ApprovalDecision :
          Approve(h, actor, r, decision)

Next ==
    \/ \E h \in Handlers :
          Request(h) \/ WorkflowStep(h) \/ Persist(h) \/ Finish(h) \/ Crash(h)
    \/ \E r \in Runs : LateEffect(r) /\ UNCHANGED <<repositoryVars, workflowVars>>

Spec == Init /\ [][Next]_vars

\* A request that is being served goes on: the event loop schedules its code, and
\* LangGraph completes its writes.  Nobody has to send a request, and no fault has
\* to happen or to end.
FairSpec ==
    /\ Spec
    /\ \A h \in Handlers :
          WF_vars(WorkflowStep(h)) /\ WF_vars(Persist(h)) /\ WF_vars(Finish(h))

----------------------------------------------------------------------------
(***************************************************************************)
(* Safety.                                                                 *)
(***************************************************************************)

\* Whatever crashes, fails or is replayed, an effect that has happened, or still
\* may, was allowed by the policy and by the checked recommendation, and recorded
\* before it as approved, for exactly this action, by an approver of the tenant.
EffectAuthorized ==
    \A r \in effects \cup inflight :
        /\ checkpoint[r].allowed /\ ~checkpoint[r].unsupported_claims
        /\ \E decision \in approvals[r] :
              /\ Permits(decision, r)
              /\ decision.actor_id \in Approvers
              /\ SameTenant(decision.actor_id, r)

\* Approvers race: once one of them is recorded as rejecting the action, no
\* other request performs it, now or later.
RejectionIsFinal ==
    \A r \in Runs : \A decision \in approvals[r] :
        ~decision.approved => r \notin effects \cup inflight

\* A completed run has its effect, and the audit chain the closure announces
\* (workflow.py, line 362) is complete in the store: evidence, policy, approval,
\* effect and verification, across all the passes and restarts of the run.
CompletedIsAudited ==
    \A r \in Runs :
        RunStatusOf(r) = "completed" =>
            /\ r \in effects
            /\ receipts[r] # {}
            /\ \E decision \in approvals[r] : Permits(decision, r)
            /\ {"authoritative_record_collection", "deterministic_policy_decision",
                "paused", "approval", "effect", "outcome_verification",
                "audit_closure"} \subseteq run_events[r]

\* A run once closed never runs or waits again, although its status is written by
\* requests that started long before, and by replays of it.
ClosedStaysClosed ==
    [][\A r \in Runs : RunStatusOf(r) \in Closed => RunStatusOf(r)' \in Closed]_vars

\* A closed run that no request serves and whose effect is not still under way is over:
\* requests about other runs, and replays of it, leave its record, its approvals, its
\* receipts, its effect and its checkpoint alone, and none begins to serve it.
ClosedRunsAreLeftAlone ==
    [][\A r \in Runs :
          RunStatusOf(r) \in Closed /\ r \notin inflight /\ (\A h \in Handlers : Run(h) # r) =>
              /\ UNCHANGED <<runs[r], approvals[r], receipts[r], checkpoint[r]>>
              /\ r \in effects' <=> r \in effects
              /\ run_events'[r] \subseteq run_events[r] \cup {"replay"}
              /\ \A h \in Handlers : Run(h)' # r]_vars

\* The nodes a request can still run when node is the next one.
NodesLeft(node) ==
    CASE node = "intake_validation" -> 10
      [] node = "authoritative_record_collection" -> 9
      [] node = "policy_retrieval" -> 8
      [] node = "conflict_freshness_checks" -> 7
      [] node = "deterministic_policy_decision" -> 6
      [] node = "llm_recommendation" -> 5
      [] node = "human_interrupt" -> 4
      [] node = "idempotent_execution" -> 3
      [] node = "outcome_verification" -> 2
      [] node \in {"audit_closure", "blocked_closure"} -> 1
      [] OTHER -> 0

\* The steps left within a node: an attempt of _execute is a call and a lookup, and a
\* receipt or an approval takes two steps more.
TurnsLeft(h) ==
    CASE handler[h].pc = "graph" -> 2 * (MaxAttempts - handler[h].attempt) + 4
      [] handler[h].pc = "lookup" -> 2 * (MaxAttempts - handler[h].attempt) + 3
      [] handler[h].pc \in {"approval", "receipt"} -> 2
      [] OTHER -> 1

Work(h) ==
    CASE handler[h].pc = "idle" -> 0
      [] handler[h].pc = "return" -> 1
      [] handler[h].pc = "resume" -> 100
      [] OTHER -> 9 * NodesLeft(NextNode(graph[h])) + TurnsLeft(h)

\* A bound on the steps request h still takes; every state is stored once.
StepsLeft(h) == 2 * Work(h) + IF saved[h] THEN 0 ELSE 1

\* Whatever the tool server answers and other requests do to the run meanwhile, each
\* step of a request brings it nearer to its end: _execute does not start counting its
\* attempts again, and no checkpoint sends a request back.
RequestsAreBounded ==
    [][\A h \in Handlers :
          handler[h].pc # "idle" =>
             \/ UNCHANGED <<handler[h], graph[h], saved[h]>>
             \/ StepsLeft(h)' < StepsLeft(h)]_vars

phaseBar == [r \in Runs |-> RunStatusOf(r)]

verdictBar ==
    [r \in Runs |-> IF approvals[r] = {} THEN None
                    ELSE IF \E decision \in approvals[r] : decision.approved
                    THEN "approved" ELSE "rejected"]

Governed == INSTANCE GovernedRun WITH phase <- phaseBar, verdict <- verdictBar, done <- effects

\* The control plane implements GovernedRun: one verdict per run, an effect at most
\* once and only under an approving one, completion only with the effect.
RunsAreGoverned == Governed!Spec

\* With the gateway of the tests a run that was blocked by a tool failure has no
\* effect: a failure after the commit is always looked up before the run gives up.
NoEffectBehindToolFailure ==
    \A r \in Runs :
        RunStatusOf(r) = "blocked" /\ runs[r].blocked_reason = "tool_failure" =>
            r \notin effects

(***************************************************************************)
(* Liveness.                                                               *)
(***************************************************************************)

\* Every request is answered, or ends in an error: the retries are bounded, and no
\* request waits for another one.
RequestsEnd == \A h \in Handlers : handler[h].pc # "idle" ~> handler[h].pc = "idle"

\* Unless calls raise or processes crash, a run with a recorded decision is closed,
\* whatever other approvers submit meanwhile and however often execute fails.
DecidedRunsClose ==
    \A r \in Runs : approvals[r] # {} ~> RunStatusOf(r) \in Closed

----------------------------------------------------------------------------
(***************************************************************************)
(* Claims of the documents and tests that the code does not keep.          *)
(***************************************************************************)

\* walkthrough-script.md, lines 25-27: "Restart the control service while a second
\* run is paused and resume it from the PostgreSQL LangGraph checkpoint."  The
\* node at which a paused run resumes must then be able to record its row.
PausedRunCanResume ==
    \A r \in Runs :
        (RunStatusOf(r) = "awaiting_approval" /\ \A h \in Handlers : Run(h) # r) =>
            /\ NextNode(checkpoint[r]) = "human_interrupt" => approvals[r] = {}
            /\ NextNode(checkpoint[r]) = "idempotent_execution" => receipts[r] = {}

\* operations.md, lines 7-8: "Schema drift, [...] stop and close as blocked".  A
\* run would then be "running" only while a request works on it.
RunningRunIsServed ==
    \A r \in Runs :
        RunStatusOf(r) = "running" => \E h \in Handlers : Run(h) = r
=============================================================================
