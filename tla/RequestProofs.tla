---------------------------- MODULE RequestProofs ----------------------------
(***************************************************************************)
(* Theorems about single requests of ControlPlane: what a tool failure     *)
(* leaves behind, and how many steps a request can take.                   *)
(***************************************************************************)
EXTENDS ControlPlaneProofs

----------------------------------------------------------------------------
(***************************************************************************)
(* A run blocked by a tool failure has no effect.                          *)
(***************************************************************************)
\* No two requests work on one run at the same time.
OnePerRun ==
    \A g, h \in Handlers : Active(g) /\ Active(h) /\ Run(g) = Run(h) => g = h

\* The deployments in which _execute can know what became of an effect: the
\* SyntheticToolGateway says "committed", and does not outlive its process; behind the
\* remote gateway every failure is looked up if all actions are irreversible, and none
\* leaves a request under way if the failures are the server's answers.
FailuresAreKnown ==
    /\ "crash" \notin Faults
    /\ \/ Backend = "memory"
       \/ Cases \subseteq Irreversible /\ "exception" \notin Faults

\* A copy s of run r's graph state that has given up on the effect is behind the
\* execution, and the effect has not happened.
FailedOK(r, s) ==
    s.blocked_reason = "tool_failure" =>
        /\ s.current_node \in {"idempotent_execution", "outcome_verification",
                               "blocked_closure"}
        /\ r \notin effects

FailureInv ==
    /\ inflight = {}
    /\ \A r \in Runs : FailedOK(r, checkpoint[r])
    /\ \A h \in Handlers : Active(h) =>
          /\ FailedOK(Run(h), graph[h])
          /\ RunStatusOf(Run(h)) \notin Closed
          /\ handler[h].pc # "resume" /\ checkpoint[Run(h)].blocked_reason = "tool_failure" =>
                graph[h].blocked_reason = "tool_failure"
    /\ NoEffectBehindToolFailure

\* A step of request h preserves FailureInv if it has the effect only on a copy that has
\* not given up, stores only its own copy, and leaves a copy that tells the truth.
LEMMA FailureKept ==
  ASSUME IInv, FailureInv, OnePerRun, NEW h \in Handlers, Active(h), OthersWait(h),
         UNCHANGED <<runs, inflight>>,
         \/ UNCHANGED effects
         \/ /\ effects' = effects \cup {Run(h)}
            /\ handler[h].pc # "resume" /\ graph[h].blocked_reason # "tool_failure",
         \A r \in Runs : \/ checkpoint'[r] = checkpoint[r]
                         \/ r = Run(h) /\ checkpoint'[r] = graph[h] /\ handler[h].pc # "resume",
         Active(h)' =>
            /\ handler'[h].run = Run(h) /\ handler'[h].pc # "resume"
            /\ FailedOK(Run(h), graph[h])'
            /\ checkpoint'[Run(h)].blocked_reason = "tool_failure" =>
                  graph'[h].blocked_reason = "tool_failure"
  PROVE  FailureInv'
<1>1. Run(h) \in Runs /\ RunStatusOf(Run(h)) \notin Closed
  BY ActiveRun DEF FailureInv
<1>2. \A r : RunStatusOf(r)' = RunStatusOf(r)
  BY DEF RunStatusOf
<1>3. \A r \in Runs \ {Run(h)} : /\ r \in effects' <=> r \in effects
                                 /\ checkpoint'[r] = checkpoint[r]
  OBVIOUS
<1>4. ASSUME NEW r \in Runs PROVE FailedOK(r, checkpoint[r])'
  <2>1. CASE r # Run(h)
    BY <1>3, <2>1 DEF FailedOK, FailureInv
  <2>2. CASE r = Run(h) /\ UNCHANGED effects
    BY <2>2 DEF FailedOK, FailureInv
  <2>3. CASE r = Run(h) /\ handler[h].pc # "resume" /\ graph[h].blocked_reason # "tool_failure"
    BY <2>3 DEF FailedOK, FailureInv
  <2>4. QED
    BY <2>1, <2>2, <2>3
<1>5. ASSUME NEW g \in Handlers, Active(g)'
      PROVE  /\ FailedOK(Run(g), graph[g])'
             /\ RunStatusOf(Run(g))' \notin Closed
             /\ handler'[g].pc # "resume"
                   /\ checkpoint'[handler'[g].run].blocked_reason = "tool_failure" =>
                   graph'[g].blocked_reason = "tool_failure"
  <2>1. CASE g = h
    <3>1. Run(h)' = Run(h) /\ handler'[h].run = Run(h)
      BY <1>5, <2>1 DEF Run
    <3>2. QED
      BY <1>1, <1>2, <1>5, <2>1, <3>1 DEF FailedOK
  <2>2. CASE g # h
    <3>1. /\ Active(g) /\ Run(g)' = Run(g) /\ handler'[g].run = Run(g)
          /\ graph'[g] = graph[g] /\ handler'[g] = handler[g]
      BY <1>5, <2>2 DEF OthersWait, Active, Run
    <3>2. Run(g) \in Runs \ {Run(h)}
      BY <2>2, <3>1, ActiveRun DEF OnePerRun
    <3>3. QED
      BY <1>2, <1>3, <3>1, <3>2 DEF FailedOK, FailureInv
  <2>3. QED
    BY <2>1, <2>2
<1>6. NoEffectBehindToolFailure'
  <2> SUFFICES ASSUME NEW r \in Runs, RunStatusOf(r) = "blocked",
                      runs[r].blocked_reason = "tool_failure"
               PROVE  r \notin effects'
    BY <1>2 DEF NoEffectBehindToolFailure
  <2>1. r # Run(h)
    BY <1>1 DEF Closed
  <2>2. QED
    BY <1>3, <2>1 DEF FailureInv, NoEffectBehindToolFailure
<1>7. QED
  BY <1>4, <1>5, <1>6 DEF FailureInv, Run

\* A node returns graph state g.
LEMMA FailureReturn ==
  ASSUME IInv, FailureInv, OnePerRun, NEW h \in Handlers, NEW g, Active(h),
         handler[h].pc # "resume", Return(h, g), UNCHANGED <<runs, effects, inflight>>,
         graph[h].blocked_reason = "tool_failure" => g.blocked_reason = "tool_failure",
         FailedOK(Run(h), g)
  PROVE  FailureInv'
<1>1. /\ OthersWait(h) /\ graph'[h] = g /\ UNCHANGED checkpoint
      /\ handler'[h].run = Run(h) /\ handler'[h].pc = "graph"
  BY DEF Return, OthersWait, Run, IInv, TypeOK, WorkflowTypeOK, HandlerState
<1>2. FailedOK(Run(h), graph[h])'
  BY <1>1 DEF FailedOK, Run
<1>3. checkpoint'[Run(h)].blocked_reason = "tool_failure" =>
         graph'[h].blocked_reason = "tool_failure"
  BY <1>1 DEF FailureInv
<1>4. QED
  BY <1>1, <1>2, <1>3, FailureKept

\* A request stands still in its graph, having the effect at most.
LEMMA FailureStay ==
  ASSUME IInv, FailureInv, OnePerRun, NEW h \in Handlers, NEW x, Active(h),
         handler[h].pc # "resume", handler' = [handler EXCEPT ![h] = x],
         x.run = Run(h), x.pc # "resume",
         UNCHANGED <<checkpoint, graph, runs, inflight, saved>>,
         \/ UNCHANGED effects
         \/ /\ effects' = effects \cup {Run(h)}
            /\ graph[h].blocked_reason # "tool_failure"
  PROVE  FailureInv'
<1>1. OthersWait(h) /\ handler'[h] = x
  BY DEF OthersWait, IInv, TypeOK, WorkflowTypeOK
<1>2. FailedOK(Run(h), graph[h])'
  BY <1>1 DEF FailedOK, Run, FailureInv
<1>3. QED
  BY <1>1, <1>2, FailureKept DEF FailureInv

\* A request ends in an error.
LEMMA FailureUnwind ==
  ASSUME IInv, FailureInv, OnePerRun, NEW h \in Handlers, Active(h),
         handler[h].pc # "resume", Unwind(h), UNCHANGED <<runs, inflight, effects>>
  PROVE  FailureInv'
<1>1. OthersWait(h) /\ handler'[h] = Idle
  BY DEF Unwind, Leave, OthersWait, IInv, TypeOK, WorkflowTypeOK
<1>2. ~Active(h)'
  BY <1>1 DEF Active, Idle
<1>3. \A r \in Runs : \/ checkpoint'[r] = checkpoint[r]
                      \/ r = Run(h) /\ checkpoint'[r] = graph[h]
  BY ActiveRun DEF Unwind, IInv, TypeOK, WorkflowTypeOK
<1>4. QED
  BY <1>1, <1>2, <1>3, FailureKept

----------------------------------------------------------------------------
\* A node before the execution finds no tool failure, and reports none.
LEMMA FailureEarly ==
  ASSUME IInv, FailureInv, OnePerRun, NEW h \in Handlers, NEW g, Active(h),
         handler[h].pc # "resume", Return(h, g), UNCHANGED <<runs, effects, inflight>>,
         graph[h].current_node \notin
            {"idempotent_execution", "outcome_verification", "blocked_closure"},
         g.blocked_reason \in {graph[h].blocked_reason, "none", "hash_mismatch"}
  PROVE  FailureInv'
<1>1. graph[h].blocked_reason # "tool_failure"
  BY DEF FailureInv, FailedOK
<1>2. QED
  BY <1>1, FailureReturn DEF FailedOK

LEMMA FailureGather ==
  ASSUME IInv, FailureInv, OnePerRun, NEW h \in Handlers,
         (\E node \in GatherNodes : Gather(h, node)) \/ Decide(h) \/ Recommend(h)
  PROVE  FailureInv'
<1>1. PICK node \in GatherNodes \cup {"deterministic_policy_decision", "llm_recommendation"} :
         At(h, node)
  BY DEF Gather, Decide, Recommend
<1>2. /\ Active(h) /\ handler[h].pc = "graph" /\ graph[h] \in WorkflowState
      /\ NextNode(graph[h]) = node
  BY <1>1, AtNode
<1>3. graph[h].current_node \notin
         {"idempotent_execution", "outcome_verification", "blocked_closure"}
  BY <1>2, NextNodeFacts DEF GatherNodes
<1>4. UNCHANGED <<runs, effects, inflight>>
  BY DEF Gather, Decide, Recommend, gatewayVars
<1>5. \E g : Return(h, g) /\ g.blocked_reason = graph[h].blocked_reason
  <2>1. CASE \E n \in GatherNodes : Gather(h, n)
    <3>1. PICK n \in GatherNodes : Return(h, [graph[h] EXCEPT !.current_node = n])
      BY <2>1 DEF Gather
    <3>2. [graph[h] EXCEPT !.current_node = n].blocked_reason = graph[h].blocked_reason
      BY <1>2 DEF WorkflowState
    <3>3. QED
      BY <3>1, <3>2
  <2>2. CASE Decide(h)
    <3>1. PICK a \in BOOLEAN :
             Return(h, [graph[h] EXCEPT !.current_node = "deterministic_policy_decision",
                                        !.allowed = a])
      BY <2>2 DEF Decide
    <3>2. [graph[h] EXCEPT !.current_node = "deterministic_policy_decision",
                           !.allowed = a].blocked_reason = graph[h].blocked_reason
      BY <1>2 DEF WorkflowState
    <3>3. QED
      BY <3>1, <3>2
  <2>3. CASE Recommend(h)
    <3>1. PICK u \in BOOLEAN :
             Return(h, [graph[h] EXCEPT !.current_node = "llm_recommendation",
                                        !.unsupported_claims = u])
      BY <2>3 DEF Recommend
    <3>2. [graph[h] EXCEPT !.current_node = "llm_recommendation",
                           !.unsupported_claims = u].blocked_reason = graph[h].blocked_reason
      BY <1>2 DEF WorkflowState
    <3>3. QED
      BY <3>1, <3>2
  <2>4. QED
    BY <2>1, <2>2, <2>3
<1>6. QED
  BY <1>2, <1>3, <1>4, <1>5, FailureEarly

\* The pause and the decision.
LEMMA FailureDecision ==
  ASSUME IInv, FailureInv, OnePerRun, NEW h \in Handlers,
         Interrupt(h) \/ ReadDecision(h) \/ SaveApproval(h) \/ AnnounceApproval(h)
  PROVE  FailureInv'
<1>1. /\ Active(h) /\ handler[h].pc # "resume"
      /\ UNCHANGED <<runs, effects, inflight>>
  BY DEF Interrupt, ReadDecision, SaveApproval, AnnounceApproval, At, Active, gatewayVars
<1>2. handler[h] \in HandlerState /\ graph[h] \in WorkflowState
  BY <1>1, ActiveRun
<1>3. NextNode(graph[h]) = "human_interrupt"
  BY <1>1 DEF Interrupt, ReadDecision, SaveApproval, AnnounceApproval, At, IInv, StarterInv,
              DeciderInv
<1>4. graph[h].current_node = "llm_recommendation"
  BY <1>2, <1>3, NextNodeFacts
<1>5. ASSUME NEW label \in {"return", "approval", "approval_saved"}, Goto(h, label),
             UNCHANGED <<checkpoint, graph, saved>>
      PROVE  FailureInv'
  <2> DEFINE x == [handler[h] EXCEPT !.pc = label]
  <2>1. handler' = [handler EXCEPT ![h] = x] /\ x.run = Run(h) /\ x.pc # "resume"
    BY <1>2, <1>5 DEF Goto, HandlerState, Run
  <2> HIDE DEF x
  <2>2. QED
    BY <1>1, <1>5, <2>1, FailureStay
<1>6. ASSUME NEW g, Return(h, g), g.blocked_reason \in {graph[h].blocked_reason, "hash_mismatch"}
      PROVE  FailureInv'
  BY <1>1, <1>4, <1>6, FailureEarly
<1>7. CASE Interrupt(h)
  BY <1>5, <1>7 DEF Interrupt
<1>8. CASE ReadDecision(h)
  <2> DEFINE g == [graph[h] EXCEPT !.current_node = "human_interrupt",
                                   !.approval = handler[h].decision,
                                   !.blocked_reason = "hash_mismatch"]
  <2>1. CASE Return(h, g)
    <3>1. g.blocked_reason = "hash_mismatch"
      BY <1>2 DEF WorkflowState
    <3>2. QED
      BY <1>6, <2>1, <3>1
  <2>2. CASE Goto(h, "approval") /\ UNCHANGED <<checkpoint, graph, saved>>
    BY <1>5, <2>2
  <2>3. QED
    BY <1>8, <2>1, <2>2 DEF ReadDecision
<1>9. CASE SaveApproval(h)
  BY <1>5, <1>9 DEF SaveApproval
<1>10. CASE AnnounceApproval(h)
  <2> DEFINE g == [graph[h] EXCEPT !.current_node = "human_interrupt",
                                   !.approval = handler[h].decision]
  <2>1. Return(h, g)
    BY <1>10 DEF AnnounceApproval
  <2>2. g.blocked_reason = graph[h].blocked_reason
    BY <1>2 DEF WorkflowState
  <2>3. QED
    BY <1>6, <2>1, <2>2
<1>11. QED
  BY <1>7, <1>8, <1>9, <1>10

----------------------------------------------------------------------------
\* A request in the node of the execution.
LEMMA Executing ==
  ASSUME IInv, NEW h \in Handlers,
         \/ At(h, "idempotent_execution")
         \/ handler[h].pc \in {"lookup", "receipt", "receipt_saved"}
  PROVE  /\ Active(h) /\ handler[h].pc # "resume"
         /\ handler[h] \in HandlerState /\ graph[h] \in WorkflowState
         /\ NextNode(graph[h]) = "idempotent_execution"
         /\ graph[h].current_node = "human_interrupt"
         /\ graph[h].blocked_reason = "none"
<1>1. Active(h) /\ handler[h].pc # "resume"
  BY DEF At, Active
<1>2. NextNode(graph[h]) = "idempotent_execution"
  BY <1>1 DEF At, IInv, StarterInv, DeciderInv
<1>3. QED
  BY <1>1, <1>2, ActiveRun, ExecutePermitted

\* The loop gives up, or goes on, when the effect is known not to have happened.
LEMMA FailureRetry ==
  ASSUME IInv, FailureInv, OnePerRun, NEW h \in Handlers,
         At(h, "idempotent_execution") \/ handler[h].pc = "lookup",
         NEW retryable, RetryOrGiveUp(h, retryable),
         UNCHANGED <<runs, effects, inflight>>, Run(h) \notin effects
  PROVE  FailureInv'
<1>1. /\ Active(h) /\ handler[h].pc # "resume"
      /\ handler[h] \in HandlerState /\ graph[h] \in WorkflowState
  BY Executing
<1>2. CASE retryable /\ handler[h].attempt < MaxAttempts
  <2> DEFINE x == [handler[h] EXCEPT !.pc = "graph", !.attempt = @ + 1,
                                     !.retryable = FALSE]
  <2>1. /\ handler' = [handler EXCEPT ![h] = x] /\ UNCHANGED <<checkpoint, graph, saved>>
        /\ x.run = Run(h) /\ x.pc # "resume"
    BY <1>1, <1>2 DEF RetryOrGiveUp, HandlerState, Run
  <2> HIDE DEF x
  <2>2. QED
    BY <1>1, <2>1, FailureStay
<1>3. CASE ~(retryable /\ handler[h].attempt < MaxAttempts)
  <2> DEFINE g == [graph[h] EXCEPT !.current_node = "idempotent_execution",
                                   !.blocked_reason = "tool_failure",
                                   !.outcome_verified = FALSE]
  <2>1. Return(h, g)
    BY <1>3 DEF RetryOrGiveUp, GiveUp
  <2>2. /\ g.blocked_reason = "tool_failure"
        /\ g.current_node = "idempotent_execution"
    BY <1>1 DEF WorkflowState
  <2> HIDE DEF g
  <2>3. FailedOK(Run(h), g)
    BY <2>2 DEF FailedOK
  <2>4. QED
    BY <1>1, <2>1, <2>2, <2>3, FailureReturn
<1>4. QED
  BY <1>2, <1>3

\* A request holds a receipt, or looks one up.
LEMMA FailureHold ==
  ASSUME IInv, FailureInv, OnePerRun, NEW h \in Handlers,
         \/ At(h, "idempotent_execution")
         \/ handler[h].pc \in {"lookup", "receipt", "receipt_saved"},
         \/ \E receiptStatus : HoldReceipt(h, receiptStatus)
         \/ \E retryable :
               /\ handler' = [handler EXCEPT ![h].pc = "lookup", ![h].retryable = retryable]
               /\ UNCHANGED <<checkpoint, graph, saved>>
         \/ Goto(h, "receipt_saved") /\ UNCHANGED <<checkpoint, graph, saved>>,
         UNCHANGED <<runs, inflight>>,
         effects' \in {effects, effects \cup {Run(h)}}
  PROVE  FailureInv'
<1>1. /\ Active(h) /\ handler[h].pc # "resume"
      /\ handler[h] \in HandlerState /\ graph[h].blocked_reason = "none"
  BY Executing
<1>2. UNCHANGED <<checkpoint, graph, saved>>
  BY DEF HoldReceipt
<1>3. \E x : handler' = [handler EXCEPT ![h] = x] /\ x.run = Run(h) /\ x.pc # "resume"
  <2>1. ASSUME NEW receiptStatus, HoldReceipt(h, receiptStatus)
        PROVE  \E x : handler' = [handler EXCEPT ![h] = x] /\ x.run = Run(h) /\ x.pc # "resume"
    <3> DEFINE x == [handler[h] EXCEPT !.pc = "receipt", !.receipt = receiptStatus]
    <3>1. handler' = [handler EXCEPT ![h] = x] /\ x.run = Run(h) /\ x.pc # "resume"
      BY <1>1, <2>1 DEF HoldReceipt, HandlerState, Run
    <3>2. QED
      BY <3>1
  <2>2. ASSUME NEW retryable,
               handler' = [handler EXCEPT ![h].pc = "lookup", ![h].retryable = retryable]
        PROVE  \E x : handler' = [handler EXCEPT ![h] = x] /\ x.run = Run(h) /\ x.pc # "resume"
    <3> DEFINE x == [handler[h] EXCEPT !.pc = "lookup", !.retryable = retryable]
    <3>1. handler' = [handler EXCEPT ![h] = x] /\ x.run = Run(h) /\ x.pc # "resume"
      BY <1>1, <2>2 DEF HandlerState, Run
    <3>2. QED
      BY <3>1
  <2>3. CASE Goto(h, "receipt_saved")
    <3> DEFINE x == [handler[h] EXCEPT !.pc = "receipt_saved"]
    <3>1. handler' = [handler EXCEPT ![h] = x] /\ x.run = Run(h) /\ x.pc # "resume"
      BY <1>1, <2>3 DEF Goto, HandlerState, Run
    <3>2. QED
      BY <3>1
  <2>4. QED
    BY <2>1, <2>2, <2>3
<1>4. QED
  BY <1>1, <1>2, <1>3, FailureStay

\* The call of the tool server: where it does not return a receipt, either the run will
\* look the effect up, or the gateway knows that it did not happen.
LEMMA FailureExecute ==
  ASSUME IInv, FailureInv, OnePerRun, FailuresAreKnown, NEW h \in Handlers,
         ExecuteReceipt(h) \/ ExecuteToolFailure(h) \/ ExecuteRaises(h)
  PROVE  FailureInv'
<1>1. At(h, "idempotent_execution") /\ UNCHANGED runs
  BY DEF ExecuteReceipt, ExecuteToolFailure, ExecuteRaises, repositoryVars
<1>2. ASSUME NEW outcome, execute(Run(h), outcome)
      PROVE  /\ effects' \in {effects, effects \cup {Run(h)}}
             /\ outcome # Exception => UNCHANGED inflight
             /\ outcome = Exception => Backend = "postgres" /\ "exception" \in Faults
             /\ Backend = "memory" /\ outcome.kind = "ToolFailure" =>
                   Run(h) \notin effects /\ (~outcome.committed => UNCHANGED effects)
  BY <1>2, BackendAssumption DEF execute, SyntheticExecute, McpExecute, Receipt, ToolFailure,
                                 Exception
<1>3. CASE ExecuteReceipt(h)
  <2>1. PICK receiptStatus : /\ execute(Run(h), Receipt(receiptStatus))
                             /\ HoldReceipt(h, receiptStatus)
    BY <1>3 DEF ExecuteReceipt
  <2>2. Receipt(receiptStatus) # Exception
    BY DEF Receipt, Exception
  <2>3. QED
    BY <1>1, <1>2, <2>1, <2>2, FailureHold
<1>4. CASE ExecuteToolFailure(h)
  <2>1. PICK retryable \in BOOLEAN, committed \in BOOLEAN :
           /\ execute(Run(h), ToolFailure(retryable, committed))
           /\ IF Release(h) \/ committed
              THEN /\ handler' = [handler EXCEPT ![h].pc = "lookup",
                                                 ![h].retryable = retryable]
                   /\ UNCHANGED <<checkpoint, graph, saved>>
              ELSE RetryOrGiveUp(h, retryable)
    BY <1>4 DEF ExecuteToolFailure
  <2>2. /\ ToolFailure(retryable, committed).kind = "ToolFailure"
        /\ ToolFailure(retryable, committed).committed = committed
        /\ ToolFailure(retryable, committed) # Exception
    BY DEF ToolFailure, Exception
  <2>3. UNCHANGED inflight /\ effects' \in {effects, effects \cup {Run(h)}}
    BY <1>2, <2>1, <2>2
  <2>4. CASE Release(h) \/ committed
    BY <1>1, <2>1, <2>3, <2>4, FailureHold
  <2>5. CASE ~(Release(h) \/ committed)
    <3>1. runs[Run(h)].case_id \in Cases
      BY <1>1, AtNode, ActiveRun DEF IInv, TypeOK, RepositoryTypeOK, RunRecord
    <3>2. Backend = "memory"
      BY <2>5, <3>1 DEF FailuresAreKnown, Release
    <3>3. Run(h) \notin effects /\ UNCHANGED effects
      BY <1>2, <2>1, <2>2, <2>5, <3>2
    <3>4. QED
      BY <1>1, <2>1, <2>3, <2>5, <3>3, FailureRetry
  <2>6. QED
    BY <2>4, <2>5
<1>5. CASE ExecuteRaises(h)
  BY <1>2, <1>5 DEF ExecuteRaises, FailuresAreKnown
<1>6. QED
  BY <1>3, <1>4, <1>5

LEMMA FailureLookup ==
  ASSUME IInv, FailureInv, OnePerRun, NEW h \in Handlers,
         Lookup(h) \/ SaveReceipt(h) \/ AnnounceEffect(h)
  PROVE  FailureInv'
<1>1. /\ handler[h].pc \in {"lookup", "receipt", "receipt_saved"}
      /\ UNCHANGED <<runs, effects, inflight>>
  BY DEF Lookup, SaveReceipt, AnnounceEffect, repositoryVars, gatewayVars
<1>2. CASE Lookup(h) /\ status(Run(h)) # "not_found"
  BY <1>1, <1>2, FailureHold DEF Lookup
<1>3. CASE Lookup(h) /\ status(Run(h)) = "not_found"
  <2>1. Run(h) \notin effects
    BY <1>3 DEF status
  <2>2. QED
    BY <1>1, <1>3, <2>1, FailureRetry DEF Lookup
<1>4. CASE SaveReceipt(h)
  BY <1>1, <1>4, FailureHold DEF SaveReceipt
<1>5. CASE AnnounceEffect(h)
  <2> DEFINE g == [graph[h] EXCEPT !.current_node = "idempotent_execution",
                                   !.receipt = handler[h].receipt]
  <2>1. Return(h, g)
    BY <1>5 DEF AnnounceEffect
  <2>2. /\ Active(h) /\ handler[h].pc # "resume" /\ graph[h] \in WorkflowState
        /\ graph[h].blocked_reason = "none"
    BY <1>1, Executing
  <2>3. g.blocked_reason = "none"
    BY <2>2 DEF WorkflowState
  <2> HIDE DEF g
  <2>4. FailedOK(Run(h), g)
    BY <2>3 DEF FailedOK
  <2>5. QED
    BY <1>1, <2>1, <2>2, <2>4, FailureReturn
<1>6. QED
  BY <1>2, <1>3, <1>4, <1>5

\* The closures carry the failure on; a verified run has none.
LEMMA FailureClosing ==
  ASSUME IInv, FailureInv, OnePerRun, NEW h \in Handlers,
         Verify(h) \/ Close(h) \/ Block(h)
  PROVE  FailureInv'
<1>1. /\ Active(h) /\ handler[h].pc # "resume" /\ graph[h] \in WorkflowState
      /\ Run(h) \in Runs /\ Holds(Run(h), graph[h]) /\ FailedOK(Run(h), graph[h])
      /\ UNCHANGED <<runs, effects, inflight>>
  BY AtNode DEF Verify, Close, Block, gatewayVars, FailureInv
<1>2. CASE Verify(h)
  <2> DEFINE held == graph[h].blocked_reason = "none" /\ graph[h].receipt # "none"
  <2> DEFINE g == [graph[h] EXCEPT !.current_node = "outcome_verification",
                                   !.outcome_verified = held]
  <2>1. Return(h, g)
    BY <1>2 DEF Verify
  <2>2. /\ g.blocked_reason = graph[h].blocked_reason
        /\ g.current_node = "outcome_verification"
    BY <1>1 DEF WorkflowState
  <2> HIDE DEF g
  <2>3. FailedOK(Run(h), g)
    BY <1>1, <2>2 DEF FailedOK
  <2>4. QED
    BY <1>1, <2>1, <2>2, <2>3, FailureReturn
<1>3. CASE Close(h)
  <2> DEFINE g == [graph[h] EXCEPT !.current_node = "audit_closure"]
  <2>1. Return(h, g) /\ NextNode(graph[h]) = "audit_closure"
    BY <1>3 DEF Close, At
  <2>2. g.blocked_reason = graph[h].blocked_reason
    BY <1>1 DEF WorkflowState
  <2> HIDE DEF g
  <2>3. graph[h].outcome_verified
    BY <1>1, <2>1, NextNodeFacts
  <2>4. Run(h) \in effects
    BY <1>1, <2>3 DEF Holds, StateOK
  <2>5. FailedOK(Run(h), g)
    BY <1>1, <2>2, <2>4 DEF FailedOK
  <2>6. QED
    BY <1>1, <2>1, <2>2, <2>5, FailureReturn
<1>4. CASE Block(h)
  <2> DEFINE g == [graph[h] EXCEPT !.current_node = "blocked_closure",
                                   !.blocked_reason = IF @ = "none" THEN "policy" ELSE @]
  <2>1. Return(h, g)
    BY <1>4 DEF Block
  <2>2. /\ g.current_node = "blocked_closure"
        /\ g.blocked_reason \in {graph[h].blocked_reason, "policy"}
        /\ graph[h].blocked_reason = "tool_failure" => g.blocked_reason = "tool_failure"
    BY <1>1 DEF WorkflowState
  <2> HIDE DEF g
  <2>3. FailedOK(Run(h), g)
    BY <1>1, <2>2 DEF FailedOK
  <2>4. QED
    BY <1>1, <2>1, <2>2, <2>3, FailureReturn
<1>5. QED
  BY <1>2, <1>3, <1>4

LEMMA FailureErrors ==
  ASSUME IInv, FailureInv, OnePerRun, NEW h \in Handlers,
         NodeRaises(h) \/ ApprovalConflict(h) \/ LookupRaises(h) \/ ReceiptConflict(h)
  PROVE  FailureInv'
<1>1. /\ Active(h) /\ handler[h].pc # "resume" /\ Unwind(h)
      /\ UNCHANGED <<runs, effects, inflight>>
  BY DEF NodeRaises, ApprovalConflict, LookupRaises, ReceiptConflict, At, Active,
         repositoryVars, gatewayVars
<1>2. QED
  BY <1>1, FailureUnwind

\* A resumed request takes over what the checkpoint says.
LEMMA FailureResume ==
  ASSUME IInv, FailureInv, OnePerRun, NEW h \in Handlers, Resume(h)
  PROVE  FailureInv'
<1>1. /\ Active(h) /\ UNCHANGED <<runs, effects, inflight, checkpoint>>
  BY DEF Resume, Active, repositoryVars, gatewayVars
<1>2. Run(h) \in Runs /\ handler[h] \in HandlerState
  BY <1>1, ActiveRun
<1>3. /\ OthersWait(h) /\ handler'[h].run = Run(h) /\ handler'[h].pc = "graph"
      /\ graph'[h] = checkpoint[Run(h)]
  BY <1>2 DEF Resume, Goto, Run, OthersWait, IInv, TypeOK, WorkflowTypeOK, HandlerState
<1>4. FailedOK(Run(h), graph[h])'
  BY <1>1, <1>2, <1>3 DEF FailedOK, Run, FailureInv
<1>5. QED
  BY <1>1, <1>3, <1>4, FailureKept

LEMMA FailurePersist ==
  ASSUME IInv, FailureInv, OnePerRun, NEW h \in Handlers, Persist(h)
  PROVE  FailureInv'
<1>1. /\ Active(h) /\ handler[h].pc # "resume"
      /\ UNCHANGED <<runs, effects, inflight, handler, graph>>
  BY DEF Persist, IInv, IdleInv, StarterInv, DeciderInv, repositoryVars, gatewayVars
<1>2. Run(h) \in Runs
  BY <1>1, ActiveRun
<1>3. /\ OthersWait(h)
      /\ \A r \in Runs : \/ checkpoint'[r] = checkpoint[r]
                         \/ r = Run(h) /\ checkpoint'[r] = graph[h]
      /\ checkpoint'[Run(h)] = graph[h]
  BY <1>1, <1>2 DEF Persist, OthersWait, IInv, TypeOK, WorkflowTypeOK
<1>4. FailedOK(Run(h), graph[h])'
  BY <1>1 DEF FailedOK, Run, FailureInv
<1>5. QED
  BY <1>1, <1>3, <1>4, FailureKept DEF Run

----------------------------------------------------------------------------
\* A run is opened, with an empty graph state and no effect.
LEMMA FailureOpen ==
  ASSUME IInv, FailureInv, NEW h \in Handlers, NEW r \in Runs, runs[r] = None,
         NEW case \in Cases, NEW parent \in Runs \cup {None},
         create_run(r, case, parent), Enter(h, r, "graph", None)
  PROVE  FailureInv'
<1>1. /\ ~Active(h) /\ graph[h] = StartState /\ checkpoint[r] = StartState
      /\ UNCHANGED <<checkpoint, graph, effects, inflight>>
  BY DEF Enter, Active, IInv, IdleInv, RunInv, RunStatusOf, gatewayVars
<1>2. /\ handler'[h].run = r
      /\ \A g \in Handlers \ {h} : handler'[g] = handler[g]
  BY DEF Enter, IInv, TypeOK, WorkflowTypeOK, Idle
<1>3. \A q \in Runs : RunStatusOf(q)' = IF q = r THEN "running" ELSE RunStatusOf(q)
  BY OpenStatus
<1>4. \A q \in Runs \ {r} : runs'[q] = runs[q]
  BY DEF create_run, IInv, TypeOK, RepositoryTypeOK
<1>5. StartState.blocked_reason = "none"
  BY DEF StartState
<1>6. \A q \in Runs : \A s : FailedOK(q, s)' <=> FailedOK(q, s)
  BY <1>1 DEF FailedOK
<1>7. ASSUME NEW g \in Handlers, Active(g)'
      PROVE  /\ FailedOK(Run(g), graph[g])'
             /\ RunStatusOf(Run(g))' \notin Closed
             /\ handler'[g].pc # "resume"
                   /\ checkpoint'[Run(g)'].blocked_reason = "tool_failure" =>
                   graph'[g].blocked_reason = "tool_failure"
  <2>1. CASE g = h
    BY <1>1, <1>2, <1>3, <1>5, <2>1 DEF FailedOK, Run, Closed
  <2>2. CASE g # h
    <3>1. Active(g) /\ Run(g)' = Run(g) /\ handler'[g] = handler[g]
      BY <1>2, <1>7, <2>2 DEF Active, Run
    <3>2. Run(g) \in Runs \ {r}
      BY <3>1, ActiveRun
    <3>3. QED
      BY <1>1, <1>3, <3>1, <3>2 DEF FailedOK, FailureInv
  <2>3. QED
    BY <2>1, <2>2
<1>8. NoEffectBehindToolFailure'
  BY <1>1, <1>3, <1>4 DEF NoEffectBehindToolFailure, FailureInv
<1>9. QED
  BY <1>1, <1>6, <1>7, <1>8 DEF FailureInv, FailedOK

\* A decision is taken in, about a run that waits for it.
LEMMA FailureApprove ==
  ASSUME IInv, FailureInv, NEW h \in Handlers, NEW actor, NEW r \in Runs, NEW decision,
         Approve(h, actor, r, decision)
  PROVE  FailureInv'
<1>1. /\ ~Active(h) /\ graph[h] = StartState /\ RunStatusOf(r) \notin Closed
      /\ UNCHANGED <<runs, checkpoint, graph, effects, inflight>>
  BY DEF Approve, Enter, Active, IInv, IdleInv, gatewayVars, repositoryVars, Closed
<1>2. /\ handler'[h].run = r /\ handler'[h].pc = "resume"
      /\ \A g \in Handlers \ {h} : handler'[g] = handler[g]
  BY DEF Approve, Enter, IInv, TypeOK, WorkflowTypeOK, Idle
<1>3. StartState.blocked_reason = "none"
  BY DEF StartState
<1>4. \A q : RunStatusOf(q)' = RunStatusOf(q)
  BY <1>1 DEF RunStatusOf
<1>5. ASSUME NEW g \in Handlers, Active(g)'
      PROVE  /\ FailedOK(Run(g), graph[g])'
             /\ RunStatusOf(Run(g))' \notin Closed
             /\ handler'[g].pc # "resume"
                   /\ checkpoint'[Run(g)'].blocked_reason = "tool_failure" =>
                   graph'[g].blocked_reason = "tool_failure"
  <2>1. CASE g = h
    BY <1>1, <1>2, <1>3, <1>4, <2>1 DEF FailedOK, Run
  <2>2. CASE g # h
    <3>1. Active(g) /\ Run(g)' = Run(g) /\ handler'[g] = handler[g]
      BY <1>2, <1>5, <2>2 DEF Active, Run
    <3>2. QED
      BY <1>1, <1>4, <3>1 DEF FailedOK, FailureInv
  <2>3. QED
    BY <2>1, <2>2
<1>6. NoEffectBehindToolFailure'
  BY <1>1, <1>4 DEF NoEffectBehindToolFailure, FailureInv
<1>7. QED
  BY <1>1, <1>5, <1>6 DEF FailureInv, FailedOK

\* The run is blocked with the reason its graph state gives.
LEMMA FailureFinish ==
  ASSUME IInv, FailureInv, OnePerRun, NEW h \in Handlers, Finish(h)
  PROVE  FailureInv'
<1>1. /\ Active(h) /\ Run(h) \in Runs
      /\ UNCHANGED <<checkpoint, effects, inflight>>
  BY FinishStatus, FinishWrites DEF Finish, gatewayVars
<1>2. /\ handler'[h] = Idle /\ OthersWait(h)
  BY DEF Finish, Leave, OthersWait, IInv, TypeOK, WorkflowTypeOK
<1>3. /\ \A q \in Runs \ {Run(h)} :
            RunStatusOf(q)' = RunStatusOf(q) /\ runs'[q] = runs[q]
      /\ runs'[Run(h)].blocked_reason = graph[h].blocked_reason
  <2>1. runs[Run(h)] \in RunRecord
    BY <1>1, ActiveRun DEF IInv, TypeOK, RepositoryTypeOK
  <2> DEFINE record == [runs[Run(h)] EXCEPT !.status = Status(h),
                                            !.blocked_reason = graph[h].blocked_reason]
  <2>2. runs' = [runs EXCEPT ![Run(h)] = record]
    BY DEF Finish, update_run
  <2>3. record.blocked_reason = graph[h].blocked_reason
    BY <2>1 DEF RunRecord
  <2> HIDE DEF record
  <2>4. QED
    BY <1>1, <2>2, <2>3, FinishWrites DEF IInv, TypeOK, RepositoryTypeOK
<1>4. ASSUME NEW g \in Handlers, Active(g)'
      PROVE  /\ FailedOK(Run(g), graph[g])'
             /\ RunStatusOf(Run(g))' \notin Closed
             /\ handler'[g].pc # "resume"
                   /\ checkpoint'[Run(g)'].blocked_reason = "tool_failure" =>
                   graph'[g].blocked_reason = "tool_failure"
  <2>1. g # h
    BY <1>2, <1>4 DEF Active, Idle
  <2>2. Active(g) /\ Run(g)' = Run(g) /\ handler'[g] = handler[g] /\ graph'[g] = graph[g]
    BY <1>2, <1>4, <2>1 DEF Active, Run, OthersWait
  <2>3. Run(g) \in Runs \ {Run(h)}
    BY <1>1, <2>1, <2>2, ActiveRun DEF OnePerRun
  <2>4. QED
    BY <1>1, <1>3, <2>2, <2>3 DEF FailedOK, FailureInv
<1>5. NoEffectBehindToolFailure'
  <2> SUFFICES ASSUME NEW r \in Runs, RunStatusOf(r)' = "blocked",
                      runs'[r].blocked_reason = "tool_failure"
               PROVE  r \notin effects
    BY <1>1 DEF NoEffectBehindToolFailure
  <2>1. CASE r = Run(h)
    BY <1>1, <1>3, <2>1 DEF FailedOK, FailureInv
  <2>2. CASE r # Run(h)
    BY <1>3, <2>2 DEF FailureInv, NoEffectBehindToolFailure
  <2>3. QED
    BY <2>1, <2>2
<1>6. QED
  BY <1>1, <1>4, <1>5 DEF FailureInv, FailedOK

LEMMA FailureInit == Init => FailureInv
<1> SUFFICES ASSUME Init PROVE FailureInv
  OBVIOUS
<1>1. StartState.blocked_reason = "none" /\ \A h \in Handlers : ~Active(h)
  BY DEF StartState, Init, WorkflowInit, Active, Idle
<1>2. \A r \in Runs : RunStatusOf(r) = "absent"
  BY DEF Init, RepositoryInit, RunStatusOf
<1>3. QED
  BY <1>1, <1>2 DEF Init, GatewayInit, WorkflowInit, FailureInv, FailedOK,
                    NoEffectBehindToolFailure

LEMMA FailureStep ==
  ASSUME FailuresAreKnown
  PROVE  IInv /\ FailureInv /\ OnePerRun /\ [Next]_vars => FailureInv'
<1> SUFFICES ASSUME IInv, FailureInv, OnePerRun, [Next]_vars PROVE FailureInv'
  OBVIOUS
<1>1. CASE UNCHANGED vars
  <2>1. UNCHANGED <<runs, effects, inflight, checkpoint, handler, graph>>
    BY <1>1 DEF vars, repositoryVars, gatewayVars, workflowVars
  <2>2. /\ \A r : RunStatusOf(r)' = RunStatusOf(r)
        /\ \A r, s : FailedOK(r, s)' <=> FailedOK(r, s)
        /\ \A h : (Active(h)' <=> Active(h)) /\ Run(h)' = Run(h)
    BY <2>1 DEF RunStatusOf, FailedOK, Active, Run
  <2>3. NoEffectBehindToolFailure'
    BY <2>1, <2>2 DEF FailureInv, NoEffectBehindToolFailure
  <2>4. QED
    BY <2>1, <2>2, <2>3 DEF FailureInv
<1>2. ASSUME NEW h \in Handlers, Request(h) PROVE FailureInv'
  <2>1. ASSUME NEW actor \in Actors, NEW case \in Cases, NEW r \in Runs,
               StartRun(h, actor, case, r)
        PROVE  FailureInv'
    BY <2>1, FailureOpen DEF StartRun
  <2>2. ASSUME NEW actor \in Actors, NEW parent \in Runs, NEW r \in Runs,
               Replay(h, actor, parent, r)
        PROVE  FailureInv'
    <3>1. runs[parent].case_id \in Cases
      BY <2>2 DEF Replay, IInv, TypeOK, RepositoryTypeOK, RunRecord
    <3>2. QED
      BY <2>2, <3>1, FailureOpen DEF Replay
  <2>3. QED
    BY <1>2, <2>1, <2>2, FailureApprove DEF Request
<1>3. ASSUME NEW h \in Handlers, WorkflowStep(h) PROVE FailureInv'
  BY <1>3, FailureGather, FailureErrors, FailureDecision, FailureExecute, FailureLookup,
     FailureClosing, FailureResume DEF WorkflowStep
<1>4. ASSUME NEW h \in Handlers, Persist(h) \/ Finish(h) PROVE FailureInv'
  BY <1>4, FailurePersist, FailureFinish
<1>5. \A h \in Handlers : ~Crash(h)
  BY DEF Crash, FailuresAreKnown
<1>6. \A r : ~LateEffect(r)
  BY DEF LateEffect, FailureInv
<1>7. QED
  BY <1>1, <1>2, <1>3, <1>4, <1>5, <1>6 DEF Next

\* While no two requests work on one run, and wherever the gateway lets _execute find out
\* what became of the effect, a run that was blocked by a tool failure has no effect:
\* neither its graph states nor those of its checkpoint give up on an effect that
\* happened, or perform one that was given up.
THEOREM FailedRunsHaveNoEffect ==
  ASSUME FailuresAreKnown
  PROVE  Spec /\ []OnePerRun => []NoEffectBehindToolFailure
<1>1. Init => FailureInv
  BY FailureInit
<1>2. IInv /\ FailureInv /\ OnePerRun /\ [Next]_vars => FailureInv'
  BY FailureStep
<1>3. FailureInv => NoEffectBehindToolFailure
  BY DEF FailureInv
<1>4. QED
  BY <1>1, <1>2, <1>3, ControlPlaneInvariant, PTL DEF Spec

\* Where requests are served one at a time, as the tests of the service send them, the
\* hypothesis about the requests always holds.
THEOREM OneAtATimeNoEffect ==
  ASSUME FailuresAreKnown, \A g, h \in Handlers : g = h
  PROVE  Spec => []NoEffectBehindToolFailure
<1>1. OnePerRun
  BY DEF OnePerRun
<1>2. QED
  BY <1>1, FailedRunsHaveNoEffect, PTL

----------------------------------------------------------------------------
(***************************************************************************)
(* Requests are bounded.                                                   *)
(***************************************************************************)
\* How far a node is from the end of the graph.
LEMMA NodesLeftFacts ==
  ASSUME NEW node
  PROVE  /\ NodesLeft(node) \in 0 .. 10
         /\ node = "intake_validation" => NodesLeft(node) = 10
         /\ node = "authoritative_record_collection" => NodesLeft(node) = 9
         /\ node = "policy_retrieval" => NodesLeft(node) = 8
         /\ node = "conflict_freshness_checks" => NodesLeft(node) = 7
         /\ node = "deterministic_policy_decision" => NodesLeft(node) = 6
         /\ node = "llm_recommendation" => NodesLeft(node) = 5
         /\ node = "human_interrupt" => NodesLeft(node) = 4
         /\ node = "idempotent_execution" => NodesLeft(node) = 3
         /\ node = "outcome_verification" => NodesLeft(node) = 2
         /\ node \in {"audit_closure", "blocked_closure"} => NodesLeft(node) = 1
         /\ node = "END" => NodesLeft(node) = 0
<1>1. /\ NodesLeft("intake_validation") = 10
      /\ NodesLeft("authoritative_record_collection") = 9
      /\ NodesLeft("policy_retrieval") = 8
      /\ NodesLeft("conflict_freshness_checks") = 7
      /\ NodesLeft("deterministic_policy_decision") = 6
      /\ NodesLeft("llm_recommendation") = 5
      /\ NodesLeft("human_interrupt") = 4
      /\ NodesLeft("idempotent_execution") = 3
      /\ NodesLeft("outcome_verification") = 2
      /\ NodesLeft("audit_closure") = 1 /\ NodesLeft("blocked_closure") = 1
      /\ NodesLeft("END") = 0
  BY DEF NodesLeft
<1>2. NodesLeft(node) \in 0 .. 10
  BY DEF NodesLeft
<1>3. QED
  BY <1>1, <1>2

\* Every edge of the graph leads nearer to its end.
LEMMA EdgesDescend ==
  ASSUME NEW g \in WorkflowState
  PROVE  /\ g.current_node = "intake_validation" => NodesLeft(NextNode(g)) = 9
         /\ g.current_node = "authoritative_record_collection" => NodesLeft(NextNode(g)) = 8
         /\ g.current_node = "policy_retrieval" => NodesLeft(NextNode(g)) = 7
         /\ g.current_node = "conflict_freshness_checks" => NodesLeft(NextNode(g)) = 6
         /\ g.current_node = "deterministic_policy_decision" => NodesLeft(NextNode(g)) = 5
         /\ g.current_node = "llm_recommendation" => NodesLeft(NextNode(g)) \in {1, 4}
         /\ g.current_node = "human_interrupt" => NodesLeft(NextNode(g)) \in {1, 3}
         /\ g.current_node = "idempotent_execution" => NodesLeft(NextNode(g)) = 2
         /\ g.current_node = "outcome_verification" => NodesLeft(NextNode(g)) = 1
         /\ g.current_node \in {"audit_closure", "blocked_closure"} =>
               NodesLeft(NextNode(g)) = 0
<1>1. g.current_node = "llm_recommendation" => NextNode(g) \in {"human_interrupt", "blocked_closure"}
  BY NextNodeFacts DEF WorkflowState
<1>2. g.current_node = "human_interrupt" =>
         NextNode(g) \in {"idempotent_execution", "blocked_closure"}
  BY NextNodeFacts DEF WorkflowState
<1>3. g.current_node = "outcome_verification" =>
         NextNode(g) \in {"audit_closure", "blocked_closure"}
  BY NextNodeFacts DEF WorkflowState
<1>4. g.current_node \in {"audit_closure", "blocked_closure"} => NodesLeft(NextNode(g)) = 0
  BY NextNodeFacts, NodesLeftFacts
<1>5. QED
  BY <1>1, <1>2, <1>3, <1>4, NextNodeFacts, NodesLeftFacts

\* The work of a request in the graph.
LEMMA WorkFacts ==
  ASSUME IInv, NEW h \in Handlers, Active(h)
  PROVE  /\ Work(h) \in 1 .. 100
         /\ handler[h].pc = "resume" => Work(h) = 100
         /\ handler[h].pc \notin {"resume", "return"} =>
               /\ Work(h) \in Nat
               /\ Work(h) = 9 * NodesLeft(NextNode(graph[h])) + TurnsLeft(h)
               /\ NodesLeft(NextNode(graph[h])) \in 0 .. 10
               /\ TurnsLeft(h) \in 1 .. 8
<1>1. handler[h] \in HandlerState /\ graph[h] \in WorkflowState
  BY ActiveRun
<1>2. NodesLeft(NextNode(graph[h])) \in 0 .. 10
  BY <1>1, NodesLeftFacts
<1>3. TurnsLeft(h) \in 1 .. 8
  BY <1>1 DEF TurnsLeft, HandlerState, MaxAttempts
<1>4. QED
  BY <1>2, <1>3 DEF Work, Active

\* A request that has less work left has fewer steps left, stored or not.
LEMMA LessWork ==
  ASSUME IInv, NEW h \in Handlers, Work(h) \in Nat, Work(h)' \in Nat,
         Work(h)' < Work(h) \/ (Work(h)' = Work(h) /\ ~saved[h] /\ saved'[h])
  PROVE  StepsLeft(h)' < StepsLeft(h)
<1>1. StepsLeft(h)' = 2 * Work(h)' + IF saved'[h] THEN 0 ELSE 1
  BY DEF StepsLeft
<1>2. StepsLeft(h) = 2 * Work(h) + IF saved[h] THEN 0 ELSE 1
  BY DEF StepsLeft
<1>3. QED
  BY <1>1, <1>2

\* A node returns a graph state that is nearer to the end.
LEMMA ReturnDescends ==
  ASSUME IInv, NEW h \in Handlers, Active(h), handler[h].pc \notin {"resume", "return"},
         NEW g, Return(h, g),
         NodesLeft(NextNode(g)) < NodesLeft(NextNode(graph[h]))
  PROVE  StepsLeft(h)' < StepsLeft(h)
<1>1. handler[h] \in HandlerState
  BY ActiveRun
<1>2. graph'[h] = g /\ handler'[h].pc = "graph" /\ handler'[h].attempt = 1
  BY <1>1 DEF Return, IInv, TypeOK, WorkflowTypeOK, HandlerState
<1>3. TurnsLeft(h)' = 8
  BY <1>2 DEF TurnsLeft, MaxAttempts
<1>4. Work(h)' = 9 * NodesLeft(NextNode(g)) + 8
  BY <1>2, <1>3 DEF Work
<1>5. NodesLeft(NextNode(g)) \in 0 .. 10
  BY <1>2, NodesLeftFacts
<1>6. /\ Work(h) \in Nat /\ Work(h) = 9 * NodesLeft(NextNode(graph[h])) + TurnsLeft(h)
      /\ NodesLeft(NextNode(graph[h])) \in 0 .. 10 /\ TurnsLeft(h) \in 1 .. 8
  BY WorkFacts
<1>7. Work(h)' < Work(h) /\ Work(h)' \in Nat
  BY <1>4, <1>5, <1>6
<1>8. QED
  BY <1>6, <1>7, LessWork

\* A request goes on within its node.
LEMMA TurnDescends ==
  ASSUME IInv, NEW h \in Handlers, Active(h), handler[h].pc \notin {"resume", "return"},
         UNCHANGED <<graph, saved>>,
         \/ handler'[h].pc = "return" /\ NodesLeft(NextNode(graph[h])) > 0
         \/ /\ handler'[h].pc \notin {"idle", "resume", "return"}
            /\ TurnsLeft(h)' \in Nat /\ TurnsLeft(h)' < TurnsLeft(h)
  PROVE  StepsLeft(h)' < StepsLeft(h)
<1>1. /\ Work(h) \in Nat /\ Work(h) = 9 * NodesLeft(NextNode(graph[h])) + TurnsLeft(h)
      /\ NodesLeft(NextNode(graph[h])) \in 0 .. 10 /\ TurnsLeft(h) \in 1 .. 8
  BY WorkFacts
<1>2. CASE handler'[h].pc # "return"
  <2>1. Work(h)' = 9 * NodesLeft(NextNode(graph[h])) + TurnsLeft(h)'
    BY <1>2 DEF Work
  <2>2. Work(h)' < Work(h) /\ Work(h)' \in Nat
    BY <1>1, <1>2, <2>1
  <2>3. QED
    BY <1>1, <2>2, LessWork
<1>3. CASE handler'[h].pc = "return" /\ NodesLeft(NextNode(graph[h])) > 0
  <2>1. Work(h)' = 1
    BY <1>3 DEF Work
  <2>2. QED
    BY <1>1, <1>3, <2>1, LessWork
<1>4. QED
  BY <1>2, <1>3

\* A request has run the node that was next.
LEMMA NodeDescends ==
  ASSUME IInv, IInv', NEW h \in Handlers, Active(h), handler[h].pc \notin {"resume", "return"},
         NEW g, Return(h, g), NEW node, NextNode(graph[h]) = node, node # "END",
         graph[h] \in WorkflowState => g.current_node = node
  PROVE  StepsLeft(h)' < StepsLeft(h)
<1>1. graph[h] \in WorkflowState /\ g.current_node = node
  BY ActiveRun
<1>2. g \in WorkflowState
  BY DEF Return, IInv, TypeOK, WorkflowTypeOK
<1>3. node \in Node \ {"START"}
  BY <1>1, NextNodeFacts DEF WorkflowState, Node
<1>4. NodesLeft(NextNode(g)) < NodesLeft(node)
  BY <1>1, <1>2, <1>3, EdgesDescend, NodesLeftFacts DEF Node
<1>5. QED
  BY <1>4, ReturnDescends

\* A request is over.
LEMMA LeaveDescends ==
  ASSUME IInv, NEW h \in Handlers, Active(h), Leave(h)
  PROVE  StepsLeft(h)' < StepsLeft(h)
<1>1. handler'[h] = Idle /\ Work(h) \in 1 .. 100
  BY WorkFacts DEF Leave, IInv, TypeOK, WorkflowTypeOK
<1>2. Work(h)' = 0
  BY <1>1 DEF Work, Idle
<1>3. QED
  BY <1>1, <1>2, LessWork

LEMMA GatherDescends ==
  ASSUME IInv, IInv', NEW h \in Handlers,
         (\E node \in GatherNodes : Gather(h, node)) \/ Decide(h) \/ Recommend(h)
  PROVE  StepsLeft(h)' < StepsLeft(h)
<1>1. ASSUME NEW node \in GatherNodes, Gather(h, node)
      PROVE  StepsLeft(h)' < StepsLeft(h)
  <2>1. /\ Active(h) /\ handler[h].pc = "graph" /\ NextNode(graph[h]) = node /\ node # "END"
        /\ Return(h, [graph[h] EXCEPT !.current_node = node])
    BY <1>1, AtNode DEF Gather, GatherNodes
  <2>2. graph[h] \in WorkflowState => [graph[h] EXCEPT !.current_node = node].current_node = node
    BY DEF WorkflowState
  <2>3. QED
    BY <2>1, <2>2, NodeDescends
<1>2. CASE Decide(h)
  <2> DEFINE node == "deterministic_policy_decision"
  <2>1. PICK a \in BOOLEAN : Return(h, [graph[h] EXCEPT !.current_node = node, !.allowed = a])
    BY <1>2 DEF Decide
  <2>2. Active(h) /\ handler[h].pc = "graph" /\ NextNode(graph[h]) = node
    BY <1>2, AtNode DEF Decide
  <2>3. graph[h] \in WorkflowState =>
           [graph[h] EXCEPT !.current_node = node, !.allowed = a].current_node = node
    BY DEF WorkflowState
  <2>4. QED
    BY <2>1, <2>2, <2>3, NodeDescends
<1>3. CASE Recommend(h)
  <2> DEFINE node == "llm_recommendation"
  <2>1. PICK u \in BOOLEAN :
           Return(h, [graph[h] EXCEPT !.current_node = node, !.unsupported_claims = u])
    BY <1>3 DEF Recommend
  <2>2. Active(h) /\ handler[h].pc = "graph" /\ NextNode(graph[h]) = node
    BY <1>3, AtNode DEF Recommend
  <2>3. graph[h] \in WorkflowState =>
           [graph[h] EXCEPT !.current_node = node, !.unsupported_claims = u].current_node = node
    BY DEF WorkflowState
  <2>4. QED
    BY <2>1, <2>2, <2>3, NodeDescends
<1>4. QED
  BY <1>1, <1>2, <1>3

LEMMA DecisionDescends ==
  ASSUME IInv, IInv', NEW h \in Handlers,
         Interrupt(h) \/ ReadDecision(h) \/ SaveApproval(h) \/ AnnounceApproval(h)
  PROVE  StepsLeft(h)' < StepsLeft(h)
<1>1. Active(h) /\ handler[h].pc \notin {"resume", "return"}
  BY DEF Interrupt, ReadDecision, SaveApproval, AnnounceApproval, At, Active
<1>2. NextNode(graph[h]) = "human_interrupt"
  BY <1>1 DEF Interrupt, ReadDecision, SaveApproval, AnnounceApproval, At, IInv, StarterInv,
              DeciderInv
<1>3. handler[h] \in HandlerState /\ NodesLeft(NextNode(graph[h])) = 4
  BY <1>1, <1>2, ActiveRun, NodesLeftFacts
<1>4. CASE Interrupt(h)
  <2>1. handler'[h].pc = "return" /\ UNCHANGED <<graph, saved>>
    BY <1>3, <1>4 DEF Interrupt, Goto, IInv, TypeOK, WorkflowTypeOK, HandlerState
  <2>2. QED
    BY <1>1, <1>3, <2>1, TurnDescends
<1>5. ASSUME At(h, "human_interrupt"), Goto(h, "approval"), UNCHANGED <<graph, saved>>
      PROVE  StepsLeft(h)' < StepsLeft(h)
  <2>1. handler[h].pc = "graph" /\ handler'[h].pc = "approval"
    BY <1>3, <1>5 DEF At, Goto, IInv, TypeOK, WorkflowTypeOK, HandlerState
  <2>2. TurnsLeft(h) >= 4 /\ TurnsLeft(h)' = 2
    BY <1>3, <2>1 DEF TurnsLeft, HandlerState, MaxAttempts
  <2>3. TurnsLeft(h) \in 1 .. 8
    BY <1>1, WorkFacts
  <2>4. QED
    BY <1>1, <1>5, <2>1, <2>2, <2>3, TurnDescends
<1>6. CASE ReadDecision(h)
  <2> DEFINE g == [graph[h] EXCEPT !.current_node = "human_interrupt",
                                   !.approval = handler[h].decision,
                                   !.blocked_reason = "hash_mismatch"]
  <2>1. graph[h] \in WorkflowState => g.current_node = "human_interrupt"
    BY DEF WorkflowState
  <2>2. CASE Return(h, g)
    BY <1>1, <1>2, <2>1, <2>2, NodeDescends
  <2>3. CASE Goto(h, "approval") /\ UNCHANGED <<graph, saved>>
    BY <1>5, <1>6, <2>3 DEF ReadDecision
  <2>4. QED
    BY <1>6, <2>2, <2>3 DEF ReadDecision
<1>7. CASE SaveApproval(h)
  <2>1. /\ handler[h].pc = "approval" /\ handler'[h].pc = "approval_saved"
        /\ UNCHANGED <<graph, saved>>
    BY <1>3, <1>7 DEF SaveApproval, Goto, IInv, TypeOK, WorkflowTypeOK, HandlerState
  <2>2. TurnsLeft(h) = 2 /\ TurnsLeft(h)' = 1
    BY <2>1 DEF TurnsLeft
  <2>3. QED
    BY <1>1, <2>1, <2>2, TurnDescends
<1>8. CASE AnnounceApproval(h)
  <2> DEFINE g == [graph[h] EXCEPT !.current_node = "human_interrupt",
                                   !.approval = handler[h].decision]
  <2>1. graph[h] \in WorkflowState => g.current_node = "human_interrupt"
    BY DEF WorkflowState
  <2>2. Return(h, g)
    BY <1>8 DEF AnnounceApproval
  <2>3. QED
    BY <1>1, <1>2, <2>1, <2>2, NodeDescends
<1>9. QED
  BY <1>4, <1>6, <1>7, <1>8

----------------------------------------------------------------------------
\* A turn of the loop of _execute ends: the attempts are counted.
LEMMA RetryDescends ==
  ASSUME IInv, IInv', NEW h \in Handlers,
         At(h, "idempotent_execution") \/ handler[h].pc = "lookup",
         NEW retryable, RetryOrGiveUp(h, retryable)
  PROVE  StepsLeft(h)' < StepsLeft(h)
<1>1. /\ Active(h) /\ handler[h].pc \in {"graph", "lookup"} /\ handler[h] \in HandlerState
      /\ NextNode(graph[h]) = "idempotent_execution"
  BY Executing DEF At
<1>2. CASE retryable /\ handler[h].attempt < MaxAttempts
  <2>1. /\ handler'[h].pc = "graph" /\ handler'[h].attempt = handler[h].attempt + 1
        /\ UNCHANGED <<graph, saved>>
    BY <1>1, <1>2 DEF RetryOrGiveUp, IInv, TypeOK, WorkflowTypeOK, HandlerState
  <2>2. TurnsLeft(h)' = 2 * (MaxAttempts - (handler[h].attempt + 1)) + 4
    BY <2>1 DEF TurnsLeft
  <2>3. TurnsLeft(h) \in {2 * (MaxAttempts - handler[h].attempt) + 4,
                          2 * (MaxAttempts - handler[h].attempt) + 3}
    BY <1>1 DEF TurnsLeft
  <2>4. TurnsLeft(h)' \in Nat /\ TurnsLeft(h)' < TurnsLeft(h)
    BY <1>1, <1>2, <2>2, <2>3 DEF HandlerState, MaxAttempts
  <2>5. QED
    BY <1>1, <2>1, <2>4, TurnDescends
<1>3. CASE ~(retryable /\ handler[h].attempt < MaxAttempts)
  <2> DEFINE g == [graph[h] EXCEPT !.current_node = "idempotent_execution",
                                   !.blocked_reason = "tool_failure",
                                   !.outcome_verified = FALSE]
  <2>1. Return(h, g)
    BY <1>3 DEF RetryOrGiveUp, GiveUp
  <2>2. graph[h] \in WorkflowState => g.current_node = "idempotent_execution"
    BY DEF WorkflowState
  <2>3. QED
    BY <1>1, <2>1, <2>2, NodeDescends
<1>4. QED
  BY <1>2, <1>3

\* A receipt is at hand.
LEMMA HoldDescends ==
  ASSUME IInv, IInv', NEW h \in Handlers,
         At(h, "idempotent_execution") \/ handler[h].pc = "lookup",
         NEW receiptStatus, HoldReceipt(h, receiptStatus)
  PROVE  StepsLeft(h)' < StepsLeft(h)
<1>1. /\ Active(h) /\ handler[h].pc \in {"graph", "lookup"} /\ handler[h] \in HandlerState
  BY Executing DEF At
<1>2. handler'[h].pc = "receipt" /\ UNCHANGED <<graph, saved>>
  BY <1>1 DEF HoldReceipt, IInv, TypeOK, WorkflowTypeOK, HandlerState
<1>3. TurnsLeft(h)' = 2 /\ TurnsLeft(h) >= 3
  BY <1>1, <1>2 DEF TurnsLeft, HandlerState, MaxAttempts
<1>4. TurnsLeft(h) \in 1 .. 8
  BY <1>1, WorkFacts
<1>5. QED
  BY <1>1, <1>2, <1>3, <1>4, TurnDescends

LEMMA ExecuteDescends ==
  ASSUME IInv, IInv', NEW h \in Handlers,
         \/ ExecuteReceipt(h) \/ ExecuteToolFailure(h) \/ ExecuteRaises(h)
         \/ Lookup(h) \/ SaveReceipt(h) \/ AnnounceEffect(h)
  PROVE  StepsLeft(h)' < StepsLeft(h)
<1>1. /\ Active(h) /\ handler[h].pc \notin {"resume", "return"}
      /\ handler[h] \in HandlerState
      /\ NextNode(graph[h]) = "idempotent_execution"
  BY Executing DEF ExecuteReceipt, ExecuteToolFailure, ExecuteRaises, Lookup, SaveReceipt,
                   AnnounceEffect, At
<1>2. CASE ExecuteReceipt(h)
  BY <1>2, HoldDescends DEF ExecuteReceipt
<1>3. CASE ExecuteToolFailure(h)
  <2>1. PICK retryable \in BOOLEAN, committed \in BOOLEAN :
           IF Release(h) \/ committed
           THEN /\ handler' = [handler EXCEPT ![h].pc = "lookup", ![h].retryable = retryable]
                /\ UNCHANGED <<checkpoint, graph, saved>>
           ELSE RetryOrGiveUp(h, retryable)
    BY <1>3 DEF ExecuteToolFailure
  <2>2. At(h, "idempotent_execution")
    BY <1>3 DEF ExecuteToolFailure
  <2>3. CASE Release(h) \/ committed
    <3>1. /\ handler[h].pc = "graph" /\ handler'[h].pc = "lookup"
          /\ handler'[h].attempt = handler[h].attempt /\ UNCHANGED <<graph, saved>>
      BY <1>1, <2>1, <2>2, <2>3 DEF At, IInv, TypeOK, WorkflowTypeOK, HandlerState
    <3>2. /\ TurnsLeft(h) = 2 * (MaxAttempts - handler[h].attempt) + 4
          /\ TurnsLeft(h)' = 2 * (MaxAttempts - handler[h].attempt) + 3
      BY <3>1 DEF TurnsLeft
    <3>3. TurnsLeft(h)' \in Nat /\ TurnsLeft(h)' < TurnsLeft(h)
      BY <1>1, <3>2 DEF HandlerState, MaxAttempts
    <3>4. QED
      BY <1>1, <3>1, <3>3, TurnDescends
  <2>4. QED
    BY <2>1, <2>2, <2>3, RetryDescends
<1>4. CASE ExecuteRaises(h)
  BY <1>1, <1>4, LeaveDescends DEF ExecuteRaises, Unwind
<1>5. CASE Lookup(h)
  BY <1>5, RetryDescends, HoldDescends DEF Lookup
<1>6. CASE SaveReceipt(h)
  <2>1. /\ handler[h].pc = "receipt" /\ handler'[h].pc = "receipt_saved"
        /\ UNCHANGED <<graph, saved>>
    BY <1>1, <1>6 DEF SaveReceipt, Goto, IInv, TypeOK, WorkflowTypeOK, HandlerState
  <2>2. TurnsLeft(h) = 2 /\ TurnsLeft(h)' = 1
    BY <2>1 DEF TurnsLeft
  <2>3. QED
    BY <1>1, <2>1, <2>2, TurnDescends
<1>7. CASE AnnounceEffect(h)
  <2> DEFINE g == [graph[h] EXCEPT !.current_node = "idempotent_execution",
                                   !.receipt = handler[h].receipt]
  <2>1. graph[h] \in WorkflowState => g.current_node = "idempotent_execution"
    BY DEF WorkflowState
  <2>2. Return(h, g)
    BY <1>7 DEF AnnounceEffect
  <2>3. QED
    BY <1>1, <2>1, <2>2, NodeDescends
<1>8. QED
  BY <1>2, <1>3, <1>4, <1>5, <1>6, <1>7

LEMMA ClosingDescends ==
  ASSUME IInv, IInv', NEW h \in Handlers, Verify(h) \/ Close(h) \/ Block(h)
  PROVE  StepsLeft(h)' < StepsLeft(h)
<1>1. PICK node \in {"outcome_verification", "audit_closure", "blocked_closure"} :
         /\ At(h, node)
         /\ \/ node = "outcome_verification" /\ Verify(h)
            \/ node = "audit_closure" /\ Close(h)
            \/ node = "blocked_closure" /\ Block(h)
  BY DEF Verify, Close, Block
<1>2. Active(h) /\ handler[h].pc = "graph" /\ NextNode(graph[h]) = node
  BY <1>1, AtNode
<1>3. \E g : Return(h, g) /\ (graph[h] \in WorkflowState => g.current_node = node)
  <2>1. CASE Verify(h) /\ node = "outcome_verification"
    <3> DEFINE held == graph[h].blocked_reason = "none" /\ graph[h].receipt # "none"
    <3> DEFINE g == [graph[h] EXCEPT !.current_node = "outcome_verification",
                                     !.outcome_verified = held]
    <3>1. Return(h, g) /\ (graph[h] \in WorkflowState => g.current_node = node)
      BY <2>1 DEF Verify, WorkflowState
    <3>2. QED
      BY <3>1
  <2>2. CASE Close(h) /\ node = "audit_closure"
    <3> DEFINE g == [graph[h] EXCEPT !.current_node = "audit_closure"]
    <3>1. Return(h, g) /\ (graph[h] \in WorkflowState => g.current_node = node)
      BY <2>2 DEF Close, WorkflowState
    <3>2. QED
      BY <3>1
  <2>3. CASE Block(h) /\ node = "blocked_closure"
    <3> DEFINE g == [graph[h] EXCEPT !.current_node = "blocked_closure",
                                     !.blocked_reason = IF @ = "none" THEN "policy" ELSE @]
    <3>1. Return(h, g) /\ (graph[h] \in WorkflowState => g.current_node = node)
      BY <2>3 DEF Block, WorkflowState
    <3>2. QED
      BY <3>1
  <2>4. QED
    BY <1>1, <2>1, <2>2, <2>3
<1>4. QED
  BY <1>2, <1>3, NodeDescends

\* A resumed request starts in the middle of the graph, and within it nothing starts
\* again.
LEMMA ResumeDescends ==
  ASSUME IInv, IInv', NEW h \in Handlers, Resume(h)
  PROVE  StepsLeft(h)' < StepsLeft(h)
<1>1. Active(h) /\ handler[h].pc = "resume"
  BY DEF Resume, Active
<1>2. Work(h) = 100
  BY <1>1, WorkFacts
<1>3. handler[h] \in HandlerState
  BY <1>1, ActiveRun
<1>4. handler'[h].pc = "graph" /\ handler'[h].attempt \in 1 .. MaxAttempts
      /\ graph'[h] \in WorkflowState
  BY <1>3 DEF Resume, Goto, IInv, TypeOK, WorkflowTypeOK, HandlerState
<1>5. /\ TurnsLeft(h)' = 2 * (MaxAttempts - handler'[h].attempt) + 4
      /\ Work(h)' = 9 * NodesLeft(NextNode(graph'[h])) + TurnsLeft(h)'
  BY <1>4 DEF TurnsLeft, Work
<1>6. NodesLeft(NextNode(graph'[h])) \in 0 .. 10
  BY NodesLeftFacts
<1>7. Work(h)' \in Nat /\ Work(h)' < Work(h)
  BY <1>2, <1>4, <1>5, <1>6 DEF MaxAttempts
<1>8. QED
  BY <1>2, <1>7, LessWork

LEMMA PersistDescends ==
  ASSUME IInv, NEW h \in Handlers, Persist(h)
  PROVE  StepsLeft(h)' < StepsLeft(h)
<1>1. Active(h) /\ ~saved[h]
  BY DEF Persist, IInv, IdleInv
<1>2. Work(h) \in 1 .. 100
  BY <1>1, WorkFacts
<1>3. Work(h)' = Work(h)
  BY DEF Persist, Work, TurnsLeft
<1>4. saved'[h]
  BY DEF Persist, IInv, TypeOK, WorkflowTypeOK
<1>5. QED
  BY <1>1, <1>2, <1>3, <1>4, LessWork

\* A step of one request leaves the others where they were.
LEMMA OneMoves ==
  ASSUME IInv, NEW h \in Handlers,
         Request(h) \/ WorkflowStep(h) \/ Persist(h) \/ Finish(h) \/ Crash(h)
  PROVE  OthersWait(h)
<1> USE DEF OthersWait, IInv, TypeOK, WorkflowTypeOK
<1>1. CASE Request(h)
  BY <1>1 DEF Request, StartRun, Replay, Approve, Enter
<1>2. CASE WorkflowStep(h)
  <2>1. ASSUME NEW g, Return(h, g) PROVE OthersWait(h)
    BY <2>1 DEF Return
  <2>2. ASSUME NEW label, Goto(h, label), UNCHANGED <<graph, saved>> PROVE OthersWait(h)
    BY <2>2 DEF Goto
  <2>3. ASSUME Unwind(h) PROVE OthersWait(h)
    BY <2>3 DEF Unwind, Leave
  <2>4. ASSUME NEW retryable, RetryOrGiveUp(h, retryable) PROVE OthersWait(h)
    BY <2>1, <2>4 DEF RetryOrGiveUp, GiveUp
  <2>5. ASSUME NEW receiptStatus, HoldReceipt(h, receiptStatus) PROVE OthersWait(h)
    BY <2>5 DEF HoldReceipt
  <2> USE <1>2
  <2> HIDE DEF OthersWait, IInv, TypeOK, WorkflowTypeOK
  <2>6. CASE (\E node \in GatherNodes : Gather(h, node)) \/ Decide(h) \/ Recommend(h)
    BY <2>1, <2>6 DEF Gather, Decide, Recommend
  <2>7. CASE NodeRaises(h) \/ ApprovalConflict(h) \/ ExecuteRaises(h) \/ LookupRaises(h)
             \/ ReceiptConflict(h)
    BY <2>3, <2>7 DEF NodeRaises, ApprovalConflict, ExecuteRaises, LookupRaises,
                      ReceiptConflict
  <2>8. CASE Interrupt(h) \/ ReadDecision(h) \/ SaveApproval(h) \/ AnnounceApproval(h)
    BY <2>1, <2>2, <2>8 DEF Interrupt, ReadDecision, SaveApproval, AnnounceApproval
  <2>9. CASE ExecuteReceipt(h) \/ Lookup(h)
    BY <2>4, <2>5, <2>9 DEF ExecuteReceipt, Lookup
  <2>10. CASE ExecuteToolFailure(h)
    <3>1. PICK retryable \in BOOLEAN, committed \in BOOLEAN :
             IF Release(h) \/ committed
             THEN /\ handler' = [handler EXCEPT ![h].pc = "lookup", ![h].retryable = retryable]
                  /\ UNCHANGED <<checkpoint, graph, saved>>
             ELSE RetryOrGiveUp(h, retryable)
      BY <2>10 DEF ExecuteToolFailure
    <3>2. CASE handler' = [handler EXCEPT ![h].pc = "lookup", ![h].retryable = retryable]
               /\ UNCHANGED <<graph, saved>>
      BY <3>2 DEF OthersWait, IInv, TypeOK, WorkflowTypeOK
    <3>3. QED
      BY <2>4, <3>1, <3>2
  <2>11. CASE SaveReceipt(h) \/ AnnounceEffect(h)
    BY <2>1, <2>2, <2>11 DEF SaveReceipt, AnnounceEffect
  <2>12. CASE Verify(h) \/ Close(h) \/ Block(h)
    BY <2>1, <2>12 DEF Verify, Close, Block
  <2>13. CASE Resume(h)
    BY <2>13 DEF Resume, Goto, OthersWait, IInv, TypeOK, WorkflowTypeOK
  <2>14. QED
    BY <2>6, <2>7, <2>8, <2>9, <2>10, <2>11, <2>12, <2>13 DEF WorkflowStep
<1>3. CASE Persist(h)
  BY <1>3 DEF Persist
<1>4. CASE Finish(h) \/ Crash(h)
  BY <1>4 DEF Finish, Crash, Leave
<1>5. QED
  BY <1>1, <1>2, <1>3, <1>4

LEMMA StepDescends ==
  ASSUME IInv, IInv', NEW h \in Handlers,
         WorkflowStep(h) \/ Persist(h) \/ Finish(h) \/ Crash(h)
  PROVE  StepsLeft(h)' < StepsLeft(h)
<1>1. CASE NodeRaises(h) \/ ApprovalConflict(h) \/ LookupRaises(h) \/ ReceiptConflict(h)
  <2>1. Active(h) /\ Leave(h)
    BY <1>1 DEF NodeRaises, ApprovalConflict, LookupRaises, ReceiptConflict, At, Active, Unwind
  <2>2. QED
    BY <2>1, LeaveDescends
<1>2. CASE Finish(h) \/ Crash(h)
  BY <1>2, LeaveDescends DEF Finish, Crash, At, Active
<1>3. QED
  BY <1>1, <1>2, GatherDescends, DecisionDescends, ExecuteDescends, ClosingDescends,
     ResumeDescends, PersistDescends DEF WorkflowStep

\* No request ever has more than two hundred steps left.
THEOREM StepsLeftBounded == Spec => [](\A h \in Handlers : StepsLeft(h) \in 0 .. 200)
<1>1. ASSUME IInv, NEW h \in Handlers PROVE StepsLeft(h) \in 0 .. 200
  <2>1. CASE ~Active(h)
    BY <1>1, <2>1 DEF IInv, IdleInv, StepsLeft, Work, Active
  <2>2. CASE Active(h) /\ handler[h].pc = "resume"
    <3>1. saved[h]
      BY <1>1, <2>2 DEF IInv, StarterInv, DeciderInv
    <3>2. QED
      BY <1>1, <2>2, <3>1, WorkFacts DEF StepsLeft
  <2>3. CASE Active(h) /\ handler[h].pc # "resume"
    <3>1. Work(h) \in 0 .. 98
      <4>1. CASE handler[h].pc = "return"
        BY <4>1 DEF Work
      <4>2. CASE handler[h].pc # "return"
        BY <1>1, <2>3, <4>2, WorkFacts
      <4>3. QED
        BY <4>1, <4>2
    <3>2. QED
      BY <3>1 DEF StepsLeft
  <2>4. QED
    BY <2>1, <2>2, <2>3
<1>2. IInv => \A h \in Handlers : StepsLeft(h) \in 0 .. 200
  BY <1>1
<1>3. QED
  BY <1>2, ControlPlaneInvariant, PTL

\* Whatever faults happen and whatever other requests do to its run meanwhile, each step
\* of a request leaves it nearer to its end, and no step of another request sets it back.
THEOREM RequestsBounded == Spec => RequestsAreBounded
<1>1. ASSUME IInv, IInv', [Next]_vars, NEW h \in Handlers, Active(h)
      PROVE  \/ UNCHANGED <<handler[h], graph[h], saved[h]>>
             \/ StepsLeft(h)' < StepsLeft(h)
  <2>1. CASE UNCHANGED vars
    BY <2>1 DEF vars, workflowVars
  <2>2. ASSUME NEW g \in Handlers \ {h},
               Request(g) \/ WorkflowStep(g) \/ Persist(g) \/ Finish(g) \/ Crash(g)
        PROVE  UNCHANGED <<handler[h], graph[h], saved[h]>>
    BY <1>1, <2>2, OneMoves DEF OthersWait
  <2>3. CASE WorkflowStep(h) \/ Persist(h) \/ Finish(h) \/ Crash(h)
    BY <1>1, <2>3, StepDescends
  <2>4. ~Request(h)
    BY <1>1 DEF Active, Request, StartRun, Replay, Approve, Enter
  <2>5. ASSUME NEW r, UNCHANGED workflowVars
        PROVE  UNCHANGED <<handler[h], graph[h], saved[h]>>
    BY <2>5 DEF workflowVars
  <2>6. QED
    BY <1>1, <2>1, <2>2, <2>3, <2>4, <2>5 DEF Next
<1>2. IInv /\ IInv' /\ [Next]_vars =>
         [\A h \in Handlers :
            handler[h].pc # "idle" =>
               \/ UNCHANGED <<handler[h], graph[h], saved[h]>>
               \/ StepsLeft(h)' < StepsLeft(h)]_vars
  BY <1>1 DEF Active
<1>3. QED
  BY <1>2, ControlPlaneInvariant, PTL DEF Spec, RequestsAreBounded
=============================================================================
