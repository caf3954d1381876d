------------------------- MODULE ControlPlaneProofs -------------------------
(***************************************************************************)
(* Theorems about ControlPlane, for any number of runs, requests, actors   *)
(* and cases, and for any faults.                                          *)
(*                                                                         *)
(* The graph state of a run exists in several copies: the checkpoint, and  *)
(* one in every request that works on the run.  The invariant says of each *)
(* copy, wherever it comes from and however old it is, that the store and  *)
(* the tool server already hold what the copy claims (StateOK); it is      *)
(* inductive because store and server only grow.                           *)
(***************************************************************************)
EXTENDS ControlPlane, TLAPS

\* Graph state s has passed the policy and the recommendation check.
Cleared(s) ==
    /\ s.allowed /\ ~s.unsupported_claims
    /\ s.current_node \notin
          {"START", "intake_validation", "authoritative_record_collection",
           "policy_retrieval", "conflict_freshness_checks",
           "deterministic_policy_decision"}

\* What a copy s of run r's graph state claims is so: events and rows are the audit
\* events and approvals of the run, receipted says that a receipt is saved, done
\* that the effect has happened.
StateOK(r, s, events, rows, receipted, done) ==
    /\ s.current_node \notin {"START", "intake_validation"} =>
          "authoritative_record_collection" \in events
    /\ s.current_node \notin {"START", "intake_validation", "authoritative_record_collection",
                              "policy_retrieval", "conflict_freshness_checks"} =>
          "deterministic_policy_decision" \in events
    /\ s.current_node \in {"human_interrupt", "idempotent_execution",
                           "outcome_verification", "audit_closure"} =>
          Cleared(s) /\ "paused" \in events
    /\ s.current_node = "human_interrupt" /\ s.blocked_reason = "none" =>
          /\ s.approval \in rows
          /\ s.approval.proposed_action_hash = action_hash(r)
          /\ "approval" \in events
    /\ s.current_node \in {"idempotent_execution", "outcome_verification",
                           "audit_closure"} =>
          s.approval \in rows /\ Permits(s.approval, r) /\ "approval" \in events
    /\ s.receipt # "none" => done /\ receipted /\ "effect" \in events
    /\ s.outcome_verified =>
          s.receipt # "none" /\ "outcome_verification" \in events
    /\ s.current_node = "audit_closure" => s.outcome_verified /\ "audit_closure" \in events
    /\ s.current_node = "blocked_closure" => s.blocked_reason # "none"

\* The claims of s hold in the present state.
Holds(r, s) ==
    StateOK(r, s, run_events[r], approvals[r], receipts[r] # {}, r \in effects)

Active(h) == handler[h].pc # "idle"

\* Request h was sent by an approver (and not by an operator who starts a run).
Decides(h) == handler[h].decision # None

CopiesInv ==
    /\ \A r \in Runs : Holds(r, checkpoint[r])
    /\ \A h \in Handlers : Active(h) => Holds(Run(h), graph[h])

\* An idle handler holds nothing.
IdleInv ==
    \A h \in Handlers :
        ~Active(h) => handler[h] = Idle /\ graph[h] = StartState /\ saved[h]

\* The request that starts a run is alone with it, and has not passed the interrupt.
StarterInv ==
    \A h \in Handlers : Active(h) /\ ~Decides(h) =>
        /\ Run(h) \in Runs
        /\ RunStatusOf(Run(h)) = "running"
        /\ handler[h].pc \in {"graph", "return"}
        /\ handler[h].pc = "return" => NextNode(graph[h]) = "human_interrupt"
        /\ graph[h].current_node \notin {"human_interrupt", "idempotent_execution",
                                         "outcome_verification", "audit_closure"}
        /\ saved[h] => checkpoint[Run(h)] = graph[h]
        /\ \A g \in Handlers : Active(g) /\ Run(g) = Run(h) => g = h

\* A request that decides a run does so for an approver of the tenant, about a run
\* that was paused; between two of its steps it relies on what it has done so far.
DeciderInv ==
    \A h \in Handlers : Active(h) /\ Decides(h) =>
        /\ Run(h) \in Runs
        /\ RunStatusOf(Run(h)) \notin {"absent", "running"}
        /\ handler[h].pc # "return"
        /\ handler[h].decision.actor_id \in Approvers
        /\ SameTenant(handler[h].decision.actor_id, Run(h))
        /\ Cleared(checkpoint[Run(h)])
        /\ IF handler[h].pc = "resume" THEN saved[h] ELSE Cleared(graph[h])
        /\ handler[h].pc \in {"approval", "approval_saved"} =>
              /\ NextNode(graph[h]) = "human_interrupt"
              /\ handler[h].decision.proposed_action_hash = action_hash(Run(h))
              /\ "paused" \in run_events[Run(h)]
        /\ handler[h].pc = "approval_saved" => handler[h].decision \in approvals[Run(h)]
        /\ handler[h].pc \in {"lookup", "receipt", "receipt_saved"} =>
              NextNode(graph[h]) = "idempotent_execution"
        /\ handler[h].pc \in {"receipt", "receipt_saved"} =>
              handler[h].receipt # "none" /\ Run(h) \in effects
        /\ handler[h].pc = "receipt_saved" => receipts[Run(h)] # {}

\* What the status of a run says about the store.
RunInv ==
    \A r \in Runs :
        /\ RunStatusOf(r) = "absent" => checkpoint[r] = StartState
        /\ RunStatusOf(r) \in {"absent", "running"} => approvals[r] = {}
        /\ RunStatusOf(r) = "awaiting_approval" => Cleared(checkpoint[r])

\* Recorded decisions were taken by approvers of the tenant about this action.
RowInv ==
    \A r \in Runs : \A decision \in approvals[r] :
        /\ decision.proposed_action_hash = action_hash(r)
        /\ decision.actor_id \in Approvers
        /\ SameTenant(decision.actor_id, r)
        /\ Cleared(checkpoint[r])

\* Effects are covered by a recorded approving decision.
EffectInv ==
    \A r \in effects \cup inflight : \E decision \in approvals[r] : Permits(decision, r)

\* The unique index on approvals: one decision per run.
UniqueInv ==
    Backend = "postgres" =>
        \A r \in Runs : \A d1, d2 \in approvals[r] : d1 = d2

IInv ==
    /\ TypeOK
    /\ CopiesInv
    /\ IdleInv
    /\ StarterInv
    /\ DeciderInv
    /\ RunInv
    /\ RowInv
    /\ EffectInv
    /\ UniqueInv
    /\ CompletedIsAudited

----------------------------------------------------------------------------
(***************************************************************************)
(* Lemmas about the data.                                                  *)
(***************************************************************************)

\* The edges of the graph, read backwards.
LEMMA NextNodeFacts ==
  ASSUME NEW g \in WorkflowState
  PROVE  /\ NextNode(g) = "intake_validation" <=> g.current_node = "START"
         /\ NextNode(g) = "authoritative_record_collection"
               <=> g.current_node = "intake_validation"
         /\ NextNode(g) = "policy_retrieval"
               <=> g.current_node = "authoritative_record_collection"
         /\ NextNode(g) = "conflict_freshness_checks" <=> g.current_node = "policy_retrieval"
         /\ NextNode(g) = "deterministic_policy_decision"
               <=> g.current_node = "conflict_freshness_checks"
         /\ NextNode(g) = "llm_recommendation"
               <=> g.current_node = "deterministic_policy_decision"
         /\ NextNode(g) = "human_interrupt"
               <=> /\ g.current_node = "llm_recommendation"
                   /\ g.allowed /\ ~g.unsupported_claims
         /\ NextNode(g) = "idempotent_execution"
               <=> /\ g.current_node = "human_interrupt"
                   /\ g.blocked_reason = "none" /\ g.approval.approved
         /\ NextNode(g) = "outcome_verification" <=> g.current_node = "idempotent_execution"
         /\ NextNode(g) = "audit_closure"
               <=> g.current_node = "outcome_verification" /\ g.outcome_verified
         /\ NextNode(g) = "blocked_closure"
               <=> \/ g.current_node = "llm_recommendation"
                      /\ ~(g.allowed /\ ~g.unsupported_claims)
                   \/ g.current_node = "human_interrupt"
                      /\ ~(g.blocked_reason = "none" /\ g.approval.approved)
                   \/ g.current_node = "outcome_verification" /\ ~g.outcome_verified
         /\ NextNode(g) = "END" <=> g.current_node \in {"audit_closure", "blocked_closure"}
<1>1. g.current_node \in Node
  BY DEF WorkflowState
<1>2. /\ AfterRecommendation(g) \in {"human_interrupt", "blocked_closure"}
      /\ AfterRecommendation(g) = "human_interrupt" <=> g.allowed /\ ~g.unsupported_claims
  BY DEF AfterRecommendation
<1>3. /\ AfterApproval(g) \in {"idempotent_execution", "blocked_closure"}
      /\ AfterApproval(g) = "idempotent_execution"
            <=> g.blocked_reason = "none" /\ g.approval.approved
  BY DEF AfterApproval
<1>4. /\ AfterVerification(g) \in {"audit_closure", "blocked_closure"}
      /\ AfterVerification(g) = "audit_closure" <=> g.outcome_verified
  BY DEF AfterVerification, WorkflowState
<1>5. QED
  BY <1>1, <1>2, <1>3, <1>4 DEF NextNode, Node

\* What a copy claims stays so when the store and the server only grow.
LEMMA StateOKMonotone ==
  ASSUME NEW r, NEW s, NEW events, NEW rows, NEW receipted, NEW done,
         NEW events1, NEW rows1, NEW receipted1, NEW done1,
         StateOK(r, s, events, rows, receipted, done),
         events \subseteq events1, rows \subseteq rows1,
         receipted => receipted1, done => done1
  PROVE  StateOK(r, s, events1, rows1, receipted1, done1)
BY DEF StateOK

----------------------------------------------------------------------------
(***************************************************************************)
(* Lemmas about the kinds of step.                                         *)
(***************************************************************************)

\* Events, approvals, receipts and effects are never taken back.
Grow ==
    /\ \A r \in Runs : /\ run_events[r] \subseteq run_events'[r]
                       /\ approvals[r] \subseteq approvals'[r]
                       /\ receipts[r] \subseteq receipts'[r]
    /\ effects \subseteq effects'

\* Requests other than h are where they were.
OthersWait(h) ==
    \A g \in Handlers \ {h} :
        handler'[g] = handler[g] /\ graph'[g] = graph[g] /\ saved'[g] = saved[g]

\* A step of request h preserves CopiesInv if its own copy is right and the
\* checkpoint takes none but this.
LEMMA CopyStep ==
  ASSUME TypeOK, CopiesInv, IdleInv, StarterInv, DeciderInv, Grow,
         NEW h \in Handlers, OthersWait(h),
         Active(h)' => Holds(Run(h), graph[h])',
         \A r \in Runs : \/ checkpoint'[r] = checkpoint[r]
                         \/ Active(h) /\ r = Run(h) /\ checkpoint'[r] = graph[h]
  PROVE  CopiesInv'
<1>1. ASSUME NEW r \in Runs, NEW s, Holds(r, s)
      PROVE  StateOK(r, s, run_events'[r], approvals'[r], receipts'[r] # {}, r \in effects')
  BY <1>1 DEF Holds, Grow, StateOK
<1>2. ASSUME NEW r \in Runs PROVE Holds(r, checkpoint[r])'
  <2>1. Holds(r, checkpoint[r]) /\ (Active(h) => Holds(Run(h), graph[h]))
    BY DEF CopiesInv
  <2>2. CASE checkpoint'[r] = checkpoint[r]
    BY <1>1, <2>1, <2>2 DEF Holds
  <2>3. CASE Active(h) /\ r = Run(h) /\ checkpoint'[r] = graph[h]
    BY <1>1, <2>1, <2>3 DEF Holds
  <2>4. QED
    BY <2>2, <2>3
<1>3. ASSUME NEW g \in Handlers, Active(g)' PROVE Holds(Run(g), graph[g])'
  <2>1. CASE g = h
    BY <1>3, <2>1
  <2>2. CASE g # h
    <3>1. handler'[g] = handler[g] /\ graph'[g] = graph[g]
      BY <2>2 DEF OthersWait
    <3>2. Active(g) /\ Run(g) \in Runs
      BY <1>3, <3>1 DEF Active, StarterInv, DeciderInv, Run
    <3>3. Holds(Run(g), graph[g])
      BY <3>2 DEF CopiesInv
    <3>4. QED
      BY <1>1, <3>1, <3>2, <3>3 DEF Holds, Run
  <2>3. QED
    BY <2>1, <2>2
<1>4. QED
  BY <1>2, <1>3 DEF CopiesInv

\* The type of the graph state and the handler record a step leaves behind.
LEMMA ActiveRun ==
  ASSUME IInv, NEW h \in Handlers, Active(h)
  PROVE  /\ Run(h) \in Runs
         /\ runs[Run(h)] # None
         /\ graph[h] \in WorkflowState
         /\ handler[h] \in HandlerState
BY NoneAssumption
   DEF IInv, TypeOK, WorkflowTypeOK, StarterInv, DeciderInv, RunStatusOf

\* A node returns graph state g, and at most appends events or has its effect.
LEMMA NodeReturns ==
  ASSUME IInv, NEW h \in Handlers, NEW g \in WorkflowState,
         Active(h), Return(h, g),
         UNCHANGED <<runs, approvals, receipts>>,
         RepositoryTypeOK', GatewayTypeOK', Grow, EffectInv',
         StateOK(Run(h), g, run_events'[Run(h)], approvals[Run(h)],
                 receipts[Run(h)] # {}, Run(h) \in effects'),
         ~Decides(h) => g.current_node \notin {"human_interrupt", "idempotent_execution",
                                               "outcome_verification", "audit_closure"},
         Decides(h) => Cleared(g)
  PROVE  IInv'
<1> DEFINE x == [handler[h] EXCEPT !.pc = "graph", !.attempt = 1, !.retryable = FALSE,
                                   !.receipt = "none"]
<1>1. Run(h) \in Runs /\ runs[Run(h)] # None /\ handler[h] \in HandlerState
  BY ActiveRun
<1>2. /\ x \in HandlerState /\ x.run = Run(h) /\ x.decision = handler[h].decision
      /\ x.pc = "graph"
  <2>1. 1 \in 1 .. MaxAttempts
    BY DEF MaxAttempts
  <2>2. x \in HandlerState
    BY <1>1, <2>1 DEF HandlerState
  <2>3. QED
    BY <1>1, <2>2 DEF HandlerState, Run
<1>3. /\ handler' = [handler EXCEPT ![h] = x]
      /\ graph' = [graph EXCEPT ![h] = g]
      /\ saved' = [saved EXCEPT ![h] = FALSE]
      /\ checkpoint' = checkpoint
  BY DEF Return
<1> HIDE DEF x
<1>4. TypeOK'
  BY <1>2, <1>3 DEF IInv, TypeOK, WorkflowTypeOK
<1>5. OthersWait(h) /\ handler'[h] = x /\ graph'[h] = g /\ saved'[h] = FALSE
  BY <1>3 DEF OthersWait, IInv, TypeOK, WorkflowTypeOK
<1>6. CopiesInv'
  <2>1. Holds(Run(h), graph[h])'
    BY <1>2, <1>5 DEF Holds, Run
  <2>2. QED
    BY <1>3, <1>5, <2>1, CopyStep DEF IInv
<1>7. IdleInv'
  BY <1>2, <1>5 DEF IInv, IdleInv, Active, OthersWait
<1>8. StarterInv'
  <2>1. \A f \in Handlers : /\ Active(f)' <=> Active(f)
                            /\ Run(f)' = Run(f)
                            /\ Decides(f)' <=> Decides(f)
    BY <1>2, <1>5 DEF Active, Run, OthersWait, Decides
  <2>2. \A r : RunStatusOf(r)' = RunStatusOf(r)
    BY DEF RunStatusOf
  <2>3. ASSUME NEW f \in Handlers, Active(f)', ~Decides(f)'
        PROVE  /\ Run(f)' \in Runs
               /\ RunStatusOf(Run(f)') = "running"
               /\ \A e \in Handlers : Active(e)' /\ Run(e)' = Run(f)' => e = f
    BY <2>1, <2>3 DEF IInv, StarterInv
  <2>4. ASSUME NEW f \in Handlers, Active(f)', ~Decides(f)'
        PROVE  /\ handler'[f].pc \in {"graph", "return"}
               /\ handler'[f].pc = "return" => NextNode(graph'[f]) = "human_interrupt"
               /\ graph'[f].current_node \notin
                     {"human_interrupt", "idempotent_execution", "outcome_verification",
                      "audit_closure"}
               /\ saved'[f] => checkpoint'[Run(f)'] = graph'[f]
    <3>1. CASE f = h
      BY <1>2, <1>5, <2>1, <2>4, <3>1
    <3>2. CASE f # h
      BY <1>3, <1>5, <2>1, <2>4, <3>2 DEF IInv, StarterInv, OthersWait
    <3>3. QED
      BY <3>1, <3>2
  <2>5. QED
    BY <2>2, <2>3, <2>4 DEF StarterInv, RunStatusOf
<1>9. DeciderInv'
  BY <1>1, <1>2, <1>3, <1>5
     DEF IInv, DeciderInv, Active, Decides, Run, OthersWait, RunStatusOf, SameTenant, Grow
<1>10. RunInv' /\ RowInv' /\ UniqueInv'
  BY <1>3 DEF IInv, RunInv, RowInv, UniqueInv, RunStatusOf, SameTenant
<1>11. CompletedIsAudited'
  BY DEF IInv, CompletedIsAudited, RunStatusOf, Grow
<1>12. QED
  BY <1>4, <1>6, <1>7, <1>8, <1>9, <1>10, <1>11 DEF IInv

\* The checkpoint of the run of request h is kept, or becomes the copy of h.
Stores(h) ==
    \/ checkpoint' = checkpoint
    \/ /\ checkpoint' = [checkpoint EXCEPT ![Run(h)] = graph[h]]
       /\ handler[h].pc # "resume"

\* Storing a copy takes the clearance of no run away, and touches no run another
\* request is starting.
LEMMA StoreStep ==
  ASSUME IInv, NEW h \in Handlers, Active(h), Stores(h), UNCHANGED <<runs, approvals>>
  PROVE  /\ RunInv' /\ RowInv'
         /\ \A f \in Handlers : Active(f) /\ Decides(f) => Cleared(checkpoint'[Run(f)])
         /\ \A f \in Handlers \ {h} :
               Active(f) /\ ~Decides(f) => checkpoint'[Run(f)] = checkpoint[Run(f)]
         /\ \A r \in Runs : \/ checkpoint'[r] = checkpoint[r]
                            \/ r = Run(h) /\ checkpoint'[r] = graph[h]
<1>1. Run(h) \in Runs /\ runs[Run(h)] # None
  BY ActiveRun
<1>2. checkpoint \in [Runs -> WorkflowState]
  BY DEF IInv, TypeOK, WorkflowTypeOK
<1>3. \A r \in Runs : \/ checkpoint'[r] = checkpoint[r]
                      \/ r = Run(h) /\ checkpoint'[r] = graph[h] /\ handler[h].pc # "resume"
  BY <1>1, <1>2 DEF Stores
<1>4. ASSUME NEW r \in Runs, checkpoint'[r] # checkpoint[r]
      PROVE  /\ r = Run(h) /\ RunStatusOf(r) # "absent"
             /\ Decides(h) => Cleared(checkpoint'[r])
             /\ ~Decides(h) => RunStatusOf(r) = "running"
  <2>1. r = Run(h) /\ checkpoint'[r] = graph[h] /\ handler[h].pc # "resume"
    BY <1>3, <1>4
  <2>2. Decides(h) => Cleared(graph[h]) /\ RunStatusOf(r) # "absent"
    BY <2>1 DEF IInv, DeciderInv
  <2>3. ~Decides(h) => RunStatusOf(r) = "running"
    BY <2>1 DEF IInv, StarterInv
  <2>4. QED
    BY <2>1, <2>2, <2>3
<1>5. \A r : RunStatusOf(r)' = RunStatusOf(r)
  BY DEF RunStatusOf
<1>6. RunInv'
  BY <1>4, <1>5 DEF IInv, RunInv
<1>7. RowInv'
  <2> SUFFICES ASSUME NEW r \in Runs, NEW decision \in approvals[r]
               PROVE  Cleared(checkpoint'[r])
    BY DEF RowInv, IInv, SameTenant
  <2>1. Cleared(checkpoint[r]) /\ RunStatusOf(r) \notin {"absent", "running"}
    BY DEF IInv, RowInv, RunInv
  <2>2. QED
    BY <1>4, <2>1
<1>8. ASSUME NEW f \in Handlers, Active(f), Decides(f)
      PROVE  Cleared(checkpoint'[Run(f)])
  <2>1. Run(f) \in Runs /\ Cleared(checkpoint[Run(f)]) /\ RunStatusOf(Run(f)) # "running"
    BY <1>8 DEF IInv, DeciderInv
  <2>2. QED
    BY <1>4, <2>1
<1>9. ASSUME NEW f \in Handlers \ {h}, Active(f), ~Decides(f)
      PROVE  checkpoint'[Run(f)] = checkpoint[Run(f)]
  BY <1>3, <1>9 DEF IInv, StarterInv
<1>10. QED
  BY <1>3, <1>6, <1>7, <1>8, <1>9

\* Request h is over, and its copy is stored or lost.
LEMMA RequestLeaves ==
  ASSUME IInv, NEW h \in Handlers, Active(h), Leave(h), Stores(h),
         UNCHANGED repositoryVars, GatewayTypeOK', EffectInv', effects \subseteq effects'
  PROVE  IInv'
<1> USE DEF repositoryVars
<1>1. /\ handler'[h] = Idle /\ graph'[h] = StartState /\ saved'[h] = TRUE
      /\ OthersWait(h)
  BY DEF Leave, OthersWait, IInv, TypeOK, WorkflowTypeOK
<1>2. Idle \in HandlerState /\ StartState \in WorkflowState
  BY DEF Idle, HandlerState, StartState, WorkflowState, Node, BlockedReason, MaxAttempts
<1>3. Grow
  BY DEF Grow
<1>4. ~Active(h)'
  BY <1>1 DEF Active, Idle
<1>5. /\ RunInv' /\ RowInv'
      /\ \A f \in Handlers : Active(f) /\ Decides(f) => Cleared(checkpoint'[Run(f)])
      /\ \A f \in Handlers \ {h} :
            Active(f) /\ ~Decides(f) => checkpoint'[Run(f)] = checkpoint[Run(f)]
      /\ \A r \in Runs : \/ checkpoint'[r] = checkpoint[r]
                         \/ r = Run(h) /\ checkpoint'[r] = graph[h]
  BY StoreStep
<1>6. TypeOK'
  <2>1. graph[h] \in WorkflowState /\ Run(h) \in Runs
    BY ActiveRun
  <2>2. checkpoint' \in [Runs -> WorkflowState]
    BY <2>1 DEF Stores, IInv, TypeOK, WorkflowTypeOK
  <2>3. QED
    BY <1>2, <2>2 DEF IInv, TypeOK, WorkflowTypeOK, RepositoryTypeOK, Leave
<1>7. CopiesInv'
  BY <1>1, <1>3, <1>4, <1>5, CopyStep DEF IInv
<1>8. IdleInv'
  BY <1>1 DEF IInv, IdleInv, Active, OthersWait
<1>9. \A f \in Handlers : Active(f)' =>
         /\ f # h /\ Active(f) /\ Run(f)' = Run(f) /\ (Decides(f)' <=> Decides(f))
         /\ handler'[f] = handler[f] /\ graph'[f] = graph[f] /\ saved'[f] = saved[f]
  BY <1>1, <1>4 DEF OthersWait, Active, Run, Decides
<1>10. StarterInv'
  <2> SUFFICES ASSUME NEW f \in Handlers, Active(f)', ~Decides(f)'
               PROVE  /\ Run(f)' \in Runs
                      /\ RunStatusOf(Run(f))' = "running"
                      /\ handler'[f].pc \in {"graph", "return"}
                      /\ handler'[f].pc = "return" => NextNode(graph'[f]) = "human_interrupt"
                      /\ graph'[f].current_node \notin
                            {"human_interrupt", "idempotent_execution",
                             "outcome_verification", "audit_closure"}
                      /\ saved'[f] => checkpoint'[Run(f)'] = graph'[f]
                      /\ \A g \in Handlers : Active(g)' /\ Run(g)' = Run(f)' => g = f
    BY DEF StarterInv
  <2>1. f # h /\ Active(f) /\ ~Decides(f) /\ checkpoint'[Run(f)] = checkpoint[Run(f)]
    BY <1>5, <1>9
  <2>2. QED
    BY <1>9, <2>1 DEF IInv, StarterInv, RunStatusOf
<1>11. DeciderInv'
  BY <1>5, <1>9 DEF IInv, DeciderInv, RunStatusOf, SameTenant
<1>12. UniqueInv' /\ CompletedIsAudited'
  BY DEF IInv, UniqueInv, CompletedIsAudited, RunStatusOf
<1>13. QED
  BY <1>5, <1>6, <1>7, <1>8, <1>10, <1>11, <1>12 DEF IInv

\* Request h goes on to record x within a node.
LEMMA RequestMoves ==
  ASSUME IInv, NEW h \in Handlers, Active(h), NEW x \in HandlerState,
         x.pc # "idle", x.run = Run(h), x.decision = handler[h].decision,
         handler' = [handler EXCEPT ![h] = x],
         UNCHANGED <<checkpoint, graph, saved, runs>>,
         RepositoryTypeOK', GatewayTypeOK', Grow,
         \A r \in Runs :
            approvals'[r] # approvals[r] => RunStatusOf(r) \notin {"absent", "running"},
         RowInv', EffectInv', UniqueInv',
         ~Decides(h) => /\ x.pc \in {"graph", "return"}
                        /\ x.pc = "return" => NextNode(graph[h]) = "human_interrupt",
         Decides(h) =>
            /\ handler[h].pc # "resume" /\ x.pc \notin {"resume", "return"}
            /\ x.pc \in {"approval", "approval_saved"} =>
                  /\ NextNode(graph[h]) = "human_interrupt"
                  /\ x.decision.proposed_action_hash = action_hash(Run(h))
                  /\ "paused" \in run_events'[Run(h)]
            /\ x.pc = "approval_saved" => x.decision \in approvals'[Run(h)]
            /\ x.pc \in {"lookup", "receipt", "receipt_saved"} =>
                  NextNode(graph[h]) = "idempotent_execution"
            /\ x.pc \in {"receipt", "receipt_saved"} =>
                  x.receipt # "none" /\ Run(h) \in effects'
            /\ x.pc = "receipt_saved" => receipts'[Run(h)] # {}
  PROVE  IInv'
<1>1. handler'[h] = x /\ OthersWait(h) /\ Active(h)'
  BY DEF OthersWait, Active, IInv, TypeOK, WorkflowTypeOK
<1>2. \A f \in Handlers : /\ Active(f)' <=> Active(f)
                          /\ Run(f)' = Run(f)
                          /\ Decides(f)' <=> Decides(f)
  BY <1>1 DEF Active, Run, OthersWait, Decides
<1>3. TypeOK'
  BY DEF IInv, TypeOK, WorkflowTypeOK
<1>4. CopiesInv'
  <2>1. Run(h) \in Runs
    BY ActiveRun
  <2>2. Holds(Run(h), graph[h])
    BY DEF IInv, CopiesInv
  <2>3. Holds(Run(h), graph[h])'
    BY <1>2, <2>1, <2>2 DEF Holds, Grow, StateOK
  <2>4. QED
    BY <1>1, <2>3, CopyStep DEF IInv
<1>5. IdleInv'
  BY <1>1, <1>2 DEF IInv, IdleInv, OthersWait
<1>6. \A r : RunStatusOf(r)' = RunStatusOf(r)
  BY DEF RunStatusOf
<1>7. StarterInv'
  <2> SUFFICES ASSUME NEW f \in Handlers, Active(f), ~Decides(f)
               PROVE  /\ Run(f) \in Runs
                      /\ RunStatusOf(Run(f)) = "running"
                      /\ handler'[f].pc \in {"graph", "return"}
                      /\ handler'[f].pc = "return" => NextNode(graph[f]) = "human_interrupt"
                      /\ graph[f].current_node \notin
                            {"human_interrupt", "idempotent_execution",
                             "outcome_verification", "audit_closure"}
                      /\ saved[f] => checkpoint[Run(f)] = graph[f]
                      /\ \A g \in Handlers : Active(g) /\ Run(g) = Run(f) => g = f
    BY <1>2, <1>6 DEF StarterInv, RunStatusOf
  <2>1. handler'[f] = handler[f] \/ f = h
    BY <1>1 DEF OthersWait
  <2>2. QED
    BY <1>1, <2>1 DEF IInv, StarterInv
<1>8. DeciderInv'
  <2> SUFFICES ASSUME NEW f \in Handlers, Active(f), Decides(f)
               PROVE  /\ Run(f) \in Runs
                      /\ RunStatusOf(Run(f)) \notin {"absent", "running"}
                      /\ handler'[f].pc # "return"
                      /\ handler'[f].decision.actor_id \in Approvers
                      /\ SameTenant(handler'[f].decision.actor_id, Run(f))
                      /\ Cleared(checkpoint[Run(f)])
                      /\ IF handler'[f].pc = "resume" THEN saved[f] ELSE Cleared(graph[f])
                      /\ handler'[f].pc \in {"approval", "approval_saved"} =>
                            /\ NextNode(graph[f]) = "human_interrupt"
                            /\ handler'[f].decision.proposed_action_hash = action_hash(Run(f))
                            /\ "paused" \in run_events'[Run(f)]
                      /\ handler'[f].pc = "approval_saved" =>
                            handler'[f].decision \in approvals'[Run(f)]
                      /\ handler'[f].pc \in {"lookup", "receipt", "receipt_saved"} =>
                            NextNode(graph[f]) = "idempotent_execution"
                      /\ handler'[f].pc \in {"receipt", "receipt_saved"} =>
                            handler'[f].receipt # "none" /\ Run(f) \in effects'
                      /\ handler'[f].pc = "receipt_saved" => receipts'[Run(f)] # {}
    BY <1>2, <1>6 DEF DeciderInv, RunStatusOf, SameTenant
  <2>1. CASE f = h
    BY <1>1, <2>1 DEF IInv, DeciderInv
  <2>2. CASE f # h
    BY <1>1, <2>2 DEF IInv, DeciderInv, OthersWait, Grow
  <2>3. QED
    BY <2>1, <2>2
<1>9. RunInv'
  BY <1>6 DEF IInv, RunInv
<1>10. CompletedIsAudited'
  BY <1>6 DEF IInv, CompletedIsAudited, Grow
<1>11. QED
  BY <1>3, <1>4, <1>5, <1>7, <1>8, <1>9, <1>10 DEF IInv

----------------------------------------------------------------------------
(***************************************************************************)
(* The steps of the workflow.                                              *)
(***************************************************************************)

\* A request about to run a node.
LEMMA AtNode ==
  ASSUME IInv, NEW h \in Handlers, NEW node, At(h, node)
  PROVE  /\ Active(h) /\ handler[h].pc = "graph" /\ NextNode(graph[h]) = node
         /\ Run(h) \in Runs /\ graph[h] \in WorkflowState /\ handler[h] \in HandlerState
         /\ Holds(Run(h), graph[h])
         /\ Decides(h) => Cleared(graph[h])
         /\ ~Decides(h) => graph[h].current_node \notin
               {"human_interrupt", "idempotent_execution", "outcome_verification",
                "audit_closure"}
BY ActiveRun DEF At, Active, IInv, CopiesInv, DeciderInv, StarterInv

\* A step that leaves the gateway and the approvals alone keeps what is said of effects.
LEMMA GatewayKept ==
  ASSUME IInv, UNCHANGED <<approvals, gatewayVars>>
  PROVE  GatewayTypeOK' /\ EffectInv'
BY DEF IInv, TypeOK, GatewayTypeOK, EffectInv, gatewayVars

\* Appending an event changes nothing else in the store.
LEMMA Appends ==
  ASSUME IInv, NEW r \in Runs, NEW kind \in EventKind, append_event(r, kind),
         UNCHANGED <<runs, approvals, receipts>>, effects \subseteq effects'
  PROVE  /\ RepositoryTypeOK' /\ Grow
         /\ run_events'[r] = run_events[r] \cup {kind}
BY DEF append_event, IInv, TypeOK, RepositoryTypeOK, Grow

LEMMA GatherStep ==
  ASSUME IInv, NEW h \in Handlers, NEW node \in GatherNodes, Gather(h, node)
  PROVE  IInv'
<1> DEFINE g == [graph[h] EXCEPT !.current_node = node]
<1>1. /\ Active(h) /\ Run(h) \in Runs /\ graph[h] \in WorkflowState
      /\ NextNode(graph[h]) = node /\ Holds(Run(h), graph[h])
      /\ Decides(h) => Cleared(graph[h])
  BY AtNode DEF Gather
<1>2. g \in WorkflowState /\ node \in EventKind
  BY <1>1 DEF WorkflowState, GatherNodes, Node, EventKind
<1>3. /\ RepositoryTypeOK' /\ Grow
      /\ run_events'[Run(h)] = run_events[Run(h)] \cup {node}
  BY <1>1, <1>2, Appends DEF Gather, gatewayVars
<1>4. /\ graph[h].current_node \in
            {"START", "intake_validation", "authoritative_record_collection",
             "policy_retrieval"}
      /\ node = "policy_retrieval" \/ node = "conflict_freshness_checks" =>
            graph[h].current_node \notin {"START", "intake_validation"}
  BY <1>1, NextNodeFacts DEF GatherNodes
<1>5. ~Decides(h)
  BY <1>1, <1>4 DEF Cleared
<1>6. StateOK(Run(h), g, run_events'[Run(h)], approvals[Run(h)],
              receipts[Run(h)] # {}, Run(h) \in effects)
  BY <1>1, <1>3, <1>4 DEF Holds, StateOK, GatherNodes, WorkflowState
<1>7. QED
  BY <1>1, <1>2, <1>3, <1>5, <1>6, NodeReturns, GatewayKept
     DEF Gather, gatewayVars, GatherNodes, WorkflowState

LEMMA DecideStep ==
  ASSUME IInv, NEW h \in Handlers, Decide(h)
  PROVE  IInv'
<1> DEFINE node == "deterministic_policy_decision"
<1>1. PICK allowed \in BOOLEAN :
         Return(h, [graph[h] EXCEPT !.current_node = node, !.allowed = allowed])
  BY DEF Decide
<1> DEFINE g == [graph[h] EXCEPT !.current_node = node, !.allowed = allowed]
<1>2. /\ Active(h) /\ Run(h) \in Runs /\ graph[h] \in WorkflowState
      /\ NextNode(graph[h]) = node /\ Holds(Run(h), graph[h])
      /\ Decides(h) => Cleared(graph[h])
  BY AtNode DEF Decide
<1>3. g \in WorkflowState /\ node \in EventKind
  BY <1>2 DEF WorkflowState, Node, EventKind
<1>4. /\ RepositoryTypeOK' /\ Grow
      /\ run_events'[Run(h)] = run_events[Run(h)] \cup {node}
  BY <1>2, <1>3, Appends DEF Decide, gatewayVars
<1>5. graph[h].current_node = "conflict_freshness_checks"
  BY <1>2, NextNodeFacts
<1>6. ~Decides(h)
  BY <1>2, <1>5 DEF Cleared
<1>7. StateOK(Run(h), g, run_events'[Run(h)], approvals[Run(h)],
              receipts[Run(h)] # {}, Run(h) \in effects)
  BY <1>2, <1>4, <1>5 DEF Holds, StateOK, WorkflowState
<1>8. QED
  BY <1>1, <1>2, <1>3, <1>4, <1>6, <1>7, NodeReturns, GatewayKept
     DEF Decide, gatewayVars, WorkflowState

LEMMA RecommendStep ==
  ASSUME IInv, NEW h \in Handlers, Recommend(h)
  PROVE  IInv'
<1> DEFINE node == "llm_recommendation"
<1>1. PICK unsupported \in BOOLEAN :
         Return(h, [graph[h] EXCEPT !.current_node = node,
                                    !.unsupported_claims = unsupported])
  BY DEF Recommend
<1> DEFINE g == [graph[h] EXCEPT !.current_node = node, !.unsupported_claims = unsupported]
<1>2. /\ Active(h) /\ Run(h) \in Runs /\ graph[h] \in WorkflowState
      /\ NextNode(graph[h]) = node /\ Holds(Run(h), graph[h])
      /\ Decides(h) => Cleared(graph[h])
  BY AtNode DEF Recommend
<1>3. g \in WorkflowState /\ node \in EventKind
  BY <1>2 DEF WorkflowState, Node, EventKind
<1>4. /\ RepositoryTypeOK' /\ Grow
      /\ run_events'[Run(h)] = run_events[Run(h)] \cup {node}
  BY <1>2, <1>3, Appends DEF Recommend, gatewayVars
<1>5. graph[h].current_node = "deterministic_policy_decision"
  BY <1>2, NextNodeFacts
<1>6. ~Decides(h)
  BY <1>2, <1>5 DEF Cleared
<1>7. StateOK(Run(h), g, run_events'[Run(h)], approvals[Run(h)],
              receipts[Run(h)] # {}, Run(h) \in effects)
  BY <1>2, <1>4, <1>5 DEF Holds, StateOK, WorkflowState
<1>8. QED
  BY <1>1, <1>2, <1>3, <1>4, <1>6, <1>7, NodeReturns, GatewayKept
     DEF Recommend, gatewayVars, WorkflowState

\* An exception ends the request.
LEMMA UnwindStep ==
  ASSUME IInv, NEW h \in Handlers, Active(h), handler[h].pc # "resume", Unwind(h),
         UNCHANGED repositoryVars, GatewayTypeOK', EffectInv', effects \subseteq effects'
  PROVE  IInv'
BY RequestLeaves DEF Unwind, Stores

LEMMA NodeRaisesStep ==
  ASSUME IInv, NEW h \in Handlers, NodeRaises(h)
  PROVE  IInv'
<1>1. Active(h) /\ handler[h].pc # "resume"
  BY DEF NodeRaises, At, Active
<1>2. QED
  BY <1>1, UnwindStep, GatewayKept DEF NodeRaises, repositoryVars, gatewayVars

LEMMA ApprovalConflictStep ==
  ASSUME IInv, NEW h \in Handlers, ApprovalConflict(h)
  PROVE  IInv'
BY UnwindStep, GatewayKept DEF ApprovalConflict, Active, repositoryVars, gatewayVars

LEMMA LookupRaisesStep ==
  ASSUME IInv, NEW h \in Handlers, LookupRaises(h)
  PROVE  IInv'
BY UnwindStep, GatewayKept DEF LookupRaises, Active, repositoryVars, gatewayVars

LEMMA ReceiptConflictStep ==
  ASSUME IInv, NEW h \in Handlers, ReceiptConflict(h)
  PROVE  IInv'
BY UnwindStep, GatewayKept DEF ReceiptConflict, Active, repositoryVars, gatewayVars

\* A request that asks for the effect has an approving decision on record.
LEMMA ExecutePermitted ==
  ASSUME IInv, NEW h \in Handlers, NextNode(graph[h]) = "idempotent_execution", Active(h)
  PROVE  /\ Decides(h)
         /\ graph[h].current_node = "human_interrupt"
         /\ graph[h].blocked_reason = "none"
         /\ graph[h].approval \in approvals[Run(h)]
         /\ Permits(graph[h].approval, Run(h))
         /\ "approval" \in run_events[Run(h)]
<1>1. graph[h] \in WorkflowState /\ Holds(Run(h), graph[h])
  BY ActiveRun DEF IInv, CopiesInv
<1>2. /\ graph[h].current_node = "human_interrupt"
      /\ graph[h].blocked_reason = "none" /\ graph[h].approval.approved
  BY <1>1, NextNodeFacts
<1>3. Decides(h)
  BY <1>2 DEF IInv, StarterInv
<1>4. QED
  BY <1>1, <1>2, <1>3 DEF Holds, StateOK, Permits

\* Whatever the tool call comes back with, the effect was permitted.
LEMMA ExecuteKeeps ==
  ASSUME IInv, NEW h \in Handlers, Active(h), NextNode(graph[h]) = "idempotent_execution",
         NEW outcome, execute(Run(h), outcome), UNCHANGED approvals
  PROVE  /\ GatewayTypeOK' /\ EffectInv' /\ effects \subseteq effects'
         /\ outcome.kind = "receipt" => Run(h) \in effects'
<1>1. /\ Run(h) \in Runs
      /\ \E decision \in approvals[Run(h)] : Permits(decision, Run(h))
  BY ActiveRun, ExecutePermitted
<1>2. /\ effects' \in {effects, effects \cup {Run(h)}}
      /\ inflight' \in {inflight, inflight \cup {Run(h)}}
      /\ attempts' \in {attempts, attempts \cup {Run(h)}}
  BY DEF execute, SyntheticExecute, McpExecute
<1>3. outcome.kind = "receipt" => Run(h) \in effects'
  BY DEF execute, SyntheticExecute, McpExecute, Receipt, ToolFailure, Exception
<1>4. GatewayTypeOK'
  BY <1>1, <1>2 DEF IInv, TypeOK, GatewayTypeOK
<1>5. EffectInv'
  BY <1>1, <1>2 DEF IInv, EffectInv
<1>6. QED
  BY <1>2, <1>3, <1>4, <1>5

LEMMA ExecuteRaisesStep ==
  ASSUME IInv, NEW h \in Handlers, ExecuteRaises(h)
  PROVE  IInv'
<1>1. /\ Active(h) /\ handler[h].pc # "resume"
      /\ NextNode(graph[h]) = "idempotent_execution"
      /\ UNCHANGED approvals
  BY DEF ExecuteRaises, At, Active, repositoryVars
<1>2. GatewayTypeOK' /\ EffectInv' /\ effects \subseteq effects'
  BY <1>1, ExecuteKeeps DEF ExecuteRaises
<1>3. QED
  BY <1>1, <1>2, UnwindStep DEF ExecuteRaises

LEMMA InterruptStep ==
  ASSUME IInv, NEW h \in Handlers, Interrupt(h)
  PROVE  IInv'
<1> DEFINE x == [handler[h] EXCEPT !.pc = "return"]
<1>1. /\ Active(h) /\ Run(h) \in Runs /\ handler[h] \in HandlerState
      /\ NextNode(graph[h]) = "human_interrupt"
      /\ ~Decides(h)
  BY AtNode DEF Interrupt, Decides
<1>2. /\ x \in HandlerState /\ x.pc = "return" /\ x.run = Run(h)
      /\ x.decision = handler[h].decision
      /\ handler' = [handler EXCEPT ![h] = x]
  BY <1>1 DEF Interrupt, Goto, HandlerState, Run
<1>3. RepositoryTypeOK' /\ Grow
  BY <1>1, Appends DEF Interrupt, gatewayVars, EventKind
<1>4. RowInv' /\ UniqueInv'
  BY DEF Interrupt, IInv, RowInv, UniqueInv, SameTenant
<1>5. QED
  BY <1>1, <1>2, <1>3, <1>4, RequestMoves, GatewayKept DEF Interrupt, gatewayVars

LEMMA ReadDecisionStep ==
  ASSUME IInv, NEW h \in Handlers, ReadDecision(h)
  PROVE  IInv'
<1>1. /\ Active(h) /\ Run(h) \in Runs /\ handler[h] \in HandlerState
      /\ handler[h].pc = "graph"
      /\ graph[h] \in WorkflowState /\ Holds(Run(h), graph[h])
      /\ NextNode(graph[h]) = "human_interrupt"
      /\ Decides(h) /\ Cleared(graph[h])
  BY AtNode DEF ReadDecision, Decides
<1>2. /\ RepositoryTypeOK' /\ Grow
      /\ run_events'[Run(h)] = run_events[Run(h)] \cup {"paused"}
  BY <1>1, Appends DEF ReadDecision, gatewayVars, EventKind
<1>3. /\ UNCHANGED <<runs, approvals, receipts, effects>>
      /\ GatewayTypeOK' /\ EffectInv' /\ RowInv' /\ UniqueInv'
  BY GatewayKept DEF ReadDecision, Return, IInv, RowInv, UniqueInv, SameTenant, gatewayVars
<1>4. graph[h].current_node = "llm_recommendation"
  BY <1>1, NextNodeFacts
<1>5. CASE handler[h].decision.proposed_action_hash # action_hash(Run(h))
  <2> DEFINE g == [graph[h] EXCEPT !.current_node = "human_interrupt",
                                   !.approval = handler[h].decision,
                                   !.blocked_reason = "hash_mismatch"]
  <2>1. Return(h, g)
    BY <1>5 DEF ReadDecision
  <2>2. g \in WorkflowState
    BY <1>1 DEF WorkflowState, Node, HandlerState, BlockedReason
  <2>3. /\ g.current_node = "human_interrupt" /\ g.blocked_reason = "hash_mismatch"
        /\ g.allowed = graph[h].allowed
        /\ g.unsupported_claims = graph[h].unsupported_claims
        /\ g.receipt = graph[h].receipt /\ g.outcome_verified = graph[h].outcome_verified
    BY <1>1 DEF WorkflowState
  <2> HIDE DEF g
  <2>4. Cleared(g)
    BY <1>1, <2>3 DEF Cleared
  <2>5. StateOK(Run(h), g, run_events'[Run(h)], approvals[Run(h)],
                receipts[Run(h)] # {}, Run(h) \in effects')
    BY <1>1, <1>2, <1>3, <1>4, <2>3, <2>4 DEF Holds, StateOK
  <2>6. QED
    BY <1>1, <1>2, <1>3, <2>1, <2>2, <2>4, <2>5, NodeReturns
<1>6. CASE handler[h].decision.proposed_action_hash = action_hash(Run(h))
  <2> DEFINE x == [handler[h] EXCEPT !.pc = "approval"]
  <2>1. /\ x \in HandlerState /\ x.pc = "approval" /\ x.run = Run(h)
        /\ x.decision = handler[h].decision
    BY <1>1 DEF HandlerState, Run
  <2>2. handler' = [handler EXCEPT ![h] = x] /\ UNCHANGED <<checkpoint, graph, saved>>
    BY <1>6 DEF ReadDecision, Goto
  <2> HIDE DEF x
  <2>3. QED
    BY <1>1, <1>2, <1>3, <1>6, <2>1, <2>2, RequestMoves
<1>7. QED
  BY <1>5, <1>6

LEMMA SaveApprovalStep ==
  ASSUME IInv, NEW h \in Handlers, SaveApproval(h)
  PROVE  IInv'
<1> DEFINE x == [handler[h] EXCEPT !.pc = "approval_saved"]
<1> DEFINE d == handler[h].decision
<1>1. /\ Active(h) /\ handler[h].pc = "approval"
      /\ UNCHANGED <<runs, run_events, receipts, checkpoint, graph, saved, effects>>
      /\ GatewayTypeOK'
  BY DEF SaveApproval, Active, gatewayVars, IInv, TypeOK, GatewayTypeOK
<1>2. Decides(h)
  BY <1>1 DEF IInv, StarterInv
<1>3. Run(h) \in Runs /\ handler[h] \in HandlerState /\ d \in ApprovalDecision
  BY <1>1, <1>2, ActiveRun DEF Decides, HandlerState
<1>4. /\ RunStatusOf(Run(h)) \notin {"absent", "running"}
      /\ d.proposed_action_hash = action_hash(Run(h))
      /\ d.actor_id \in Approvers /\ SameTenant(d.actor_id, Run(h))
      /\ Cleared(checkpoint[Run(h)])
      /\ NextNode(graph[h]) = "human_interrupt" /\ "paused" \in run_events[Run(h)]
  BY <1>1, <1>2 DEF IInv, DeciderInv
<1>5. /\ x \in HandlerState /\ x.pc = "approval_saved" /\ x.run = Run(h)
      /\ x.decision = d
      /\ handler' = [handler EXCEPT ![h] = x]
  BY <1>3 DEF SaveApproval, Goto, HandlerState, Run
<1> HIDE DEF x
<1>6. /\ approvals' = [approvals EXCEPT ![Run(h)] = @ \cup {d}]
      /\ \A r \in Runs : approvals'[r] = IF r = Run(h) THEN approvals[r] \cup {d}
                                                       ELSE approvals[r]
      /\ RepositoryTypeOK'
  BY <1>1, <1>3 DEF SaveApproval, save_approval, IInv, TypeOK, RepositoryTypeOK
<1>7. Grow
  BY <1>1, <1>6 DEF Grow
<1>8. RowInv'
  BY <1>1, <1>4, <1>6 DEF IInv, RowInv, SameTenant
<1>9. EffectInv'
  BY <1>6 DEF SaveApproval, gatewayVars, IInv, EffectInv, TypeOK, GatewayTypeOK
<1>10. UniqueInv'
  <2> SUFFICES ASSUME Backend = "postgres", NEW r \in Runs,
                      NEW d1 \in approvals'[r], NEW d2 \in approvals'[r]
               PROVE  d1 = d2
    BY DEF UniqueInv
  <2>1. CASE r # Run(h)
    BY <1>6, <2>1 DEF IInv, UniqueInv
  <2>2. CASE r = Run(h)
    <3>1. approvals[r] = {}
      BY <1>4, <2>2 DEF SaveApproval, ApprovalConflicts, IInv, RowInv
    <3>2. QED
      BY <1>6, <2>2, <3>1
  <2>3. QED
    BY <2>1, <2>2
<1>11. /\ x.decision.proposed_action_hash = action_hash(Run(h))
       /\ "paused" \in run_events'[Run(h)]
       /\ x.decision \in approvals'[Run(h)]
       /\ \A r \in Runs :
             approvals'[r] # approvals[r] => RunStatusOf(r) \notin {"absent", "running"}
  BY <1>1, <1>3, <1>4, <1>5, <1>6
<1>12. QED
  BY <1>1, <1>2, <1>4, <1>5, <1>6, <1>7, <1>8, <1>9, <1>10, <1>11, RequestMoves

LEMMA AnnounceApprovalStep ==
  ASSUME IInv, NEW h \in Handlers, AnnounceApproval(h)
  PROVE  IInv'
<1> DEFINE g == [graph[h] EXCEPT !.current_node = "human_interrupt",
                                 !.approval = handler[h].decision]
<1>1. /\ Active(h) /\ handler[h].pc = "approval_saved" /\ Return(h, g)
      /\ UNCHANGED <<runs, approvals, receipts, effects>>
      /\ GatewayTypeOK' /\ EffectInv'
  BY GatewayKept DEF AnnounceApproval, Active, gatewayVars
<1>2. Decides(h)
  BY <1>1 DEF IInv, StarterInv
<1>3. /\ Run(h) \in Runs /\ handler[h] \in HandlerState /\ graph[h] \in WorkflowState
      /\ Holds(Run(h), graph[h])
  BY <1>1, ActiveRun DEF IInv, CopiesInv
<1>4. /\ handler[h].decision.proposed_action_hash = action_hash(Run(h))
      /\ handler[h].decision \in approvals[Run(h)]
      /\ NextNode(graph[h]) = "human_interrupt" /\ "paused" \in run_events[Run(h)]
      /\ Cleared(graph[h])
  BY <1>1, <1>2 DEF IInv, DeciderInv
<1>5. graph[h].current_node = "llm_recommendation"
  BY <1>3, <1>4, NextNodeFacts
<1>6. /\ RepositoryTypeOK' /\ Grow
      /\ run_events'[Run(h)] = run_events[Run(h)] \cup {"approval"}
  BY <1>1, <1>3, Appends DEF AnnounceApproval, EventKind
<1>7. g \in WorkflowState
  BY <1>3 DEF WorkflowState, Node, HandlerState
<1>8. /\ g.current_node = "human_interrupt" /\ g.approval = handler[h].decision
      /\ g.allowed = graph[h].allowed /\ g.unsupported_claims = graph[h].unsupported_claims
      /\ g.receipt = graph[h].receipt /\ g.outcome_verified = graph[h].outcome_verified
  BY <1>3 DEF WorkflowState
<1> HIDE DEF g
<1>9. Cleared(g)
  BY <1>4, <1>8 DEF Cleared
<1>10. StateOK(Run(h), g, run_events'[Run(h)], approvals[Run(h)],
               receipts[Run(h)] # {}, Run(h) \in effects')
  <2>1. StateOK(Run(h), graph[h], run_events'[Run(h)], approvals[Run(h)],
                receipts[Run(h)] # {}, Run(h) \in effects')
    BY <1>1, <1>3, <1>6 DEF Holds, StateOK
  <2>2. QED
    BY <1>4, <1>5, <1>6, <1>8, <1>9, <2>1 DEF StateOK
<1>11. QED
  BY <1>1, <1>2, <1>6, <1>7, <1>9, <1>10, NodeReturns

\* One turn of the loop ends without a receipt.
LEMMA RetryStep ==
  ASSUME IInv, NEW h \in Handlers, Active(h), handler[h].pc # "resume",
         NextNode(graph[h]) = "idempotent_execution",
         NEW retryable, RetryOrGiveUp(h, retryable),
         UNCHANGED <<runs, approvals, receipts>>,
         RepositoryTypeOK', GatewayTypeOK', Grow, EffectInv'
  PROVE  IInv'
<1>1. /\ Run(h) \in Runs /\ handler[h] \in HandlerState /\ graph[h] \in WorkflowState
      /\ Holds(Run(h), graph[h])
  BY ActiveRun DEF IInv, CopiesInv
<1>2. /\ Decides(h)
      /\ graph[h].current_node = "human_interrupt"
      /\ graph[h].approval \in approvals[Run(h)] /\ Permits(graph[h].approval, Run(h))
      /\ "approval" \in run_events[Run(h)]
  BY ExecutePermitted
<1>3. CASE retryable /\ handler[h].attempt < MaxAttempts
  <2> DEFINE x == [handler[h] EXCEPT !.pc = "graph", !.attempt = @ + 1,
                                     !.retryable = FALSE]
  <2>1. handler' = [handler EXCEPT ![h] = x] /\ UNCHANGED <<checkpoint, graph, saved>>
    BY <1>3 DEF RetryOrGiveUp
  <2>2. handler[h].attempt + 1 \in 1 .. MaxAttempts
    BY <1>1, <1>3 DEF HandlerState, MaxAttempts
  <2>3. /\ x \in HandlerState /\ x.pc = "graph" /\ x.run = Run(h)
        /\ x.decision = handler[h].decision
    BY <1>1, <2>2 DEF HandlerState, Run
  <2>4. RowInv' /\ UniqueInv'
    BY <2>1 DEF IInv, RowInv, UniqueInv, SameTenant
  <2> HIDE DEF x
  <2>5. QED
    BY <1>2, <2>1, <2>3, <2>4, RequestMoves
<1>4. CASE ~(retryable /\ handler[h].attempt < MaxAttempts)
  <2> DEFINE g == [graph[h] EXCEPT !.current_node = "idempotent_execution",
                                   !.blocked_reason = "tool_failure",
                                   !.outcome_verified = FALSE]
  <2>1. Return(h, g)
    BY <1>4 DEF RetryOrGiveUp, GiveUp
  <2>2. g \in WorkflowState
    BY <1>1 DEF WorkflowState, Node, BlockedReason
  <2>3. /\ g.current_node = "idempotent_execution" /\ g.blocked_reason = "tool_failure"
        /\ g.approval = graph[h].approval /\ g.outcome_verified = FALSE
        /\ g.allowed = graph[h].allowed
        /\ g.unsupported_claims = graph[h].unsupported_claims
        /\ g.receipt = graph[h].receipt
    BY <1>1 DEF WorkflowState
  <2> HIDE DEF g
  <2>4. Cleared(g)
    BY <1>1, <1>2, <2>3 DEF Holds, StateOK, Cleared
  <2>5. StateOK(Run(h), g, run_events'[Run(h)], approvals[Run(h)],
                receipts[Run(h)] # {}, Run(h) \in effects')
    BY <1>1, <1>2, <2>3, <2>4 DEF Holds, StateOK, Grow
  <2>6. QED
    BY <1>2, <2>1, <2>2, <2>4, <2>5, NodeReturns
<1>5. QED
  BY <1>3, <1>4

\* A receipt is held.
LEMMA HoldStep ==
  ASSUME IInv, NEW h \in Handlers, Active(h), handler[h].pc # "resume",
         NextNode(graph[h]) = "idempotent_execution",
         NEW receiptStatus \in {"succeeded", "replayed"}, HoldReceipt(h, receiptStatus),
         UNCHANGED repositoryVars, GatewayTypeOK', EffectInv', effects \subseteq effects',
         Run(h) \in effects'
  PROVE  IInv'
<1> USE DEF repositoryVars
<1> DEFINE x == [handler[h] EXCEPT !.pc = "receipt", !.receipt = receiptStatus]
<1>1. handler' = [handler EXCEPT ![h] = x] /\ UNCHANGED <<checkpoint, graph, saved>>
  BY DEF HoldReceipt
<1>2. handler[h] \in HandlerState
  BY ActiveRun
<1>3. /\ x \in HandlerState /\ x.pc = "receipt" /\ x.run = Run(h)
      /\ x.decision = handler[h].decision /\ x.receipt # "none"
  BY <1>2 DEF HandlerState, Run
<1>4. RepositoryTypeOK' /\ RowInv' /\ UniqueInv' /\ Grow
  BY <1>1 DEF IInv, RowInv, UniqueInv, SameTenant, TypeOK, RepositoryTypeOK, Grow
<1>5. Decides(h)
  BY ExecutePermitted
<1> HIDE DEF x
<1>6. QED
  BY <1>1, <1>3, <1>4, <1>5, RequestMoves

LEMMA ExecuteReceiptStep ==
  ASSUME IInv, NEW h \in Handlers, ExecuteReceipt(h)
  PROVE  IInv'
<1>1. /\ Active(h) /\ handler[h].pc # "resume"
      /\ NextNode(graph[h]) = "idempotent_execution"
      /\ UNCHANGED approvals
  BY DEF ExecuteReceipt, At, Active, repositoryVars
<1>2. PICK receiptStatus \in {"succeeded", "replayed"} :
         execute(Run(h), Receipt(receiptStatus)) /\ HoldReceipt(h, receiptStatus)
  BY DEF ExecuteReceipt
<1>3. GatewayTypeOK' /\ EffectInv' /\ effects \subseteq effects' /\ Run(h) \in effects'
  <2>1. Receipt(receiptStatus).kind = "receipt"
    BY DEF Receipt
  <2>2. QED
    BY <1>1, <1>2, <2>1, ExecuteKeeps
<1>4. QED
  BY <1>1, <1>2, <1>3, HoldStep DEF ExecuteReceipt

LEMMA ExecuteToolFailureStep ==
  ASSUME IInv, NEW h \in Handlers, ExecuteToolFailure(h)
  PROVE  IInv'
<1>1. /\ Active(h) /\ handler[h].pc # "resume"
      /\ NextNode(graph[h]) = "idempotent_execution"
      /\ UNCHANGED <<runs, approvals, receipts>>
      /\ append_event(Run(h), "retry")
  BY DEF ExecuteToolFailure, At, Active
<1>2. PICK retryable \in BOOLEAN, committed \in BOOLEAN :
         /\ execute(Run(h), ToolFailure(retryable, committed))
         /\ IF Release(h) \/ committed
            THEN /\ handler' = [handler EXCEPT ![h].pc = "lookup",
                                               ![h].retryable = retryable]
                 /\ UNCHANGED <<checkpoint, graph, saved>>
            ELSE RetryOrGiveUp(h, retryable)
  BY DEF ExecuteToolFailure
<1>3. GatewayTypeOK' /\ EffectInv' /\ effects \subseteq effects'
  BY <1>1, <1>2, ExecuteKeeps
<1>4. handler[h] \in HandlerState /\ Run(h) \in Runs
  BY <1>1, ActiveRun
<1>5. RepositoryTypeOK' /\ Grow
  BY <1>1, <1>3, <1>4, Appends DEF EventKind
<1>6. CASE Release(h) \/ committed
  <2> DEFINE x == [handler[h] EXCEPT !.pc = "lookup", !.retryable = retryable]
  <2>1. handler' = [handler EXCEPT ![h] = x] /\ UNCHANGED <<checkpoint, graph, saved>>
    BY <1>2, <1>6
  <2>2. /\ x \in HandlerState /\ x.pc = "lookup" /\ x.run = Run(h)
        /\ x.decision = handler[h].decision
    BY <1>4 DEF HandlerState, Run
  <2>3. RowInv' /\ UniqueInv'
    BY <1>1, <2>1 DEF IInv, RowInv, UniqueInv, SameTenant
  <2>4. Decides(h)
    BY <1>1, ExecutePermitted
  <2> HIDE DEF x
  <2>5. QED
    BY <1>1, <1>3, <1>5, <2>1, <2>2, <2>3, <2>4, RequestMoves
<1>7. CASE ~(Release(h) \/ committed)
  BY <1>1, <1>2, <1>3, <1>5, <1>7, RetryStep
<1>8. QED
  BY <1>6, <1>7

\* The type of a receipt status.
LEMMA StatusType ==
  ASSUME NEW r, status(r) # "not_found"
  PROVE  status(r) \in {"succeeded", "replayed"} /\ r \in effects
BY DEF status

LEMMA LookupStep ==
  ASSUME IInv, NEW h \in Handlers, Lookup(h)
  PROVE  IInv'
<1>1. /\ Active(h) /\ handler[h].pc = "lookup"
      /\ UNCHANGED repositoryVars
      /\ UNCHANGED gatewayVars
      /\ GatewayTypeOK' /\ EffectInv'
  BY GatewayKept DEF Lookup, Active, repositoryVars
<1>2. Decides(h)
  BY <1>1 DEF IInv, StarterInv
<1>3. NextNode(graph[h]) = "idempotent_execution"
  BY <1>1, <1>2 DEF IInv, DeciderInv
<1>4. RepositoryTypeOK' /\ Grow
  BY <1>1 DEF IInv, TypeOK, RepositoryTypeOK, Grow, repositoryVars, gatewayVars
<1>5. CASE status(Run(h)) # "not_found"
  <2>1. HoldReceipt(h, status(Run(h)))
    BY <1>5 DEF Lookup
  <2>2. status(Run(h)) \in {"succeeded", "replayed"} /\ Run(h) \in effects'
    BY <1>1, <1>5, StatusType DEF gatewayVars
  <2>3. QED
    BY <1>1, <1>3, <2>1, <2>2, HoldStep DEF gatewayVars
<1>6. CASE status(Run(h)) = "not_found"
  <2>1. RetryOrGiveUp(h, handler[h].retryable)
    BY <1>6 DEF Lookup
  <2>2. QED
    BY <1>1, <1>3, <1>4, <2>1, RetryStep DEF repositoryVars
<1>7. QED
  BY <1>5, <1>6

LEMMA SaveReceiptStep ==
  ASSUME IInv, NEW h \in Handlers, SaveReceipt(h)
  PROVE  IInv'
<1> DEFINE x == [handler[h] EXCEPT !.pc = "receipt_saved"]
<1>1. /\ Active(h) /\ handler[h].pc = "receipt"
      /\ UNCHANGED <<runs, run_events, approvals, checkpoint, graph, saved, effects>>
      /\ GatewayTypeOK' /\ EffectInv'
  BY GatewayKept DEF SaveReceipt, Active, gatewayVars
<1>2. Decides(h)
  BY <1>1 DEF IInv, StarterInv
<1>3. Run(h) \in Runs /\ handler[h] \in HandlerState
  BY <1>1, ActiveRun
<1>4. /\ NextNode(graph[h]) = "idempotent_execution"
      /\ handler[h].receipt # "none" /\ Run(h) \in effects
  BY <1>1, <1>2 DEF IInv, DeciderInv
<1>5. /\ x \in HandlerState /\ x.pc = "receipt_saved" /\ x.run = Run(h)
      /\ x.decision = handler[h].decision /\ x.receipt = handler[h].receipt
      /\ handler' = [handler EXCEPT ![h] = x]
  BY <1>3 DEF SaveReceipt, Goto, HandlerState, Run
<1> HIDE DEF x
<1>6. handler[h].receipt \in {"succeeded", "replayed"}
  BY <1>3, <1>4 DEF HandlerState
<1>7. /\ \A r \in Runs : receipts'[r] = IF r = Run(h)
                                        THEN receipts[r] \cup {handler[h].receipt}
                                        ELSE receipts[r]
      /\ RepositoryTypeOK'
  BY <1>1, <1>3, <1>6 DEF SaveReceipt, save_receipt, IInv, TypeOK, RepositoryTypeOK
<1>8. Grow /\ receipts'[Run(h)] # {}
  BY <1>1, <1>3, <1>7 DEF Grow
<1>9. RowInv' /\ UniqueInv'
  BY <1>1 DEF IInv, RowInv, UniqueInv, SameTenant
<1>10. QED
  BY <1>1, <1>2, <1>4, <1>5, <1>7, <1>8, <1>9, RequestMoves

LEMMA AnnounceEffectStep ==
  ASSUME IInv, NEW h \in Handlers, AnnounceEffect(h)
  PROVE  IInv'
<1> DEFINE g == [graph[h] EXCEPT !.current_node = "idempotent_execution",
                                 !.receipt = handler[h].receipt]
<1>1. /\ Active(h) /\ handler[h].pc = "receipt_saved" /\ Return(h, g)
      /\ UNCHANGED <<runs, approvals, receipts, effects>>
      /\ GatewayTypeOK' /\ EffectInv'
  BY GatewayKept DEF AnnounceEffect, Active, gatewayVars
<1>2. Decides(h)
  BY <1>1 DEF IInv, StarterInv
<1>3. /\ Run(h) \in Runs /\ handler[h] \in HandlerState /\ graph[h] \in WorkflowState
      /\ Holds(Run(h), graph[h])
  BY <1>1, ActiveRun DEF IInv, CopiesInv
<1>4. /\ NextNode(graph[h]) = "idempotent_execution"
      /\ Run(h) \in effects /\ receipts[Run(h)] # {} /\ Cleared(graph[h])
  BY <1>1, <1>2 DEF IInv, DeciderInv
<1>5. /\ graph[h].current_node = "human_interrupt"
      /\ graph[h].blocked_reason = "none"
      /\ graph[h].approval \in approvals[Run(h)] /\ Permits(graph[h].approval, Run(h))
      /\ "approval" \in run_events[Run(h)]
  BY <1>1, <1>4, ExecutePermitted
<1>6. /\ RepositoryTypeOK' /\ Grow
      /\ run_events'[Run(h)] = run_events[Run(h)] \cup {"effect"}
  BY <1>1, <1>3, Appends DEF AnnounceEffect, EventKind
<1>7. g \in WorkflowState
  BY <1>3 DEF WorkflowState, Node, HandlerState
<1>8. /\ g.current_node = "idempotent_execution" /\ g.receipt = handler[h].receipt
      /\ g.approval = graph[h].approval
      /\ g.allowed = graph[h].allowed /\ g.unsupported_claims = graph[h].unsupported_claims
      /\ g.outcome_verified = graph[h].outcome_verified
  BY <1>3 DEF WorkflowState
<1> HIDE DEF g
<1>9. Cleared(g)
  BY <1>4, <1>8 DEF Cleared
<1>10. StateOK(Run(h), g, run_events'[Run(h)], approvals[Run(h)],
               receipts[Run(h)] # {}, Run(h) \in effects')
  <2>1. StateOK(Run(h), graph[h], run_events'[Run(h)], approvals[Run(h)],
                receipts[Run(h)] # {}, Run(h) \in effects')
    BY <1>1, <1>3, <1>6 DEF Holds, StateOK
  <2>2. graph[h].outcome_verified => handler[h].receipt # "none"
    BY <1>1, <1>2 DEF IInv, DeciderInv
  <2>3. QED
    BY <1>1, <1>4, <1>5, <1>6, <1>8, <1>9, <2>1, <2>2 DEF StateOK
<1>11. QED
  BY <1>1, <1>2, <1>6, <1>7, <1>9, <1>10, NodeReturns

LEMMA VerifyStep ==
  ASSUME IInv, NEW h \in Handlers, Verify(h)
  PROVE  IInv'
<1> DEFINE held == graph[h].blocked_reason = "none" /\ graph[h].receipt # "none"
<1> DEFINE g == [graph[h] EXCEPT !.current_node = "outcome_verification",
                                 !.outcome_verified = held]
<1>1. /\ Active(h) /\ Run(h) \in Runs /\ graph[h] \in WorkflowState
      /\ Holds(Run(h), graph[h]) /\ Return(h, g)
      /\ NextNode(graph[h]) = "outcome_verification"
      /\ Decides(h) => Cleared(graph[h])
      /\ ~Decides(h) => graph[h].current_node # "idempotent_execution"
      /\ UNCHANGED <<runs, approvals, receipts, effects>>
      /\ GatewayTypeOK' /\ EffectInv'
  BY AtNode, GatewayKept DEF Verify, gatewayVars
<1>2. graph[h].current_node = "idempotent_execution" /\ Decides(h)
  BY <1>1, NextNodeFacts
<1>3. /\ RepositoryTypeOK' /\ Grow
      /\ run_events[Run(h)] \subseteq run_events'[Run(h)]
      /\ held => "outcome_verification" \in run_events'[Run(h)]
  <2>1. CASE held
    BY <1>1, <2>1, Appends DEF Verify, EventKind
  <2>2. CASE ~held
    BY <1>1, <2>2 DEF Verify, IInv, TypeOK, RepositoryTypeOK, Grow
  <2>3. QED
    BY <2>1, <2>2
<1>4. g \in WorkflowState
  BY <1>1 DEF WorkflowState, Node
<1>5. /\ g.current_node = "outcome_verification" /\ g.receipt = graph[h].receipt
      /\ g.approval = graph[h].approval
      /\ g.allowed = graph[h].allowed /\ g.unsupported_claims = graph[h].unsupported_claims
      /\ g.outcome_verified = held
  BY <1>1 DEF WorkflowState
<1> HIDE DEF g
<1>6. Cleared(g)
  BY <1>1, <1>2, <1>5 DEF Cleared
<1>7. StateOK(Run(h), g, run_events'[Run(h)], approvals[Run(h)],
              receipts[Run(h)] # {}, Run(h) \in effects')
  BY <1>1, <1>2, <1>3, <1>5, <1>6 DEF Holds, StateOK
<1>8. QED
  BY <1>1, <1>2, <1>3, <1>4, <1>6, <1>7, NodeReturns

LEMMA CloseStep ==
  ASSUME IInv, NEW h \in Handlers, Close(h)
  PROVE  IInv'
<1> DEFINE g == [graph[h] EXCEPT !.current_node = "audit_closure"]
<1>1. /\ Active(h) /\ Run(h) \in Runs /\ graph[h] \in WorkflowState
      /\ Holds(Run(h), graph[h]) /\ Return(h, g)
      /\ NextNode(graph[h]) = "audit_closure"
      /\ Decides(h) => Cleared(graph[h])
      /\ ~Decides(h) => graph[h].current_node # "outcome_verification"
      /\ UNCHANGED <<runs, approvals, receipts, effects>>
      /\ GatewayTypeOK' /\ EffectInv'
  BY AtNode, GatewayKept DEF Close, gatewayVars
<1>2. /\ graph[h].current_node = "outcome_verification" /\ graph[h].outcome_verified
      /\ Decides(h)
  BY <1>1, NextNodeFacts
<1>3. /\ RepositoryTypeOK' /\ Grow
      /\ run_events'[Run(h)] = run_events[Run(h)] \cup {"audit_closure"}
  BY <1>1, Appends DEF Close, EventKind
<1>4. g \in WorkflowState
  BY <1>1 DEF WorkflowState, Node
<1>5. /\ g.current_node = "audit_closure" /\ g.receipt = graph[h].receipt
      /\ g.approval = graph[h].approval
      /\ g.allowed = graph[h].allowed /\ g.unsupported_claims = graph[h].unsupported_claims
      /\ g.outcome_verified = graph[h].outcome_verified
  BY <1>1 DEF WorkflowState
<1> HIDE DEF g
<1>6. Cleared(g)
  BY <1>1, <1>2, <1>5 DEF Cleared
<1>7. StateOK(Run(h), g, run_events'[Run(h)], approvals[Run(h)],
              receipts[Run(h)] # {}, Run(h) \in effects')
  BY <1>1, <1>2, <1>3, <1>5, <1>6 DEF Holds, StateOK
<1>8. QED
  BY <1>1, <1>2, <1>3, <1>4, <1>6, <1>7, NodeReturns

LEMMA BlockStep ==
  ASSUME IInv, NEW h \in Handlers, Block(h)
  PROVE  IInv'
<1> DEFINE g == [graph[h] EXCEPT !.current_node = "blocked_closure",
                                 !.blocked_reason = IF @ = "none" THEN "policy" ELSE @]
<1>1. /\ Active(h) /\ Run(h) \in Runs /\ graph[h] \in WorkflowState
      /\ Holds(Run(h), graph[h]) /\ Return(h, g)
      /\ NextNode(graph[h]) = "blocked_closure"
      /\ Decides(h) => Cleared(graph[h])
      /\ UNCHANGED <<runs, approvals, receipts, effects>>
      /\ GatewayTypeOK' /\ EffectInv'
  BY AtNode, GatewayKept DEF Block, gatewayVars
<1>2. graph[h].current_node \in {"llm_recommendation", "human_interrupt",
                                 "outcome_verification"}
  BY <1>1, NextNodeFacts
<1>3. /\ RepositoryTypeOK' /\ Grow
      /\ run_events'[Run(h)] = run_events[Run(h)] \cup {"blocked_closure"}
  BY <1>1, Appends DEF Block, EventKind
<1>4. g \in WorkflowState
  BY <1>1 DEF WorkflowState, Node, BlockedReason
<1>5. /\ g.current_node = "blocked_closure" /\ g.receipt = graph[h].receipt
      /\ g.blocked_reason # "none"
      /\ g.approval = graph[h].approval
      /\ g.allowed = graph[h].allowed /\ g.unsupported_claims = graph[h].unsupported_claims
      /\ g.outcome_verified = graph[h].outcome_verified
  BY <1>1 DEF WorkflowState
<1> HIDE DEF g
<1>6. Decides(h) => Cleared(g)
  BY <1>1, <1>2, <1>5 DEF Cleared
<1>7. StateOK(Run(h), g, run_events'[Run(h)], approvals[Run(h)],
              receipts[Run(h)] # {}, Run(h) \in effects')
  BY <1>1, <1>2, <1>3, <1>5 DEF Holds, StateOK
<1>8. QED
  BY <1>1, <1>3, <1>4, <1>5, <1>6, <1>7, NodeReturns

LEMMA ResumeStep ==
  ASSUME IInv, NEW h \in Handlers, Resume(h)
  PROVE  IInv'
<1> USE DEF repositoryVars, gatewayVars
<1> DEFINE x == [handler[h] EXCEPT !.pc = "graph"]
<1>1. Active(h) /\ handler[h].pc = "resume"
  BY DEF Resume, Active
<1>2. Decides(h)
  BY <1>1 DEF IInv, StarterInv
<1>3. Run(h) \in Runs /\ handler[h] \in HandlerState
  BY <1>1, ActiveRun
<1>4. /\ x \in HandlerState /\ x.pc = "graph" /\ x.run = Run(h)
      /\ x.decision = handler[h].decision
      /\ handler' = [handler EXCEPT ![h] = x]
  BY <1>3 DEF Resume, Goto, HandlerState, Run
<1> HIDE DEF x
<1>5. /\ handler'[h] = x /\ graph'[h] = checkpoint[Run(h)] /\ saved'[h] = TRUE
      /\ checkpoint[Run(h)] \in WorkflowState
      /\ OthersWait(h)
  BY <1>3, <1>4 DEF Resume, OthersWait, IInv, TypeOK, WorkflowTypeOK
<1>6. \A f \in Handlers : /\ Active(f)' <=> Active(f)
                          /\ Run(f)' = Run(f)
                          /\ Decides(f)' <=> Decides(f)
  BY <1>1, <1>4, <1>5 DEF Active, Run, Decides, OthersWait
<1>7. TypeOK'
  BY <1>4, <1>5
     DEF Resume, IInv, TypeOK, WorkflowTypeOK, RepositoryTypeOK, GatewayTypeOK
<1>8. CopiesInv'
  <2>1. Grow
    BY DEF Resume, Grow
  <2>2. Holds(Run(h), graph[h])'
    BY <1>3, <1>5, <1>6 DEF Resume, IInv, CopiesInv, Holds
  <2>3. QED
    BY <1>5, <2>1, <2>2, CopyStep DEF Resume, IInv
<1>9. IdleInv'
  BY <1>1, <1>5, <1>6 DEF IInv, IdleInv, OthersWait
<1>10. \A r : RunStatusOf(r)' = RunStatusOf(r)
  BY DEF Resume, RunStatusOf
<1>11. StarterInv'
  <2> SUFFICES ASSUME NEW f \in Handlers, Active(f), ~Decides(f)
               PROVE  /\ Run(f) \in Runs
                      /\ RunStatusOf(Run(f)) = "running"
                      /\ handler'[f].pc \in {"graph", "return"}
                      /\ handler'[f].pc = "return" => NextNode(graph'[f]) = "human_interrupt"
                      /\ graph'[f].current_node \notin
                            {"human_interrupt", "idempotent_execution",
                             "outcome_verification", "audit_closure"}
                      /\ saved'[f] => checkpoint[Run(f)] = graph'[f]
                      /\ \A g \in Handlers : Active(g) /\ Run(g) = Run(f) => g = f
    BY <1>6, <1>10 DEF Resume, StarterInv, RunStatusOf
  <2>1. handler'[f] = handler[f] /\ graph'[f] = graph[f] /\ saved'[f] = saved[f]
    BY <1>2, <1>5 DEF OthersWait
  <2>2. QED
    BY <2>1 DEF IInv, StarterInv
<1>12. DeciderInv'
  <2> SUFFICES ASSUME NEW f \in Handlers, Active(f), Decides(f)
               PROVE  /\ Run(f) \in Runs
                      /\ RunStatusOf(Run(f)) \notin {"absent", "running"}
                      /\ handler'[f].pc # "return"
                      /\ handler'[f].decision.actor_id \in Approvers
                      /\ SameTenant(handler'[f].decision.actor_id, Run(f))
                      /\ Cleared(checkpoint[Run(f)])
                      /\ IF handler'[f].pc = "resume" THEN saved'[f] ELSE Cleared(graph'[f])
                      /\ handler'[f].pc \in {"approval", "approval_saved"} =>
                            /\ NextNode(graph'[f]) = "human_interrupt"
                            /\ handler'[f].decision.proposed_action_hash = action_hash(Run(f))
                            /\ "paused" \in run_events[Run(f)]
                      /\ handler'[f].pc = "approval_saved" =>
                            handler'[f].decision \in approvals[Run(f)]
                      /\ handler'[f].pc \in {"lookup", "receipt", "receipt_saved"} =>
                            NextNode(graph'[f]) = "idempotent_execution"
                      /\ handler'[f].pc \in {"receipt", "receipt_saved"} =>
                            handler'[f].receipt # "none" /\ Run(f) \in effects
                      /\ handler'[f].pc = "receipt_saved" => receipts[Run(f)] # {}
    BY <1>6, <1>10 DEF Resume, DeciderInv, RunStatusOf, SameTenant
  <2>1. CASE f = h
    BY <1>4, <1>5, <2>1 DEF IInv, DeciderInv
  <2>2. CASE f # h
    BY <1>5, <2>2 DEF IInv, DeciderInv, OthersWait
  <2>3. QED
    BY <2>1, <2>2
<1>13. RunInv' /\ RowInv' /\ EffectInv' /\ UniqueInv' /\ CompletedIsAudited'
  BY <1>10 DEF Resume, IInv, RunInv, RowInv, EffectInv, UniqueInv, CompletedIsAudited,
               SameTenant
<1>14. QED
  BY <1>7, <1>8, <1>9, <1>11, <1>12, <1>13 DEF IInv

LEMMA WorkflowStepKeeps ==
  ASSUME IInv, NEW h \in Handlers, WorkflowStep(h)
  PROVE  IInv'
BY GatherStep, DecideStep, RecommendStep, NodeRaisesStep, InterruptStep, ReadDecisionStep,
   SaveApprovalStep, ApprovalConflictStep, AnnounceApprovalStep, ExecuteReceiptStep,
   ExecuteToolFailureStep, ExecuteRaisesStep, LookupStep, LookupRaisesStep, SaveReceiptStep,
   ReceiptConflictStep, AnnounceEffectStep, VerifyStep, CloseStep, BlockStep, ResumeStep
   DEF WorkflowStep

----------------------------------------------------------------------------
(***************************************************************************)
(* The steps around the workflow.                                          *)
(***************************************************************************)

LEMMA PersistStep ==
  ASSUME IInv, NEW h \in Handlers, Persist(h)
  PROVE  IInv'
<1> USE DEF repositoryVars, gatewayVars
<1>1. Active(h) /\ handler[h].pc # "resume"
  BY DEF Persist, IInv, IdleInv, StarterInv, DeciderInv
<1>2. Run(h) \in Runs /\ graph[h] \in WorkflowState
  BY <1>1, ActiveRun
<1>3. /\ UNCHANGED <<handler, graph, runs, run_events, approvals, receipts, effects>>
      /\ saved' = [saved EXCEPT ![h] = TRUE]
      /\ checkpoint' = [checkpoint EXCEPT ![Run(h)] = graph[h]]
  BY DEF Persist
<1>4. /\ RunInv' /\ RowInv'
      /\ \A f \in Handlers : Active(f) /\ Decides(f) => Cleared(checkpoint'[Run(f)])
      /\ \A f \in Handlers \ {h} :
            Active(f) /\ ~Decides(f) => checkpoint'[Run(f)] = checkpoint[Run(f)]
      /\ \A r \in Runs : \/ checkpoint'[r] = checkpoint[r]
                         \/ r = Run(h) /\ checkpoint'[r] = graph[h]
  BY <1>1, <1>3, StoreStep DEF Stores
<1>5. TypeOK'
  BY <1>2, <1>3 DEF Persist, IInv, TypeOK, RepositoryTypeOK, GatewayTypeOK, WorkflowTypeOK
<1>6. /\ saved'[h] = TRUE /\ OthersWait(h) /\ checkpoint'[Run(h)] = graph[h]
  BY <1>2, <1>3 DEF OthersWait, IInv, TypeOK, WorkflowTypeOK
<1>7. \A f \in Handlers : /\ Active(f)' <=> Active(f)
                          /\ Run(f)' = Run(f)
                          /\ Decides(f)' <=> Decides(f)
  BY <1>3 DEF Active, Run, Decides
<1>8. CopiesInv'
  <2>1. Grow
    BY <1>3 DEF Grow
  <2>2. Holds(Run(h), graph[h])'
    BY <1>1, <1>3, <1>7 DEF IInv, CopiesInv, Holds
  <2>3. QED
    BY <1>1, <1>4, <1>6, <2>1, <2>2, CopyStep DEF IInv
<1>9. IdleInv'
  BY <1>1, <1>3, <1>6, <1>7 DEF IInv, IdleInv, OthersWait
<1>10. \A r : RunStatusOf(r)' = RunStatusOf(r)
  BY <1>3 DEF RunStatusOf
<1>11. StarterInv'
  <2> SUFFICES ASSUME NEW f \in Handlers, Active(f), ~Decides(f)
               PROVE  /\ Run(f) \in Runs
                      /\ RunStatusOf(Run(f)) = "running"
                      /\ handler[f].pc \in {"graph", "return"}
                      /\ handler[f].pc = "return" => NextNode(graph[f]) = "human_interrupt"
                      /\ graph[f].current_node \notin
                            {"human_interrupt", "idempotent_execution",
                             "outcome_verification", "audit_closure"}
                      /\ saved'[f] => checkpoint'[Run(f)] = graph[f]
                      /\ \A g \in Handlers : Active(g) /\ Run(g) = Run(f) => g = f
    BY <1>3, <1>7, <1>10 DEF StarterInv, RunStatusOf
  <2>1. saved'[f] => checkpoint'[Run(f)] = graph[f]
    BY <1>4, <1>6 DEF IInv, StarterInv, OthersWait
  <2>2. QED
    BY <2>1 DEF IInv, StarterInv
<1>12. DeciderInv'
  BY <1>3, <1>4, <1>6, <1>7, <1>10
     DEF IInv, DeciderInv, RunStatusOf, SameTenant, OthersWait
<1>13. EffectInv' /\ UniqueInv' /\ CompletedIsAudited'
  BY <1>3, <1>10 DEF Persist, IInv, EffectInv, UniqueInv, CompletedIsAudited
<1>14. QED
  BY <1>4, <1>5, <1>8, <1>9, <1>11, <1>12, <1>13 DEF IInv

LEMMA CrashStep ==
  ASSUME IInv, NEW h \in Handlers, Crash(h)
  PROVE  IInv'
<1>1. /\ Active(h) /\ Leave(h) /\ Stores(h) /\ UNCHANGED repositoryVars
      /\ UNCHANGED <<effects, attempts, approvals>>
  BY DEF Crash, Active, Stores, repositoryVars
<1>2. GatewayTypeOK' /\ EffectInv'
  <2>1. CASE UNCHANGED inflight
    BY <1>1, <2>1, GatewayKept DEF gatewayVars
  <2>2. CASE At(h, "idempotent_execution") /\ inflight' = inflight \cup {Run(h)}
    <3>1. /\ Run(h) \in Runs
          /\ \E decision \in approvals[Run(h)] : Permits(decision, Run(h))
      BY <1>1, <2>2, ActiveRun, ExecutePermitted DEF At
    <3>2. QED
      BY <1>1, <2>2, <3>1 DEF IInv, TypeOK, GatewayTypeOK, EffectInv
  <2>3. QED
    BY <2>1, <2>2 DEF Crash
<1>3. QED
  BY <1>1, <1>2, RequestLeaves

LEMMA LateEffectStep ==
  ASSUME IInv, NEW r \in Runs, LateEffect(r), UNCHANGED <<repositoryVars, workflowVars>>
  PROVE  IInv'
<1> USE DEF repositoryVars, workflowVars
<1>1. effects \subseteq effects' /\ TypeOK'
  BY DEF LateEffect, IInv, TypeOK, RepositoryTypeOK, GatewayTypeOK, WorkflowTypeOK
<1>2. \A f \in Handlers : /\ Active(f)' <=> Active(f)
                          /\ Run(f)' = Run(f)
                          /\ Decides(f)' <=> Decides(f)
  BY DEF Active, Run, Decides
<1>3. CopiesInv'
  <2>1. ASSUME NEW q, NEW s, Holds(q, s) PROVE Holds(q, s)'
    BY <1>1, <2>1 DEF Holds, StateOK
  <2>2. ASSUME NEW q \in Runs PROVE Holds(q, checkpoint[q])'
    BY <1>1 DEF Holds, StateOK, IInv, CopiesInv
  <2>3. ASSUME NEW f \in Handlers, Active(f) PROVE Holds(Run(f), graph[f])'
    BY <1>1, <1>2, <2>3 DEF Holds, StateOK, IInv, CopiesInv
  <2>4. QED
    BY <1>2, <2>2, <2>3 DEF CopiesInv
<1>4. \A q : RunStatusOf(q)' = RunStatusOf(q)
  BY DEF RunStatusOf
<1>5. IdleInv' /\ StarterInv'
  BY <1>2, <1>4 DEF IInv, IdleInv, StarterInv
<1>6. DeciderInv'
  BY <1>1, <1>2, <1>4 DEF IInv, DeciderInv, SameTenant
<1>7. RunInv' /\ RowInv' /\ UniqueInv' /\ CompletedIsAudited'
  BY <1>1, <1>4 DEF IInv, RunInv, RowInv, UniqueInv, CompletedIsAudited, SameTenant
<1>8. EffectInv'
  BY DEF LateEffect, IInv, EffectInv
<1>9. QED
  BY <1>1, <1>3, <1>5, <1>6, <1>7, <1>8 DEF IInv

\* The claims of the empty graph state hold of any run.
LEMMA StartHolds ==
  ASSUME NEW r, NEW events, NEW rows, NEW receipted, NEW done
  PROVE  StateOK(r, StartState, events, rows, receipted, done)
BY DEF StateOK, StartState

\* A handler takes a request that creates run r.
LEMMA EnterNewStep ==
  ASSUME IInv, NEW h \in Handlers, NEW r \in Runs, runs[r] = None,
         NEW case \in Cases, NEW parent \in Runs \cup {None},
         create_run(r, case, parent), Enter(h, r, "graph", None),
         UNCHANGED <<approvals, receipts>>,
         run_events' \in [Runs -> SUBSET EventKind],
         \A q \in Runs : run_events[q] \subseteq run_events'[q]
  PROVE  IInv'
<1> USE DEF gatewayVars
<1> DEFINE record == [case_id |-> case, status |-> "running", blocked_reason |-> "none",
                      replay_of |-> parent]
<1> DEFINE x == [Idle EXCEPT !.pc = "graph", !.run = r, !.decision = None]
<1>1. /\ x \in HandlerState /\ x.pc = "graph" /\ x.run = r /\ x.decision = None
      /\ handler' = [handler EXCEPT ![h] = x]
      /\ UNCHANGED <<checkpoint, graph, saved, effects, inflight, attempts>>
  <2>1. 1 \in 1 .. MaxAttempts
    BY DEF MaxAttempts
  <2>2. x \in HandlerState /\ x.pc = "graph" /\ x.run = r /\ x.decision = None
    BY <2>1 DEF Idle, HandlerState
  <2>3. QED
    BY <2>2 DEF Enter
<1>2. record \in RunRecord /\ record.status = "running"
  BY DEF RunRecord, RunStatus, BlockedReason
<1>3. \A q \in Runs : runs'[q] = IF q = r THEN record ELSE runs[q]
  BY DEF create_run, IInv, TypeOK, RepositoryTypeOK
<1>4. TypeOK'
  BY <1>1, <1>2 DEF create_run, IInv, TypeOK, RepositoryTypeOK, GatewayTypeOK, WorkflowTypeOK
<1> HIDE DEF record, x
<1>5. /\ ~Active(h) /\ graph[h] = StartState /\ checkpoint[r] = StartState
      /\ approvals[r] = {}
  BY DEF Enter, Active, IInv, IdleInv, RunInv, RunStatusOf
<1>6. /\ handler'[h] = x /\ OthersWait(h) /\ Grow
  BY <1>1 DEF OthersWait, Grow, IInv, TypeOK, WorkflowTypeOK
<1>7. /\ Active(h)' /\ ~Decides(h)' /\ Run(h)' = r
      /\ \A f \in Handlers \ {h} : /\ Active(f)' <=> Active(f)
                                   /\ Run(f)' = Run(f)
                                   /\ Decides(f)' <=> Decides(f)
  BY <1>1, <1>6 DEF Active, Run, Decides, OthersWait
<1>8. \A f \in Handlers : Active(f) => Run(f) \in Runs \ {r}
  BY ActiveRun
<1>9. /\ RunStatusOf(r)' = "running" /\ RunStatusOf(r) = "absent"
      /\ \A q \in Runs \ {r} : RunStatusOf(q)' = RunStatusOf(q)
  BY <1>2, <1>3, NoneAssumption DEF RunStatusOf
<1>10. \A q \in Runs \ {r} : \A a : SameTenant(a, q)' <=> SameTenant(a, q)
  BY <1>3 DEF SameTenant
<1>11. CopiesInv'
  BY <1>1, <1>5, <1>6, StartHolds, CopyStep DEF IInv, Holds
<1>12. IdleInv'
  BY <1>1, <1>6, <1>7 DEF IInv, IdleInv, OthersWait
<1>13. StarterInv'
  <2> SUFFICES ASSUME NEW f \in Handlers, Active(f)', ~Decides(f)'
               PROVE  /\ Run(f)' \in Runs
                      /\ RunStatusOf(Run(f))' = "running"
                      /\ handler'[f].pc \in {"graph", "return"}
                      /\ handler'[f].pc = "return" => NextNode(graph[f]) = "human_interrupt"
                      /\ graph[f].current_node \notin
                            {"human_interrupt", "idempotent_execution",
                             "outcome_verification", "audit_closure"}
                      /\ saved[f] => checkpoint[Run(f)'] = graph[f]
                      /\ \A g \in Handlers : Active(g)' /\ Run(g)' = Run(f)' => g = f
    BY <1>1 DEF StarterInv
  <2>1. CASE f = h
    <3>1. RunStatusOf(Run(f))' = "running"
      BY <1>7, <1>9, <2>1 DEF RunStatusOf
    <3>2. QED
      BY <1>1, <1>5, <1>6, <1>7, <1>8, <2>1, <3>1 DEF StartState
  <2>2. CASE f # h
    <3>1. /\ Active(f) /\ ~Decides(f) /\ Run(f)' = Run(f) /\ handler'[f] = handler[f]
      BY <1>6, <1>7, <2>2 DEF OthersWait
    <3>2. Run(f) \in Runs \ {r} /\ RunStatusOf(Run(f)) = "running"
      BY <1>8, <3>1 DEF IInv, StarterInv
    <3>3. RunStatusOf(Run(f))' = "running"
      BY <1>9, <3>1, <3>2 DEF RunStatusOf
    <3>4. \A g \in Handlers : Active(g)' /\ Run(g)' = Run(f)' => g = f
      BY <1>7, <3>1, <3>2 DEF IInv, StarterInv
    <3>5. QED
      BY <3>1, <3>3, <3>4 DEF IInv, StarterInv
  <2>3. QED
    BY <2>1, <2>2
<1>14. DeciderInv'
  <2> SUFFICES ASSUME NEW f \in Handlers, Active(f)', Decides(f)'
               PROVE  /\ Run(f)' \in Runs
                      /\ RunStatusOf(Run(f))' \notin {"absent", "running"}
                      /\ handler'[f].pc # "return"
                      /\ handler'[f].decision.actor_id \in Approvers
                      /\ SameTenant(handler[f].decision.actor_id, Run(f))'
                      /\ Cleared(checkpoint[Run(f)'])
                      /\ IF handler'[f].pc = "resume" THEN saved[f] ELSE Cleared(graph[f])
                      /\ handler'[f].pc \in {"approval", "approval_saved"} =>
                            /\ NextNode(graph[f]) = "human_interrupt"
                            /\ handler'[f].decision.proposed_action_hash = action_hash(Run(f)')
                            /\ "paused" \in run_events'[Run(f)']
                      /\ handler'[f].pc = "approval_saved" =>
                            handler'[f].decision \in approvals[Run(f)']
                      /\ handler'[f].pc \in {"lookup", "receipt", "receipt_saved"} =>
                            NextNode(graph[f]) = "idempotent_execution"
                      /\ handler'[f].pc \in {"receipt", "receipt_saved"} =>
                            handler'[f].receipt # "none" /\ Run(f)' \in effects
                      /\ handler'[f].pc = "receipt_saved" => receipts[Run(f)'] # {}
    BY <1>1 DEF DeciderInv
  <2>1. /\ f # h /\ Active(f) /\ Decides(f) /\ Run(f)' = Run(f) /\ handler'[f] = handler[f]
    BY <1>6, <1>7 DEF OthersWait
  <2>2. Run(f) \in Runs \ {r}
    BY <1>8, <2>1
  <2>3. /\ RunStatusOf(Run(f))' = RunStatusOf(Run(f))
        /\ SameTenant(handler[f].decision.actor_id, Run(f))'
              <=> SameTenant(handler[f].decision.actor_id, Run(f))
    BY <1>3, <2>1, <2>2 DEF RunStatusOf, SameTenant
  <2>4. "paused" \in run_events[Run(f)] => "paused" \in run_events'[Run(f)']
    BY <2>1, <2>2
  <2>5. QED
    BY <2>1, <2>2, <2>3, <2>4 DEF IInv, DeciderInv
<1>15. RunInv'
  BY <1>1, <1>5, <1>9 DEF IInv, RunInv
<1>16. RowInv'
  BY <1>1, <1>5, <1>10 DEF IInv, RowInv
<1>17. EffectInv' /\ UniqueInv'
  BY <1>1 DEF IInv, EffectInv, UniqueInv
<1>18. CompletedIsAudited'
  BY <1>1, <1>6, <1>9 DEF IInv, CompletedIsAudited, Grow
<1>19. QED
  BY <1>4, <1>11, <1>12, <1>13, <1>14, <1>15, <1>16, <1>17, <1>18 DEF IInv

LEMMA StartRunStep ==
  ASSUME IInv, NEW h \in Handlers, NEW actor \in Actors, NEW case \in Cases, NEW r \in Runs,
         StartRun(h, actor, case, r)
  PROVE  IInv'
<1>1. run_events' \in [Runs -> SUBSET EventKind]
  BY DEF StartRun, IInv, TypeOK, RepositoryTypeOK
<1>2. QED
  BY <1>1, EnterNewStep DEF StartRun

LEMMA ReplayStep ==
  ASSUME IInv, NEW h \in Handlers, NEW actor \in Actors, NEW parent \in Runs, NEW r \in Runs,
         Replay(h, actor, parent, r)
  PROVE  IInv'
<1>1. /\ run_events' \in [Runs -> SUBSET EventKind]
      /\ \A q \in Runs : run_events[q] \subseteq run_events'[q]
  BY DEF Replay, append_event, EventKind, IInv, TypeOK, RepositoryTypeOK
<1>2. runs[parent].case_id \in Cases
  BY DEF Replay, IInv, TypeOK, RepositoryTypeOK, RunRecord
<1>3. QED
  BY <1>1, <1>2, EnterNewStep DEF Replay

LEMMA ApproveStep ==
  ASSUME IInv, NEW h \in Handlers, NEW actor \in Actors, NEW r \in Runs,
         NEW decision \in ApprovalDecision, Approve(h, actor, r, decision)
  PROVE  IInv'
<1> USE DEF repositoryVars, gatewayVars
<1> DEFINE x == [Idle EXCEPT !.pc = "resume", !.run = r, !.decision = decision]
<1>1. /\ x \in HandlerState /\ x.pc = "resume" /\ x.run = r /\ x.decision = decision
      /\ handler' = [handler EXCEPT ![h] = x]
  <2>1. 1 \in 1 .. MaxAttempts
    BY DEF MaxAttempts
  <2>2. x \in HandlerState /\ x.pc = "resume" /\ x.run = r /\ x.decision = decision
    BY <2>1 DEF Idle, HandlerState
  <2>3. QED
    BY <2>2 DEF Approve, Enter
<1>2. /\ UNCHANGED <<checkpoint, graph, saved, runs, run_events, approvals, receipts,
                     effects, inflight, attempts>>
      /\ RunStatusOf(r) = "awaiting_approval"
      /\ SameTenant(decision.actor_id, r) /\ decision.actor_id \in Approvers
      /\ ~Active(h)
  BY DEF Approve, Enter, Active
<1>3. /\ graph[h] = StartState /\ saved[h] /\ Cleared(checkpoint[r])
  BY <1>2 DEF IInv, IdleInv, RunInv
<1> HIDE DEF x
<1>4. TypeOK'
  BY <1>1, <1>2 DEF IInv, TypeOK, RepositoryTypeOK, GatewayTypeOK, WorkflowTypeOK
<1>5. handler'[h] = x /\ OthersWait(h) /\ Grow
  BY <1>1, <1>2 DEF OthersWait, Grow, IInv, TypeOK, WorkflowTypeOK
<1>6. /\ Active(h)' /\ Decides(h)' /\ Run(h)' = r
      /\ \A f \in Handlers \ {h} : /\ Active(f)' <=> Active(f)
                                   /\ Run(f)' = Run(f)
                                   /\ Decides(f)' <=> Decides(f)
  BY <1>1, <1>5, NoneAssumption DEF Active, Run, Decides, OthersWait
<1>7. /\ \A q : RunStatusOf(q)' = RunStatusOf(q)
      /\ \A q, a : SameTenant(a, q)' <=> SameTenant(a, q)
  BY <1>2 DEF RunStatusOf, SameTenant
<1>8. CopiesInv'
  BY <1>2, <1>3, <1>5, StartHolds, CopyStep DEF IInv, Holds
<1>9. IdleInv'
  BY <1>2, <1>5, <1>6 DEF IInv, IdleInv, OthersWait
<1>10. StarterInv'
  <2> SUFFICES ASSUME NEW f \in Handlers, Active(f)', ~Decides(f)'
               PROVE  /\ Run(f)' \in Runs
                      /\ RunStatusOf(Run(f)') = "running"
                      /\ handler'[f].pc \in {"graph", "return"}
                      /\ handler'[f].pc = "return" => NextNode(graph[f]) = "human_interrupt"
                      /\ graph[f].current_node \notin
                            {"human_interrupt", "idempotent_execution",
                             "outcome_verification", "audit_closure"}
                      /\ saved[f] => checkpoint[Run(f)'] = graph[f]
                      /\ \A g \in Handlers : Active(g)' /\ Run(g)' = Run(f)' => g = f
    BY <1>2 DEF StarterInv, RunStatusOf
  <2>1. f # h /\ Active(f) /\ ~Decides(f) /\ Run(f)' = Run(f) /\ handler'[f] = handler[f]
    BY <1>5, <1>6 DEF OthersWait
  <2>2. RunStatusOf(Run(f)) = "running" /\ Run(f) # r
    BY <1>2, <2>1 DEF IInv, StarterInv
  <2>3. \A g \in Handlers : Active(g)' /\ Run(g)' = Run(f)' => g = f
    BY <1>6, <2>1, <2>2 DEF IInv, StarterInv
  <2>4. QED
    BY <2>1, <2>3 DEF IInv, StarterInv
<1>11. DeciderInv'
  <2> SUFFICES ASSUME NEW f \in Handlers, Active(f)', Decides(f)'
               PROVE  /\ Run(f)' \in Runs
                      /\ RunStatusOf(Run(f)') \notin {"absent", "running"}
                      /\ handler'[f].pc # "return"
                      /\ handler'[f].decision.actor_id \in Approvers
                      /\ SameTenant(handler'[f].decision.actor_id, Run(f)')
                      /\ Cleared(checkpoint[Run(f)'])
                      /\ IF handler'[f].pc = "resume" THEN saved[f] ELSE Cleared(graph[f])
                      /\ handler'[f].pc \in {"approval", "approval_saved"} =>
                            /\ NextNode(graph[f]) = "human_interrupt"
                            /\ handler'[f].decision.proposed_action_hash = action_hash(Run(f)')
                            /\ "paused" \in run_events[Run(f)']
                      /\ handler'[f].pc = "approval_saved" =>
                            handler'[f].decision \in approvals[Run(f)']
                      /\ handler'[f].pc \in {"lookup", "receipt", "receipt_saved"} =>
                            NextNode(graph[f]) = "idempotent_execution"
                      /\ handler'[f].pc \in {"receipt", "receipt_saved"} =>
                            handler'[f].receipt # "none" /\ Run(f)' \in effects
                      /\ handler'[f].pc = "receipt_saved" => receipts[Run(f)'] # {}
    BY <1>2 DEF DeciderInv, RunStatusOf, SameTenant
  <2>1. CASE f = h
    BY <1>1, <1>2, <1>3, <1>5, <1>6, <2>1
  <2>2. CASE f # h
    <3>1. Active(f) /\ Decides(f) /\ Run(f)' = Run(f) /\ handler'[f] = handler[f]
      BY <1>5, <1>6, <2>2 DEF OthersWait
    <3>2. QED
      BY <3>1 DEF IInv, DeciderInv
  <2>3. QED
    BY <2>1, <2>2
<1>12. RunInv' /\ RowInv' /\ EffectInv' /\ UniqueInv' /\ CompletedIsAudited'
  BY <1>2, <1>7 DEF IInv, RunInv, RowInv, EffectInv, UniqueInv, CompletedIsAudited
<1>13. QED
  BY <1>4, <1>8, <1>9, <1>10, <1>11, <1>12 DEF IInv

\* What a request that finishes makes of its run.
LEMMA FinishStatus ==
  ASSUME IInv, NEW h \in Handlers, Finish(h)
  PROVE  /\ Active(h)
         /\ Status(h) \in {"awaiting_approval", "completed", "blocked"}
         /\ Decides(h) => Status(h) \in Closed
         /\ Status(h) = "awaiting_approval" => Cleared(checkpoint[Run(h)])
         /\ Status(h) = "completed" =>
               graph[h].current_node = "audit_closure" /\ graph[h].outcome_verified
<1>1. Active(h) /\ (handler[h].pc = "return" \/ At(h, "END")) /\ saved[h]
  BY DEF Finish, At, Active
<1>2. graph[h] \in WorkflowState /\ Holds(Run(h), graph[h])
  BY <1>1, ActiveRun DEF IInv, CopiesInv
<1>3. CASE handler[h].pc = "return"
  <2>1. ~Decides(h)
    BY <1>1, <1>3 DEF IInv, DeciderInv
  <2>2. NextNode(graph[h]) = "human_interrupt" /\ checkpoint[Run(h)] = graph[h]
    BY <1>1, <1>3, <2>1 DEF IInv, StarterInv
  <2>3. Cleared(checkpoint[Run(h)])
    BY <1>2, <2>2, NextNodeFacts DEF Cleared
  <2>4. QED
    BY <1>1, <1>3, <2>1, <2>3 DEF Status
<1>4. CASE handler[h].pc # "return"
  <2>1. graph[h].current_node \in {"audit_closure", "blocked_closure"}
    BY <1>1, <1>2, <1>4, NextNodeFacts DEF At
  <2>2. graph[h].current_node = "audit_closure" => graph[h].outcome_verified
    BY <1>2 DEF Holds, StateOK
  <2>3. \/ /\ Status(h) = "completed"
           /\ graph[h].current_node = "audit_closure" /\ graph[h].outcome_verified
        \/ Status(h) = "blocked"
    BY <1>4, <2>1, <2>2 DEF Status
  <2>4. QED
    BY <1>1, <2>3 DEF Closed
<1>5. QED
  BY <1>3, <1>4

LEMMA FinishStep ==
  ASSUME IInv, NEW h \in Handlers, Finish(h)
  PROVE  IInv'
<1> USE DEF gatewayVars
<1> DEFINE r == Run(h)
<1> DEFINE record == [runs[r] EXCEPT !.status = Status(h),
                                     !.blocked_reason = graph[h].blocked_reason]
<1>1. /\ Active(h) /\ Leave(h)
      /\ Status(h) \in {"awaiting_approval", "completed", "blocked"}
      /\ Decides(h) => Status(h) \in Closed
      /\ Status(h) = "awaiting_approval" => Cleared(checkpoint[r])
      /\ Status(h) = "completed" =>
            graph[h].current_node = "audit_closure" /\ graph[h].outcome_verified
      /\ UNCHANGED <<run_events, approvals, receipts, checkpoint, effects, inflight,
                     attempts>>
  BY FinishStatus DEF Finish
<1>2. /\ r \in Runs /\ runs[r] # None /\ runs[r] \in RunRecord
      /\ graph[h] \in WorkflowState /\ Holds(r, graph[h])
  BY <1>1, ActiveRun DEF IInv, TypeOK, RepositoryTypeOK, CopiesInv
<1>3. /\ record \in RunRecord /\ record.status = Status(h)
      /\ record.case_id = runs[r].case_id
  BY <1>1, <1>2 DEF RunRecord, RunStatus, WorkflowState
<1>4. runs' = [runs EXCEPT ![r] = record]
  BY DEF Finish, update_run
<1> HIDE DEF record
<1>5. \A q \in Runs : runs'[q] = IF q = r THEN record ELSE runs[q]
  BY <1>4 DEF IInv, TypeOK, RepositoryTypeOK
<1> HIDE DEF r
<1>6. /\ \A q \in Runs : RunStatusOf(q)' = IF q = r THEN Status(h) ELSE RunStatusOf(q)
      /\ \A q \in Runs : \A a : SameTenant(a, q)' <=> SameTenant(a, q)
  BY <1>2, <1>3, <1>5, NoneAssumption DEF RunStatusOf, SameTenant
<1>7. /\ handler'[h] = Idle /\ graph'[h] = StartState /\ saved'[h] = TRUE
      /\ OthersWait(h) /\ Grow
  BY <1>1 DEF Leave, OthersWait, Grow, IInv, TypeOK, WorkflowTypeOK
<1>8. TypeOK'
  <2>1. Idle \in HandlerState /\ StartState \in WorkflowState
    BY DEF Idle, HandlerState, StartState, WorkflowState, Node, BlockedReason, MaxAttempts
  <2>2. QED
    BY <1>1, <1>3, <1>4, <2>1
       DEF Leave, IInv, TypeOK, RepositoryTypeOK, GatewayTypeOK, WorkflowTypeOK
<1>9. /\ ~Active(h)'
      /\ \A f \in Handlers : Active(f)' =>
            /\ f # h /\ Active(f) /\ Run(f)' = Run(f) /\ (Decides(f)' <=> Decides(f))
            /\ handler'[f] = handler[f] /\ graph'[f] = graph[f] /\ saved'[f] = saved[f]
  BY <1>7 DEF OthersWait, Active, Run, Decides, Idle
<1>10. CopiesInv'
  BY <1>1, <1>7, <1>9, CopyStep DEF IInv
<1>11. IdleInv'
  BY <1>7 DEF IInv, IdleInv, Active, OthersWait
<1>12. StarterInv'
  <2> SUFFICES ASSUME NEW f \in Handlers, Active(f)', ~Decides(f)'
               PROVE  /\ Run(f)' \in Runs
                      /\ RunStatusOf(Run(f))' = "running"
                      /\ handler'[f].pc \in {"graph", "return"}
                      /\ handler'[f].pc = "return" => NextNode(graph'[f]) = "human_interrupt"
                      /\ graph'[f].current_node \notin
                            {"human_interrupt", "idempotent_execution",
                             "outcome_verification", "audit_closure"}
                      /\ saved'[f] => checkpoint[Run(f)'] = graph'[f]
                      /\ \A g \in Handlers : Active(g)' /\ Run(g)' = Run(f)' => g = f
    BY <1>1 DEF StarterInv
  <2>1. f # h /\ Active(f) /\ ~Decides(f) /\ Run(f)' = Run(f)
    BY <1>9
  <2>2. Run(f) \in Runs /\ Run(f) # r
    BY <1>1, <2>1 DEF IInv, StarterInv, r
  <2>3. RunStatusOf(Run(f))' = RunStatusOf(Run(f))
    BY <1>5, <2>1, <2>2 DEF RunStatusOf
  <2>4. QED
    BY <1>9, <2>1, <2>3 DEF IInv, StarterInv
<1>13. DeciderInv'
  <2> SUFFICES ASSUME NEW f \in Handlers, Active(f)', Decides(f)'
               PROVE  /\ Run(f)' \in Runs
                      /\ RunStatusOf(Run(f))' \notin {"absent", "running"}
                      /\ handler'[f].pc # "return"
                      /\ handler'[f].decision.actor_id \in Approvers
                      /\ SameTenant(handler[f].decision.actor_id, Run(f))'
                      /\ Cleared(checkpoint[Run(f)'])
                      /\ IF handler'[f].pc = "resume" THEN saved'[f] ELSE Cleared(graph'[f])
                      /\ handler'[f].pc \in {"approval", "approval_saved"} =>
                            /\ NextNode(graph'[f]) = "human_interrupt"
                            /\ handler'[f].decision.proposed_action_hash = action_hash(Run(f)')
                            /\ "paused" \in run_events[Run(f)']
                      /\ handler'[f].pc = "approval_saved" =>
                            handler'[f].decision \in approvals[Run(f)']
                      /\ handler'[f].pc \in {"lookup", "receipt", "receipt_saved"} =>
                            NextNode(graph'[f]) = "idempotent_execution"
                      /\ handler'[f].pc \in {"receipt", "receipt_saved"} =>
                            handler'[f].receipt # "none" /\ Run(f)' \in effects
                      /\ handler'[f].pc = "receipt_saved" => receipts[Run(f)'] # {}
    BY <1>1 DEF DeciderInv
  <2>1. /\ f # h /\ Active(f) /\ Decides(f) /\ Run(f)' = Run(f)
        /\ handler'[f] = handler[f] /\ graph'[f] = graph[f] /\ saved'[f] = saved[f]
    BY <1>9
  <2>2. Run(f) \in Runs /\ RunStatusOf(Run(f)) \notin {"absent", "running"}
    BY <2>1 DEF IInv, DeciderInv
  <2>3. /\ RunStatusOf(Run(f))' \notin {"absent", "running"}
        /\ SameTenant(handler[f].decision.actor_id, Run(f))'
              <=> SameTenant(handler[f].decision.actor_id, Run(f))
    <3>1. CASE Run(f) = r
      BY <1>1, <1>2, <1>3, <1>5, <2>1, <3>1, NoneAssumption DEF RunStatusOf, SameTenant
    <3>2. CASE Run(f) # r
      BY <1>5, <2>1, <2>2, <3>2 DEF RunStatusOf, SameTenant
    <3>3. QED
      BY <3>1, <3>2
  <2>4. QED
    BY <2>1, <2>3 DEF IInv, DeciderInv
<1>14. RunInv' /\ RowInv'
  BY <1>1, <1>2, <1>6 DEF IInv, RunInv, RowInv, r
<1>15. EffectInv' /\ UniqueInv'
  BY <1>1 DEF IInv, EffectInv, UniqueInv
<1>16. CompletedIsAudited'
  <2> SUFFICES ASSUME NEW q \in Runs, RunStatusOf(q)' = "completed"
               PROVE  /\ q \in effects
                      /\ receipts[q] # {}
                      /\ \E decision \in approvals[q] : Permits(decision, q)
                      /\ {"authoritative_record_collection", "deterministic_policy_decision",
                          "paused", "approval", "effect", "outcome_verification",
                          "audit_closure"} \subseteq run_events[q]
    BY <1>1 DEF CompletedIsAudited
  <2>1. CASE q = r
    <3>1. graph[h].current_node = "audit_closure" /\ graph[h].outcome_verified
      BY <1>1, <1>6, <2>1
    <3>2. StateOK(q, graph[h], run_events[q], approvals[q], receipts[q] # {}, q \in effects)
      BY <1>2, <2>1 DEF Holds
    <3>3. /\ graph[h].approval \in approvals[q] /\ Permits(graph[h].approval, q)
          /\ graph[h].receipt # "none"
      BY <3>1, <3>2 DEF StateOK
    <3>4. q \in effects /\ receipts[q] # {} /\ "effect" \in run_events[q]
      BY <3>2, <3>3 DEF StateOK
    <3>5. QED
      BY <3>1, <3>2, <3>3, <3>4 DEF StateOK
  <2>2. CASE q # r
    BY <1>6, <2>2 DEF IInv, CompletedIsAudited
  <2>3. QED
    BY <2>1, <2>2
<1>17. QED
  BY <1>8, <1>10, <1>11, <1>12, <1>13, <1>14, <1>15, <1>16 DEF IInv

----------------------------------------------------------------------------
(***************************************************************************)
(* The invariant, and the safety properties it implies.                    *)
(***************************************************************************)

LEMMA InvariantInit == Init => IInv
<1> SUFFICES ASSUME Init PROVE IInv
  OBVIOUS
<1> USE DEF Init, RepositoryInit, GatewayInit, WorkflowInit
<1>1. Idle \in HandlerState /\ StartState \in WorkflowState
  BY DEF Idle, HandlerState, StartState, WorkflowState, Node, BlockedReason, MaxAttempts
<1>2. TypeOK
  BY <1>1 DEF TypeOK, RepositoryTypeOK, GatewayTypeOK, WorkflowTypeOK
<1>3. \A h \in Handlers : ~Active(h) /\ handler[h] = Idle
  BY DEF Active, Idle
<1>4. \A r \in Runs : RunStatusOf(r) = "absent"
  BY DEF RunStatusOf
<1>5. CopiesInv /\ IdleInv /\ StarterInv /\ DeciderInv
  BY <1>3, StartHolds DEF CopiesInv, Holds, IdleInv, StarterInv, DeciderInv
<1>6. RunInv /\ RowInv /\ EffectInv /\ UniqueInv /\ CompletedIsAudited
  BY <1>4 DEF RunInv, RowInv, EffectInv, UniqueInv, CompletedIsAudited
<1>7. QED
  BY <1>2, <1>5, <1>6 DEF IInv

LEMMA InvariantStep == IInv /\ [Next]_vars => IInv'
<1> SUFFICES ASSUME IInv, [Next]_vars PROVE IInv'
  OBVIOUS
<1>1. CASE UNCHANGED vars
  <2>1. UNCHANGED <<runs, run_events, approvals, receipts, effects, inflight, attempts,
                    checkpoint, handler, graph, saved>>
    BY <1>1 DEF vars, repositoryVars, gatewayVars, workflowVars
  <2>2. /\ \A r : RunStatusOf(r)' = RunStatusOf(r)
        /\ \A r, s : Holds(r, s)' <=> Holds(r, s)
        /\ \A a, r : SameTenant(a, r)' <=> SameTenant(a, r)
        /\ \A h : /\ Active(h)' <=> Active(h)
                  /\ Run(h)' = Run(h)
                  /\ Decides(h)' <=> Decides(h)
    BY <2>1 DEF RunStatusOf, Holds, SameTenant, Active, Run, Decides
  <2>3. TypeOK' /\ CopiesInv' /\ IdleInv' /\ StarterInv'
    BY <2>1, <2>2 DEF IInv, TypeOK, RepositoryTypeOK, GatewayTypeOK, WorkflowTypeOK,
                      CopiesInv, IdleInv, StarterInv
  <2>4. DeciderInv'
    BY <2>1, <2>2 DEF IInv, DeciderInv
  <2>5. RunInv' /\ RowInv' /\ EffectInv' /\ UniqueInv' /\ CompletedIsAudited'
    BY <2>1, <2>2 DEF IInv, RunInv, RowInv, EffectInv, UniqueInv, CompletedIsAudited
  <2>6. QED
    BY <2>3, <2>4, <2>5 DEF IInv
<1>2. CASE Next
  BY <1>2, StartRunStep, ReplayStep, ApproveStep, WorkflowStepKeeps, PersistStep, FinishStep,
     CrashStep, LateEffectStep DEF Next, Request
<1>3. QED
  BY <1>1, <1>2

THEOREM ControlPlaneInvariant == Spec => []IInv
BY InvariantInit, InvariantStep, PTL DEF Spec

\* Store, gateway and workflow keep their types.
THEOREM TypesKept == Spec => []TypeOK
<1>1. IInv => TypeOK
  BY DEF IInv
<1>2. QED
  BY <1>1, ControlPlaneInvariant, PTL

\* Whatever interleaves, fails, crashes or is replayed, an effect that has happened
\* or is under way was cleared by policy and recommendation, and an approver of the
\* tenant is on record as having approved exactly this action.
THEOREM EffectsAuthorized == Spec => []EffectAuthorized
<1>1. IInv => EffectAuthorized
  BY DEF IInv, TypeOK, GatewayTypeOK, EffectInv, RowInv, EffectAuthorized, Cleared
<1>2. QED
  BY <1>1, ControlPlaneInvariant, PTL

\* With the unique index of the approvals table, a run once rejected has no effect.
THEOREM RejectionsFinal ==
  ASSUME Backend = "postgres"
  PROVE  Spec => []RejectionIsFinal
<1>1. IInv => RejectionIsFinal
  BY DEF IInv, UniqueInv, EffectInv, RejectionIsFinal, Permits
<1>2. QED
  BY <1>1, ControlPlaneInvariant, PTL

\* The audit chain of a completed run is complete, across passes and restarts.
THEOREM CompletedRunsAudited == Spec => []CompletedIsAudited
<1>1. IInv => CompletedIsAudited
  BY DEF IInv
<1>2. QED
  BY <1>1, ControlPlaneInvariant, PTL

----------------------------------------------------------------------------
(***************************************************************************)
(* What a step does to the status of the runs, the decisions and the       *)
(* effects.                                                                *)
(***************************************************************************)

\* The workflow's own steps leave the runs table alone, and those but one the
\* approvals.
LEMMA WorkflowStepWrites ==
  ASSUME NEW h \in Handlers, WorkflowStep(h)
  PROVE  /\ UNCHANGED runs
         /\ UNCHANGED approvals \/ SaveApproval(h)
         /\ \/ UNCHANGED effects
            \/ /\ At(h, "idempotent_execution") /\ UNCHANGED approvals
               /\ effects' = effects \cup {Run(h)}
<1> USE DEF repositoryVars, gatewayVars
<1>1. CASE \E node \in GatherNodes : Gather(h, node)
  BY <1>1 DEF Gather
<1>2. CASE Decide(h) \/ Recommend(h) \/ NodeRaises(h) \/ Interrupt(h) \/ ReadDecision(h)
  BY <1>2 DEF Decide, Recommend, NodeRaises, Interrupt, ReadDecision
<1>3. CASE SaveApproval(h) \/ ApprovalConflict(h) \/ AnnounceApproval(h)
  BY <1>3 DEF SaveApproval, ApprovalConflict, AnnounceApproval
<1>4. CASE ExecuteReceipt(h) \/ ExecuteToolFailure(h) \/ ExecuteRaises(h)
  <2>1. ASSUME NEW outcome, execute(Run(h), outcome)
        PROVE  UNCHANGED effects \/ effects' = effects \cup {Run(h)}
    BY <2>1 DEF execute, SyntheticExecute, McpExecute
  <2>2. At(h, "idempotent_execution") /\ UNCHANGED <<runs, approvals>>
    BY <1>4 DEF ExecuteReceipt, ExecuteToolFailure, ExecuteRaises
  <2>3. \E outcome : execute(Run(h), outcome)
    BY <1>4 DEF ExecuteReceipt, ExecuteToolFailure, ExecuteRaises
  <2>4. QED
    BY <2>1, <2>2, <2>3
<1>5. CASE Lookup(h) \/ LookupRaises(h) \/ SaveReceipt(h) \/ ReceiptConflict(h)
           \/ AnnounceEffect(h)
  BY <1>5 DEF Lookup, LookupRaises, SaveReceipt, ReceiptConflict, AnnounceEffect
<1>6. CASE Verify(h) \/ Close(h) \/ Block(h) \/ Resume(h)
  BY <1>6 DEF Verify, Close, Block, Resume
<1>7. QED
  BY <1>1, <1>2, <1>3, <1>4, <1>5, <1>6 DEF WorkflowStep

\* A run is opened.
LEMMA OpenStatus ==
  ASSUME IInv, NEW r \in Runs, runs[r] = None,
         NEW case \in Cases, NEW parent \in Runs \cup {None},
         create_run(r, case, parent)
  PROVE  /\ RunStatusOf(r) = "absent"
         /\ \A q \in Runs : RunStatusOf(q)' = IF q = r THEN "running" ELSE RunStatusOf(q)
<1> DEFINE record == [case_id |-> case, status |-> "running", blocked_reason |-> "none",
                      replay_of |-> parent]
<1>1. \A q \in Runs : runs'[q] = IF q = r THEN record ELSE runs[q]
  BY DEF create_run, IInv, TypeOK, RepositoryTypeOK
<1>2. record.status = "running" /\ record \in RunRecord
  BY DEF RunRecord, RunStatus, BlockedReason
<1> HIDE DEF record
<1>3. QED
  BY <1>1, <1>2, NoneAssumption DEF RunStatusOf

\* A finished request writes the status of its run.
LEMMA FinishWrites ==
  ASSUME IInv, NEW h \in Handlers, Finish(h)
  PROVE  /\ Run(h) \in Runs /\ RunStatusOf(Run(h)) # "absent"
         /\ \A q \in Runs : q # Run(h) => RunStatusOf(q)' = RunStatusOf(q)
         /\ \A q \in Runs : q = Run(h) => RunStatusOf(q)' = Status(h)
         /\ Decides(h) => RunStatusOf(Run(h)) # "running"
         /\ ~Decides(h) => RunStatusOf(Run(h)) = "running"
         /\ UNCHANGED <<approvals, effects>>
<1> DEFINE record == [runs[Run(h)] EXCEPT !.status = Status(h),
                                          !.blocked_reason = graph[h].blocked_reason]
<1>1. /\ Active(h) /\ UNCHANGED <<approvals, effects>>
      /\ runs' = [runs EXCEPT ![Run(h)] = record]
  BY FinishStatus DEF Finish, update_run, gatewayVars
<1>2. Run(h) \in Runs /\ runs[Run(h)] \in RunRecord /\ graph[h] \in WorkflowState
  BY <1>1, ActiveRun DEF IInv, TypeOK, RepositoryTypeOK
<1>3. Status(h) \in RunStatus
  BY FinishStatus DEF RunStatus
<1>4. record \in RunRecord /\ record.status = Status(h)
  BY <1>2, <1>3 DEF RunRecord, WorkflowState
<1> HIDE DEF record
<1>5. \A q \in Runs : runs'[q] = IF q = Run(h) THEN record ELSE runs[q]
  BY <1>1 DEF IInv, TypeOK, RepositoryTypeOK
<1>6. /\ \A q \in Runs : q # Run(h) => RunStatusOf(q)' = RunStatusOf(q)
      /\ \A q \in Runs : q = Run(h) => RunStatusOf(q)' = Status(h)
  BY <1>4, <1>5, NoneAssumption DEF RunStatusOf
<1>7. /\ Decides(h) => RunStatusOf(Run(h)) \notin {"absent", "running"}
      /\ ~Decides(h) => RunStatusOf(Run(h)) = "running"
  BY <1>1 DEF IInv, StarterInv, DeciderInv
<1>8. QED
  BY <1>1, <1>2, <1>6, <1>7

\* Every other step leaves the status of the runs alone, or opens one.
LEMMA StatusWrites ==
  ASSUME IInv, Next
  PROVE  \/ UNCHANGED runs
         \/ /\ UNCHANGED <<approvals, effects>>
            /\ \E r \in Runs :
                  /\ RunStatusOf(r) = "absent"
                  /\ \A q \in Runs :
                        RunStatusOf(q)' = IF q = r THEN "running" ELSE RunStatusOf(q)
         \/ \E h \in Handlers : Finish(h)
<1> USE DEF repositoryVars, gatewayVars
<1>1. ASSUME NEW h \in Handlers, NEW actor \in Actors, NEW case \in Cases, NEW r \in Runs,
             StartRun(h, actor, case, r)
      PROVE  /\ UNCHANGED <<approvals, effects>>
             /\ RunStatusOf(r) = "absent"
             /\ \A q \in Runs : RunStatusOf(q)' = IF q = r THEN "running" ELSE RunStatusOf(q)
  BY <1>1, OpenStatus DEF StartRun, Enter
<1>2. ASSUME NEW h \in Handlers, NEW actor \in Actors, NEW parent \in Runs, NEW r \in Runs,
             Replay(h, actor, parent, r)
      PROVE  /\ UNCHANGED <<approvals, effects>>
             /\ RunStatusOf(r) = "absent"
             /\ \A q \in Runs : RunStatusOf(q)' = IF q = r THEN "running" ELSE RunStatusOf(q)
  <2>1. runs[parent].case_id \in Cases
    BY <1>2 DEF Replay, IInv, TypeOK, RepositoryTypeOK, RunRecord
  <2>2. QED
    BY <1>2, <2>1, OpenStatus DEF Replay, Enter
<1>3. ASSUME NEW h \in Handlers, NEW actor \in Actors, NEW r \in Runs,
             NEW decision \in ApprovalDecision, Approve(h, actor, r, decision)
      PROVE  UNCHANGED runs
  BY <1>3 DEF Approve
<1>4. ASSUME NEW h \in Handlers, WorkflowStep(h) \/ Persist(h) \/ Crash(h)
      PROVE  UNCHANGED runs
  BY <1>4, WorkflowStepWrites DEF Persist, Crash
<1>5. QED
  BY <1>1, <1>2, <1>3, <1>4 DEF Next, Request

\* A closed run stays closed: the request that writes its status late writes another
\* closing one, for only a request that started the run finds it waiting.
THEOREM ClosedRunsStayClosed == Spec => ClosedStaysClosed
<1>1. ASSUME IInv, [Next]_vars, NEW r \in Runs, RunStatusOf(r) \in Closed
      PROVE  RunStatusOf(r)' \in Closed
  <2>1. CASE UNCHANGED runs
    BY <1>1, <2>1 DEF RunStatusOf
  <2>2. CASE Next /\ ~UNCHANGED runs
    <3>1. ASSUME NEW q \in Runs, RunStatusOf(q) = "absent",
                 RunStatusOf(r)' = IF r = q THEN "running" ELSE RunStatusOf(r)
          PROVE  RunStatusOf(r)' \in Closed
      BY <1>1, <3>1 DEF Closed
    <3>2. ASSUME NEW h \in Handlers, Finish(h) PROVE RunStatusOf(r)' \in Closed
      BY <1>1, <3>2, FinishStatus, FinishWrites DEF Closed
    <3>3. QED
      BY <1>1, <2>2, <3>1, <3>2, StatusWrites
  <2>3. QED
    BY <1>1, <2>1, <2>2 DEF vars, repositoryVars
<1>2. IInv /\ [Next]_vars =>
         [\A r \in Runs : RunStatusOf(r) \in Closed => RunStatusOf(r)' \in Closed]_vars
  BY <1>1
<1>3. QED
  BY <1>2, ControlPlaneInvariant, PTL DEF Spec, ClosedStaysClosed

\* What a step leaves of a run that no request serves.
Untouched(r) ==
    /\ UNCHANGED <<runs[r], approvals[r], receipts[r], checkpoint[r]>>
    /\ r \in effects' <=> r \in effects
    /\ run_events'[r] \subseteq run_events[r] \cup {"replay"}
    /\ \A h \in Handlers : Run(h)' # r

\* A request that goes on or is over serves no other run than before.
LEMMA ServesTheSame ==
  ASSUME TypeOK, NEW h \in Handlers, NEW r \in Runs, \A g \in Handlers : Run(g) # r,
         NEW next, handler' = [handler EXCEPT ![h] = next],
         next.run = Run(h) \/ next = Idle
  PROVE  \A g \in Handlers : Run(g)' # r
<1>1. handler \in [Handlers -> HandlerState] /\ Idle.run # r
  BY RunAssumption DEF TypeOK, WorkflowTypeOK, Idle
<1>2. QED
  BY <1>1 DEF Run

\* A request that returns a state or goes to another point serves the run it served.
LEMMA MovesOn ==
  ASSUME TypeOK, NEW h \in Handlers, NEW r \in Runs, \A g \in Handlers : Run(g) # r,
         \/ \E g : Return(h, g)
         \/ \E label : Goto(h, label)
         \/ \E state : HoldReceipt(h, state)
         \/ \E retryable : RetryOrGiveUp(h, retryable)
         \/ \E retryable : handler' = [handler EXCEPT ![h].pc = "lookup",
                                                    ![h].retryable = retryable]
         \/ Leave(h)
  PROVE  \A g \in Handlers : Run(g)' # r
<1>1. handler \in [Handlers -> HandlerState]
  BY DEF TypeOK, WorkflowTypeOK
<1>2. \E next : /\ handler' = [handler EXCEPT ![h] = next]
                /\ next.run = Run(h) \/ next = Idle
  BY <1>1 DEF Return, Goto, HoldReceipt, RetryOrGiveUp, GiveUp, Leave, Run, HandlerState
<1>3. QED
  BY <1>2, ServesTheSame

\* What the operators of the store and of the gateway write of another run.
LEMMA WritesElsewhere ==
  ASSUME TypeOK, NEW q, NEW r \in Runs, q # r
  PROVE  /\ \A kind : append_event(q, kind) => run_events'[r] = run_events[r]
         /\ \A decision : save_approval(q, decision) => approvals'[r] = approvals[r]
         /\ \A state : save_receipt(q, state) => receipts'[r] = receipts[r]
         /\ \A outcome : execute(q, outcome) => (r \in effects' <=> r \in effects)
         /\ \A state, reason : update_run(q, state, reason) => runs'[r] = runs[r]
         /\ \A case, parent : create_run(q, case, parent) => runs'[r] = runs[r]
<1>1. \A kind : append_event(q, kind) => run_events'[r] = run_events[r]
  BY DEF append_event, TypeOK, RepositoryTypeOK
<1>2. /\ \A decision : save_approval(q, decision) => approvals'[r] = approvals[r]
      /\ \A state : save_receipt(q, state) => receipts'[r] = receipts[r]
  BY DEF save_approval, save_receipt, TypeOK, RepositoryTypeOK
<1>3. \A outcome : execute(q, outcome) => (r \in effects' <=> r \in effects)
  BY DEF execute, SyntheticExecute, McpExecute
<1>4. /\ \A state, reason : update_run(q, state, reason) => runs'[r] = runs[r]
      /\ \A case, parent : create_run(q, case, parent) => runs'[r] = runs[r]
  BY DEF update_run, create_run, TypeOK, RepositoryTypeOK
<1>5. QED
  BY <1>1, <1>2, <1>3, <1>4

\* A request stores its graph state in the checkpoint of its own run.
LEMMA StoresElsewhere ==
  ASSUME TypeOK, NEW h \in Handlers, NEW r \in Runs, Run(h) # r,
         \/ UNCHANGED checkpoint
         \/ \E g : Return(h, g)
         \/ \E state : HoldReceipt(h, state)
         \/ \E retryable : RetryOrGiveUp(h, retryable)
         \/ Unwind(h) \/ Persist(h)
  PROVE  checkpoint'[r] = checkpoint[r]
BY DEF TypeOK, WorkflowTypeOK, Return, HoldReceipt, RetryOrGiveUp, GiveUp, Unwind, Persist

\* human_interrupt, in a resumed pass.
LEMMA DecisionRead ==
  ASSUME NEW h \in Handlers, ReadDecision(h)
  PROVE  /\ UNCHANGED <<runs, approvals, receipts, effects>>
         /\ append_event(Run(h), "paused")
         /\ UNCHANGED checkpoint
         /\ (\E g : Return(h, g)) \/ (\E label : Goto(h, label))
<1>1. /\ UNCHANGED <<runs, approvals, receipts, effects>>
      /\ append_event(Run(h), "paused")
  BY DEF ReadDecision, gatewayVars
<1>2. CASE handler[h].decision.proposed_action_hash # action_hash(Run(h))
  <2> DEFINE blocked == [graph[h] EXCEPT !.current_node = "human_interrupt",
                                         !.approval = handler[h].decision,
                                         !.blocked_reason = "hash_mismatch"]
  <2>1. Return(h, blocked)
    BY <1>2 DEF ReadDecision
  <2> HIDE DEF blocked
  <2>2. UNCHANGED checkpoint
    BY <2>1 DEF Return
  <2>3. QED
    BY <1>1, <2>1, <2>2
<1>3. CASE handler[h].decision.proposed_action_hash = action_hash(Run(h))
  <2>1. Goto(h, "approval") /\ UNCHANGED checkpoint
    BY <1>3 DEF ReadDecision
  <2>2. QED
    BY <1>1, <2>1
<1>4. QED
  BY <1>2, <1>3

\* The nodes of a request write nothing of another run.
LEMMA WorkflowStepElsewhere ==
  ASSUME TypeOK, NEW h \in Handlers, WorkflowStep(h),
         NEW r \in Runs, \A g \in Handlers : Run(g) # r
  PROVE  Untouched(r)
<1> USE DEF repositoryVars, gatewayVars
<1>1. Run(h) # r
  OBVIOUS
<1>2. CASE \/ \E node \in GatherNodes : Gather(h, node)
           \/ Decide(h) \/ Recommend(h) \/ AnnounceApproval(h) \/ AnnounceEffect(h)
           \/ Verify(h) \/ Close(h) \/ Block(h)
  <2>1. /\ UNCHANGED <<runs, approvals, receipts, effects>>
        /\ UNCHANGED run_events \/ \E kind : append_event(Run(h), kind)
        /\ \E g : Return(h, g)
    BY <1>2 DEF Gather, Decide, Recommend, AnnounceApproval, AnnounceEffect, Verify, Close,
                Block
  <2>2. QED
    BY <1>1, <2>1, MovesOn, StoresElsewhere, WritesElsewhere DEF Untouched
<1>3. CASE NodeRaises(h) \/ ApprovalConflict(h) \/ LookupRaises(h) \/ ReceiptConflict(h)
  <2>1. UNCHANGED <<runs, approvals, receipts, effects, run_events>> /\ Unwind(h)
    BY <1>3 DEF NodeRaises, ApprovalConflict, LookupRaises, ReceiptConflict
  <2>2. Leave(h)
    BY <2>1 DEF Unwind
  <2>3. QED
    BY <1>1, <2>1, <2>2, MovesOn, StoresElsewhere DEF Untouched
<1>4. CASE Interrupt(h) \/ ReadDecision(h)
  <2>1. /\ UNCHANGED <<runs, approvals, receipts, effects>>
        /\ append_event(Run(h), "paused")
        /\ UNCHANGED checkpoint
        /\ (\E g : Return(h, g)) \/ (\E label : Goto(h, label))
    <3>1. CASE Interrupt(h)
      BY <3>1 DEF Interrupt
    <3>2. CASE ReadDecision(h)
      BY <3>2, DecisionRead
    <3>3. QED
      BY <1>4, <3>1, <3>2
  <2>2. QED
    BY <1>1, <2>1, MovesOn, StoresElsewhere, WritesElsewhere DEF Untouched
<1>5. CASE SaveApproval(h) \/ SaveReceipt(h) \/ Resume(h)
  <2>1. /\ UNCHANGED <<runs, run_events, effects, checkpoint>>
        /\ UNCHANGED approvals \/ \E decision : save_approval(Run(h), decision)
        /\ UNCHANGED receipts \/ \E state : save_receipt(Run(h), state)
        /\ \E label : Goto(h, label)
    BY <1>5 DEF SaveApproval, SaveReceipt, Resume
  <2>2. QED
    BY <1>1, <2>1, MovesOn, WritesElsewhere DEF Untouched
<1>6. CASE ExecuteReceipt(h) \/ ExecuteToolFailure(h)
  <2>1. /\ UNCHANGED <<runs, approvals, receipts>>
        /\ UNCHANGED run_events \/ append_event(Run(h), "retry")
        /\ \E outcome : execute(Run(h), outcome)
        /\ \/ \E state : HoldReceipt(h, state)
           \/ \E retryable : RetryOrGiveUp(h, retryable)
           \/ /\ \E retryable : handler' = [handler EXCEPT ![h].pc = "lookup",
                                                          ![h].retryable = retryable]
              /\ UNCHANGED checkpoint
    BY <1>6 DEF ExecuteReceipt, ExecuteToolFailure
  <2>2. QED
    BY <1>1, <2>1, MovesOn, StoresElsewhere, WritesElsewhere DEF Untouched
<1>7. CASE ExecuteRaises(h)
  <2>1. /\ UNCHANGED <<runs, approvals, receipts, run_events>>
        /\ execute(Run(h), Exception) /\ Unwind(h) /\ Leave(h)
    BY <1>7 DEF ExecuteRaises, Unwind
  <2>2. QED
    BY <1>1, <2>1, MovesOn, StoresElsewhere, WritesElsewhere DEF Untouched
<1>8. CASE Lookup(h)
  <2>1. /\ UNCHANGED <<runs, approvals, receipts, effects, run_events>>
        /\ \/ \E state : HoldReceipt(h, state)
           \/ \E retryable : RetryOrGiveUp(h, retryable)
    BY <1>8 DEF Lookup
  <2>2. QED
    BY <1>1, <2>1, MovesOn, StoresElsewhere DEF Untouched
<1>9. QED
  BY <1>2, <1>3, <1>4, <1>5, <1>6, <1>7, <1>8 DEF WorkflowStep

\* A request enters for a run that waits or is not there yet: never for a closed one.
LEMMA RequestElsewhere ==
  ASSUME TypeOK, NEW h \in Handlers, Request(h), NEW r \in Runs,
         RunStatusOf(r) \in Closed, \A g \in Handlers : Run(g) # r
  PROVE  Untouched(r)
<1>1. runs[r] # None /\ RunStatusOf(r) # "awaiting_approval"
  BY DEF RunStatusOf, Closed
<1>2. ASSUME NEW q \in Runs, q # r, NEW label, NEW decision, Enter(h, q, label, decision)
      PROVE  UNCHANGED <<checkpoint, effects>> /\ \A g \in Handlers : Run(g)' # r
  <2>1. handler \in [Handlers -> HandlerState]
    BY DEF TypeOK, WorkflowTypeOK
  <2>2. [Idle EXCEPT !.pc = label, !.run = q, !.decision = decision].run = q
    BY DEF Idle
  <2>3. QED
    BY <1>2, <2>1, <2>2 DEF Enter, Run, gatewayVars
<1>3. ASSUME NEW actor \in Actors, NEW case \in Cases, NEW q \in Runs,
             StartRun(h, actor, case, q)
      PROVE  Untouched(r)
  <2>1. /\ q # r /\ create_run(q, case, None) /\ Enter(h, q, "graph", None)
        /\ UNCHANGED <<run_events, approvals, receipts>>
    BY <1>1, <1>3 DEF StartRun
  <2>2. QED
    BY <1>2, <2>1, WritesElsewhere DEF Untouched
<1>4. ASSUME NEW actor \in Actors, NEW parent \in Runs, NEW q \in Runs,
             Replay(h, actor, parent, q)
      PROVE  Untouched(r)
  <2>1. /\ q # r /\ create_run(q, runs[parent].case_id, parent)
        /\ append_event(parent, "replay") /\ Enter(h, q, "graph", None)
        /\ UNCHANGED <<approvals, receipts>>
    BY <1>1, <1>4 DEF Replay
  <2>2. run_events'[r] \subseteq run_events[r] \cup {"replay"}
    BY <2>1 DEF append_event, TypeOK, RepositoryTypeOK
  <2>3. QED
    BY <1>2, <2>1, <2>2, WritesElsewhere DEF Untouched
<1>5. ASSUME NEW actor \in Actors, NEW q \in Runs, NEW decision \in ApprovalDecision,
             Approve(h, actor, q, decision)
      PROVE  Untouched(r)
  <2>1. q # r /\ Enter(h, q, "resume", decision) /\ UNCHANGED repositoryVars
    BY <1>1, <1>5 DEF Approve
  <2>2. QED
    BY <1>2, <2>1 DEF Untouched, repositoryVars
<1>6. QED
  BY <1>3, <1>4, <1>5 DEF Request

\* A run that is closed, unserved and without an effect under way is over: every other
\* request, and every replay of it, leaves it as it is.
THEOREM ClosedRunsLeftAlone == Spec => ClosedRunsAreLeftAlone
<1>1. ASSUME IInv, [Next]_vars, NEW r \in Runs, RunStatusOf(r) \in Closed, r \notin inflight,
             \A h \in Handlers : Run(h) # r
      PROVE  Untouched(r)
  <2>1. TypeOK
    BY <1>1 DEF IInv
  <2>2. ASSUME NEW h \in Handlers, Request(h) PROVE Untouched(r)
    BY <1>1, <2>1, <2>2, RequestElsewhere
  <2>3. ASSUME NEW h \in Handlers, WorkflowStep(h) PROVE Untouched(r)
    BY <1>1, <2>1, <2>3, WorkflowStepElsewhere
  <2>4. ASSUME NEW h \in Handlers, Persist(h) PROVE Untouched(r)
    <3>1. UNCHANGED <<runs, approvals, receipts, effects, run_events, handler>>
      BY <2>4 DEF Persist, repositoryVars, gatewayVars
    <3>2. checkpoint'[r] = checkpoint[r]
      BY <1>1, <2>1, <2>4, StoresElsewhere
    <3>3. QED
      BY <1>1, <3>1, <3>2 DEF Untouched, Run
  <2>5. ASSUME NEW h \in Handlers, Finish(h) PROVE Untouched(r)
    <3>1. /\ UNCHANGED <<approvals, receipts, effects, run_events, checkpoint>> /\ Leave(h)
          /\ \E state, reason : update_run(Run(h), state, reason)
      BY <2>5 DEF Finish, gatewayVars
    <3>2. QED
      BY <1>1, <2>1, <3>1, MovesOn, WritesElsewhere DEF Untouched
  <2>6. ASSUME NEW h \in Handlers, Crash(h) PROVE Untouched(r)
    <3>1. UNCHANGED <<runs, approvals, receipts, effects, run_events, checkpoint>> /\ Leave(h)
      BY <2>6 DEF Crash, repositoryVars
    <3>2. QED
      BY <1>1, <2>1, <3>1, MovesOn DEF Untouched
  <2>7. ASSUME NEW q \in Runs, LateEffect(q), UNCHANGED <<repositoryVars, workflowVars>>
        PROVE  Untouched(r)
    BY <1>1, <2>7 DEF LateEffect, Untouched, repositoryVars, workflowVars, Run
  <2>8. CASE UNCHANGED vars
    BY <1>1, <2>8 DEF Untouched, vars, repositoryVars, workflowVars, gatewayVars, Run
  <2>9. QED
    BY <1>1, <2>2, <2>3, <2>4, <2>5, <2>6, <2>7, <2>8 DEF Next
<1>2. IInv /\ [Next]_vars =>
         [\A r \in Runs :
             RunStatusOf(r) \in Closed /\ r \notin inflight /\ (\A h \in Handlers : Run(h) # r) =>
                 /\ UNCHANGED <<runs[r], approvals[r], receipts[r], checkpoint[r]>>
                 /\ r \in effects' <=> r \in effects
                 /\ run_events'[r] \subseteq run_events[r] \cup {"replay"}
                 /\ \A h \in Handlers : Run(h)' # r]_vars
  BY <1>1 DEF Untouched
<1>3. QED
  BY <1>2, ControlPlaneInvariant, PTL DEF Spec, ClosedRunsAreLeftAlone

----------------------------------------------------------------------------
(***************************************************************************)
(* ControlPlane implements GovernedRun.                                    *)
(***************************************************************************)

LEMMA GovernedInit == Init => Governed!Init
BY DEF Init, RepositoryInit, GatewayInit, RunStatusOf, phaseBar, verdictBar, Governed!Init

\* The verdict of a run with an approving decision.
LEMMA ApprovedVerdict ==
  ASSUME NEW r \in Runs, NEW decision \in approvals[r], decision.approved
  PROVE  verdictBar[r] = "approved"
BY DEF verdictBar

\* The effect of run r happens.
LEMMA PerformStep ==
  ASSUME IInv, NEW r \in Runs, UNCHANGED <<runs, approvals>>,
         effects' = effects \cup {r},
         \E decision \in approvals[r] : Permits(decision, r)
  PROVE  [Governed!Next]_(Governed!vars)
<1>1. verdictBar[r] = "approved"
  BY ApprovedVerdict DEF Permits
<1>2. UNCHANGED <<phaseBar, verdictBar>>
  BY DEF phaseBar, verdictBar, RunStatusOf
<1>3. CASE r \in effects
  BY <1>2, <1>3 DEF Governed!vars
<1>4. CASE r \notin effects
  <2>1. Governed!Perform(r)
    BY <1>1, <1>2, <1>4 DEF Governed!Perform
  <2>2. QED
    BY <2>1 DEF Governed!Next
<1>5. QED
  BY <1>3, <1>4

\* The first decision about a run is its verdict.
LEMMA JudgeStep ==
  ASSUME IInv, Backend = "postgres", NEW h \in Handlers, SaveApproval(h)
  PROVE  Governed!Next
<1> DEFINE r == Run(h)
<1> DEFINE d == handler[h].decision
<1>1. Active(h) /\ handler[h].pc = "approval" /\ UNCHANGED <<runs, effects>>
  BY DEF SaveApproval, Active, gatewayVars
<1>2. Decides(h)
  BY <1>1 DEF IInv, StarterInv
<1>3. /\ r \in Runs /\ RunStatusOf(r) \notin {"absent", "running"}
      /\ d.proposed_action_hash = action_hash(r)
  BY <1>1, <1>2 DEF IInv, DeciderInv
<1>4. approvals[r] = {}
  BY <1>3 DEF SaveApproval, ApprovalConflicts, IInv, RowInv
<1>5. \A q \in Runs : approvals'[q] = IF q = r THEN {d} ELSE approvals[q]
  BY <1>4 DEF SaveApproval, save_approval, IInv, TypeOK, RepositoryTypeOK
<1> HIDE DEF r, d
<1>6. phaseBar' = phaseBar /\ phaseBar[r] \notin {"absent", "running"}
  BY <1>1, <1>3 DEF phaseBar, RunStatusOf
<1>7. PICK v \in {"approved", "rejected"} : v = IF d.approved THEN "approved" ELSE "rejected"
  OBVIOUS
<1>8. verdictBar[r] = None /\ verdictBar' = [verdictBar EXCEPT ![r] = v]
  BY <1>3, <1>4, <1>5, <1>7 DEF verdictBar
<1>9. Governed!Judge(r)
  BY <1>1, <1>6, <1>8 DEF Governed!Judge
<1>10. QED
  BY <1>3, <1>9 DEF Governed!Next

\* A run is opened.
LEMMA OpenStep ==
  ASSUME NEW r \in Runs, RunStatusOf(r) = "absent", UNCHANGED <<approvals, effects>>,
         \A q \in Runs : RunStatusOf(q)' = IF q = r THEN "running" ELSE RunStatusOf(q)
  PROVE  Governed!Next
<1>1. /\ phaseBar[r] = "absent" /\ phaseBar' = [phaseBar EXCEPT ![r] = "running"]
      /\ verdictBar' = verdictBar
  BY DEF phaseBar, verdictBar
<1>2. Governed!Open(r)
  BY <1>1 DEF Governed!Open
<1>3. QED
  BY <1>2 DEF Governed!Next

\* The status of a run is written when a request about it finishes.
LEMMA SettleStep ==
  ASSUME IInv, IInv', NEW h \in Handlers, Finish(h)
  PROVE  [Governed!Next]_(Governed!vars)
<1>1. PICK r \in Runs : r = Run(h)
  BY FinishWrites
<1>2. PICK new \in {"awaiting_approval", "completed", "blocked"} : new = Status(h)
  BY FinishStatus
<1>3. /\ \A q \in Runs : RunStatusOf(q)' = IF q = r THEN new ELSE RunStatusOf(q)
      /\ RunStatusOf(r) # "absent"
      /\ RunStatusOf(r) = "running" <=> ~Decides(h)
      /\ Decides(h) => new # "awaiting_approval"
      /\ UNCHANGED <<approvals, effects>>
  BY <1>1, <1>2, FinishStatus, FinishWrites DEF Closed
<1>4. phaseBar' = [phaseBar EXCEPT ![r] = new] /\ verdictBar' = verdictBar
  BY <1>3 DEF phaseBar, verdictBar
<1>5. RunStatusOf(r) \in {"running", "awaiting_approval", "completed", "blocked"}
  BY <1>3 DEF RunStatusOf, IInv, TypeOK, RepositoryTypeOK, RunRecord, RunStatus
<1>6. phaseBar[r] = RunStatusOf(r)
  BY DEF phaseBar
<1>7. new = "completed" => Decides(h) /\ r \in effects /\ verdictBar[r] = "approved"
  <2> SUFFICES ASSUME new = "completed"
               PROVE  Decides(h) /\ r \in effects /\ verdictBar[r] = "approved"
    OBVIOUS
  <2>1. Active(h) /\ graph[h].current_node = "audit_closure"
    BY <1>2, FinishStatus
  <2>2. Decides(h)
    BY <2>1 DEF IInv, StarterInv
  <2>3. RunStatusOf(r)' = "completed"
    BY <1>3
  <2>4. r \in effects' /\ \E decision \in approvals'[r] : Permits(decision, r)
    BY <2>3 DEF IInv, CompletedIsAudited, Permits
  <2>5. QED
    BY <1>3, <2>2, <2>4, ApprovedVerdict DEF Permits
<1>8. CASE new = phaseBar[r]
  <2>1. phaseBar' = phaseBar
    BY <1>4, <1>8 DEF phaseBar
  <2>2. QED
    BY <1>3, <1>4, <2>1 DEF Governed!vars
<1>9. CASE new # phaseBar[r]
  <2>1. Governed!Settle(r) \/ Governed!Complete(r) \/ Governed!Block(r)
    BY <1>3, <1>4, <1>5, <1>6, <1>7, <1>9
       DEF Governed!Settle, Governed!Complete, Governed!Block
  <2>2. QED
    BY <2>1 DEF Governed!Next
<1>10. QED
  BY <1>8, <1>9

LEMMA GovernedStep ==
  ASSUME Backend = "postgres"
  PROVE  IInv /\ IInv' /\ [Next]_vars => [Governed!Next]_(Governed!vars)
<1> SUFFICES ASSUME IInv, IInv', [Next]_vars
             PROVE  [Governed!Next]_(Governed!vars)
  OBVIOUS
<1>1. CASE UNCHANGED <<runs, approvals, effects>>
  <2>1. UNCHANGED <<phaseBar, verdictBar, effects>>
    BY <1>1 DEF phaseBar, verdictBar, RunStatusOf
  <2>2. QED
    BY <2>1 DEF Governed!vars
<1>2. ASSUME NEW h \in Handlers, Finish(h) PROVE [Governed!Next]_(Governed!vars)
  BY <1>2, SettleStep
<1>3. CASE /\ UNCHANGED <<approvals, effects>>
           /\ \E r \in Runs :
                 /\ RunStatusOf(r) = "absent"
                 /\ \A q \in Runs :
                       RunStatusOf(q)' = IF q = r THEN "running" ELSE RunStatusOf(q)
  BY <1>3, OpenStep
<1>4. ASSUME NEW h \in Handlers, WorkflowStep(h) PROVE [Governed!Next]_(Governed!vars)
  <2>1. CASE SaveApproval(h)
    BY <2>1, JudgeStep
  <2>2. CASE /\ At(h, "idempotent_execution") /\ UNCHANGED <<runs, approvals>>
             /\ effects' = effects \cup {Run(h)}
    <3>1. /\ Run(h) \in Runs
          /\ \E decision \in approvals[Run(h)] : Permits(decision, Run(h))
      BY <2>2, ActiveRun, ExecutePermitted DEF At, Active
    <3>2. QED
      BY <2>2, <3>1, PerformStep
  <2>3. CASE UNCHANGED <<runs, approvals, effects>>
    BY <1>1, <2>3
  <2>4. QED
    BY <1>4, <2>1, <2>2, <2>3, WorkflowStepWrites DEF SaveApproval, gatewayVars
<1>5. ASSUME NEW r \in Runs, LateEffect(r), UNCHANGED repositoryVars
      PROVE  [Governed!Next]_(Governed!vars)
  <2>1. \E decision \in approvals[r] : Permits(decision, r)
    BY <1>5 DEF LateEffect, IInv, EffectInv
  <2>2. QED
    BY <1>5, <2>1, PerformStep DEF LateEffect, repositoryVars
<1>6. ASSUME NEW h \in Handlers, Persist(h) \/ Crash(h)
      PROVE  UNCHANGED <<runs, approvals, effects>>
  BY <1>6 DEF Persist, Crash, repositoryVars, gatewayVars
<1>7. ASSUME NEW h \in Handlers, Request(h), UNCHANGED runs
      PROVE  UNCHANGED <<runs, approvals, effects>>
  BY <1>7 DEF Request, StartRun, Replay, Approve, Enter, repositoryVars, gatewayVars
<1>8. UNCHANGED vars => UNCHANGED <<runs, approvals, effects>>
  BY DEF vars, repositoryVars, gatewayVars
<1>9. QED
  BY <1>1, <1>2, <1>3, <1>4, <1>5, <1>6, <1>7, <1>8, StatusWrites DEF Next

\* With the unique index of the approvals table, the control plane implements
\* GovernedRun: one verdict per run, the effect at most once and only under an
\* approving one, completion only with the effect, and no way back from a closure.
THEOREM ControlPlaneGoverned ==
  ASSUME Backend = "postgres"
  PROVE  Spec => RunsAreGoverned
<1>1. Init => Governed!Init
  BY GovernedInit
<1>2. IInv /\ IInv' /\ [Next]_vars => [Governed!Next]_(Governed!vars)
  BY GovernedStep
<1>3. QED
  BY <1>1, <1>2, ControlPlaneInvariant, PTL DEF Spec, RunsAreGoverned, Governed!Spec
=============================================================================
