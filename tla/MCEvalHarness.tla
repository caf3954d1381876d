---------------------------- MODULE MCEvalHarness ----------------------------
(***************************************************************************)
(* EvalHarness for TLC: the kinds of cases of evals/cases.jsonl, in suites *)
(* of three.                                                               *)
(***************************************************************************)
EXTENDS EvalHarness

Case(category, action, fault, attack, expected_outcome) ==
    [category |-> category,
     request |-> [tenant_id |-> "northstar-bank", requested_action |-> action,
                  anomaly_type |-> "profile_mismatch", injected |-> FALSE],
     fault |-> fault, attack |-> attack, expected_outcome |-> expected_outcome]

Happy(action) == Case("happy_path", action, "none", "none", "execute")
Records(variant) == Case("record_integrity", "release_transfer", variant, "none", "block")
Transient(fault) == Case("transient_failure", "release_transfer", fault, "none", "execute")
Drift == Case("transient_failure", "release_transfer", "schema_drift", "none", "block")
Security(attack) == Case("security", "release_transfer", "none", attack, "block")
Replayed(fault) == Case("idempotency_replay", "release_transfer", fault, "none", "execute")
Compensation == Case("idempotency_replay", "place_hold", "compensation", "none", "execute")

\* Every kind of case by itself, pairs that interleave, and three that must wait.
MCKinds ==
    {Happy(action) : action \in {"remove_hold", "release_transfer", "place_hold"}}
    \cup {Records(variant) : variant \in RecordVariants}
    \cup {Transient(fault) : fault \in RECOVERABLE_FAULTS} \cup {Drift}
    \cup {Security(attack) : attack \in Attacks}
    \cup {Replayed(fault) : fault \in ReplayFaults \ {"compensation"}} \cup {Compensation}

MCSuites ==
    {<<kind>> : kind \in MCKinds}
    \cup {<<Happy("remove_hold"), Transient("commit_then_timeout")>>,
          <<Security("cross_tenant"), Replayed("duplicate_webhook")>>,
          <<Security("unauthorized_role"), Security("cross_tenant"), Happy("place_hold")>>}

MCTenants == {"northstar-bank", "other-bank"}
MCBoth == {"deterministic", "vertex"}
=============================================================================
