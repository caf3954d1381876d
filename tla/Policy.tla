------------------------------- MODULE Policy -------------------------------
(***************************************************************************)
(* The deterministic policy as a function: src/control_plane/policy.py on  *)
(* the types of src/control_plane/domain.py.                               *)
(***************************************************************************)
EXTENDS Naturals, Sequences, FiniteSetsExt

CONSTANTS
    Tenants,
    None            \* no expiry, no decision

ActionName == {"place_hold", "remove_hold", "release_transfer", "close_case"}

\* AnomalyType, as far as the policy looks at it.
AnomalyType == {"kyc_expired", "aml_alert", "profile_mismatch"}

\* CaseRequest; "injected" says that the notes match one of INJECTION_PATTERNS.
CaseRequest ==
    [tenant_id : Tenants, requested_action : ActionName, anomaly_type : AnomalyType,
     injected : BOOLEAN]

----------------------------------------------------------------------------
(***************************************************************************)
(* Evidence.                                                               *)
(***************************************************************************)
\* As fresh, off by one at the moment of expiry.
FreshStrictly(record, time) == record.expires_at = None \/ record.expires_at > time

\* EvidenceRecord.fresh
fresh(record, time) == record.expires_at = None \/ record.expires_at >= time

\* The records that have a fact under the given key.
Holders(recs, key) == {i \in DOMAIN recs : key \in DOMAIN recs[i].facts}

Keys(recs) == UNION {DOMAIN recs[i].facts : i \in DOMAIN recs}

\* facts.get(key): the records are merged in their order, the last one wins.
HasFact(recs, key, values) ==
    /\ Holders(recs, key) # {}
    /\ recs[Max(Holders(recs, key))].facts[key] \in values

\* As Conflicts, without looking at the value that is overwritten.
NoConflicts(recs) == {}

\* conflicts: the keys of which a record overwrites a different value.
Conflicts(recs) ==
    {key \in Keys(recs) :
        \E i \in Holders(recs, key) :
            LET earlier == {j \in Holders(recs, key) : j < i} IN
                /\ earlier # {}
                /\ recs[Max(earlier)].facts[key] # recs[i].facts[key]}

----------------------------------------------------------------------------
(***************************************************************************)
(* The reasons against an action.                                          *)
(***************************************************************************)
\* As RecordReasons, looking at the latest record only.
LatestRecordReasons(recs, time) ==
    {code \in {"NON_AUTHORITATIVE_RECORD", "STALE_RECORD", "CONFLICTING_RECORDS"} :
        \/ code = "NON_AUTHORITATIVE_RECORD" /\ ~recs[Len(recs)].authoritative
        \/ code = "STALE_RECORD" /\ ~fresh(recs[Len(recs)], time)
        \/ code = "CONFLICTING_RECORDS" /\ Conflicts(recs) # {}}

RecordReasons(recs, time) ==
    {code \in {"NON_AUTHORITATIVE_RECORD", "STALE_RECORD", "CONFLICTING_RECORDS"} :
        \/ code = "NON_AUTHORITATIVE_RECORD"
           /\ \E i \in DOMAIN recs : ~recs[i].authoritative
        \/ code = "STALE_RECORD"
           /\ \E i \in DOMAIN recs : ~fresh(recs[i], time)
        \/ code = "CONFLICTING_RECORDS" /\ Conflicts(recs) # {}}

KycVerified(recs) == HasFact(recs, "kyc_status", {"verified"})

AmlOpen(recs) == HasFact(recs, "high_severity_aml_open", {TRUE})

ActionReasons(action, recs) ==
    CASE action = "release_transfer" ->
            {code \in {"KYC_NOT_VERIFIED", "HIGH_SEVERITY_AML_OPEN",
                       "TRANSFER_NOT_RELEASABLE"} :
                \/ code = "KYC_NOT_VERIFIED" /\ ~KycVerified(recs)
                \/ code = "HIGH_SEVERITY_AML_OPEN" /\ AmlOpen(recs)
                \/ code = "TRANSFER_NOT_RELEASABLE"
                   /\ ~HasFact(recs, "transfer_status", {"held", "pending_review"})}
      [] action = "remove_hold" ->
            IF ~KycVerified(recs) \/ AmlOpen(recs)
            THEN {"HOLD_CONDITION_NOT_CLEARED"} ELSE {}
      [] action = "close_case" ->
            IF ~HasFact(recs, "outcome_verified", {TRUE})
            THEN {"OUTCOME_NOT_VERIFIED"} ELSE {}
      [] action = "place_hold" -> {}

DeterministicDecision(allowed, reason_codes) ==
    [allowed |-> allowed, reason_codes |-> reason_codes]

Stop(code) == DeterministicDecision(FALSE, {code})

deterministic_decision(req, recs, authenticated_tenant, time) ==
    IF req.tenant_id # authenticated_tenant THEN Stop("TENANT_MISMATCH")
    ELSE IF req.injected THEN Stop("UNTRUSTED_INSTRUCTION")
    ELSE IF recs = <<>> THEN Stop("MISSING_AUTHORITATIVE_RECORDS")
    ELSE IF \E i \in DOMAIN recs : recs[i].tenant_id # req.tenant_id
    THEN Stop("CROSS_TENANT_EVIDENCE")
    ELSE LET blocking == RecordReasons(recs, time)
                         \cup ActionReasons(req.requested_action, recs)
         IN DeterministicDecision(blocking = {},
                                  IF blocking = {} THEN {"POLICY_CONDITIONS_MET"}
                                  ELSE blocking)

----------------------------------------------------------------------------
\* As retrieve_policies, by the anomaly alone.
PoliciesOfAnomaly(req) ==
    {"POL-TENANT-001", "POL-EFFECT-002", "POL-CASE-007"}
    \cup (IF req.anomaly_type = "kyc_expired" THEN {"POL-KYC-004"} ELSE {})
    \cup (IF req.anomaly_type = "aml_alert" THEN {"POL-AML-011"} ELSE {})

\* retrieve_policies: all that is wanted, for the limit of 5 is the number of POLICIES.
retrieve_policies(req) ==
    {"POL-TENANT-001", "POL-EFFECT-002", "POL-CASE-007"}
    \cup (IF req.requested_action = "release_transfer" \/ req.anomaly_type = "kyc_expired"
          THEN {"POL-KYC-004"} ELSE {})
    \cup (IF req.requested_action = "release_transfer" \/ req.anomaly_type = "aml_alert"
          THEN {"POL-AML-011"} ELSE {})
=============================================================================
