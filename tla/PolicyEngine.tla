---------------------------- MODULE PolicyEngine ----------------------------
(***************************************************************************)
(* The policy at work: the collection of the evidence it decides on.       *)
(*                                                                         *)
(* A case's records are collected one call after the other while time goes *)
(* on; then the policy decides once.  The decision is a pure function of   *)
(* the request, of the records in the order they came, and of the time, at *)
(* which a record may have expired.                                        *)
(***************************************************************************)
EXTENDS Policy

CONSTANTS
    Observations,   \* the EvidenceRecords a source system may answer with
    MaxTime         \* bound on the clock

ASSUME TimeAssumption == MaxTime \in Nat /\ None \notin Nat

\* EvidenceRecord: its authority and its expiry are known; "facts" is a function.
ASSUME ObservationAssumption ==
    \A record \in Observations :
        record.authoritative \in BOOLEAN /\ record.expires_at \in Nat \cup {None}

\* get_customer_profile, get_kyc_aml, get_transfer.
MaxRecords == 3

VARIABLES
    request,    \* the case's CaseRequest
    tenant,     \* the authenticated tenant
    records,    \* the EvidenceRecords collected, in their order
    now,        \* utcnow()
    decision,   \* the DeterministicDecision, or None
    decided_at  \* history: the time of the decision

vars == <<request, tenant, records, now, decision, decided_at>>

Init ==
    /\ request \in CaseRequest
    /\ tenant \in Tenants
    /\ records = <<>>
    /\ now = 0
    /\ decision = None
    /\ decided_at = 0

----------------------------------------------------------------------------
\* collect: the next source system answers.
Collect(record) ==
    /\ decision = None
    /\ Len(records) < MaxRecords
    /\ records' = Append(records, record)
    /\ UNCHANGED <<request, tenant, now, decision, decided_at>>

\* _decide
Decide ==
    /\ decision = None
    /\ decision' = deterministic_decision(request, records, tenant, now)
    /\ decided_at' = now
    /\ UNCHANGED <<request, tenant, records, now>>

\* Time goes on; bounded by MaxTime.
Tick ==
    /\ now < MaxTime
    /\ now' = now + 1
    /\ UNCHANGED <<request, tenant, records, decision, decided_at>>

Next == (\E record \in Observations : Collect(record)) \/ Decide \/ Tick

Spec == Init /\ [][Next]_vars

----------------------------------------------------------------------------
(***************************************************************************)
(* Properties.                                                             *)
(***************************************************************************)

\* What must be said about the case, by whichever record, for an action to be
\* allowed; no order, no merging.
Says(recs, key, values) ==
    \E i \in Holders(recs, key) : recs[i].facts[key] \in values

Cleared(req, recs, authenticated_tenant, time) ==
    /\ req.tenant_id = authenticated_tenant
    /\ ~req.injected
    /\ recs # <<>>
    /\ \A i \in DOMAIN recs :
          /\ recs[i].tenant_id = req.tenant_id /\ recs[i].authoritative
          /\ recs[i].expires_at # None => time <= recs[i].expires_at
    /\ \A i, j \in DOMAIN recs : \A key \in DOMAIN recs[i].facts \cap DOMAIN recs[j].facts :
          recs[i].facts[key] = recs[j].facts[key]
    /\ req.requested_action \in {"release_transfer", "remove_hold"} =>
          /\ Says(recs, "kyc_status", {"verified"})
          /\ ~Says(recs, "high_severity_aml_open", {TRUE})
    /\ req.requested_action = "release_transfer" =>
          Says(recs, "transfer_status", {"held", "pending_review"})
    /\ req.requested_action = "close_case" => Says(recs, "outcome_verified", {TRUE})

\* The policy allows exactly what the records clear: merging them, in which a later
\* record hides an earlier one, never hides a bad record nor invents a conflict.
VerdictIsCleared ==
    decision # None =>
        decision.allowed = Cleared(request, records, tenant, decided_at)

Swap(recs, i, j) == [recs EXCEPT ![i] = recs[j], ![j] = recs[i]]

\* The order in which the source systems answer decides nothing: not the verdict,
\* and unless the records contradict each other not the reason codes.
VerdictIgnoresOrder ==
    \A i, j \in DOMAIN records :
        LET verdict(recs) == deterministic_decision(request, recs, tenant, now)
            swapped == Swap(records, i, j)
        IN /\ verdict(records).allowed = verdict(swapped).allowed
           /\ Conflicts(records) = {} => verdict(records) = verdict(swapped)

\* Evidence the policy must stop on, whatever else there is.
Tainted(recs, time) ==
    \E i \in DOMAIN recs :
        \/ ~recs[i].authoritative \/ ~fresh(recs[i], time)
        \/ \E j \in DOMAIN recs :
              \E key \in DOMAIN recs[i].facts \cap DOMAIN recs[j].facts :
                  recs[i].facts[key] # recs[j].facts[key]

\* A stale, contradicted or unauthoritative record is not made up for: once one has
\* been collected, no further record and no delay gets the action allowed.
TaintIsFinal ==
    [][Tainted(records, now) =>
         ~deterministic_decision(request, records, tenant, now)'.allowed]_vars

\* A release denied for its KYC status or for an AML alert is explained: the policy
\* that says so is among those retrieved for the case, which the recommendation may
\* cite.  (Of the in-memory retriever; the one on PostgreSQL returns the five best
\* matches.)
DenialIsCited ==
    decision # None =>
        /\ "KYC_NOT_VERIFIED" \in decision.reason_codes =>
              "POL-KYC-004" \in retrieve_policies(request)
        /\ "HIGH_SEVERITY_AML_OPEN" \in decision.reason_codes =>
              "POL-AML-011" \in retrieve_policies(request)
=============================================================================
