--------------------------- MODULE MCPolicyEngine ---------------------------
(***************************************************************************)
(* PolicyEngine for TLC: the answers of the source systems, good and bad.  *)
(***************************************************************************)
EXTENDS PolicyEngine, TLC

CONSTANTS A, B

MCTenants == {A, B}

Evidence(tenant_id, authoritative, expires_at, facts) ==
    [tenant_id |-> tenant_id, authoritative |-> authoritative, expires_at |-> expires_at,
     facts |-> facts]

Kyc(kyc_status, aml_open) ==
    "kyc_status" :> kyc_status @@ "high_severity_aml_open" :> aml_open

MCObservations ==
    {Evidence(A, TRUE, None, "transfer_status" :> "held"),
     Evidence(A, TRUE, None, "transfer_status" :> "released"),
     Evidence(A, TRUE, 1, Kyc("verified", FALSE)),
     Evidence(A, TRUE, None, Kyc("expired", FALSE)),
     Evidence(A, TRUE, None, Kyc("verified", TRUE)),
     Evidence(A, TRUE, None, "outcome_verified" :> TRUE),
     Evidence(A, TRUE, 0, "profile_status" :> "active"),
     Evidence(A, FALSE, None, "kyc_status" :> "verified"),
     Evidence(B, TRUE, None, "transfer_status" :> "pending_review")}
=============================================================================
