----------------------------- MODULE CaseIntake -----------------------------
(***************************************************************************)
(* The signed webhook by which case management opens cases: webhook_case   *)
(* of src/control_plane/api.py, over claim_webhook, create_case and        *)
(* create_run of the repository.  The sender delivers an event as often as *)
(* it likes, to any instance of the service; a delivery may be cut off     *)
(* between any two of its transactions.                                    *)
(*                                                                         *)
(* The uuid4s a delivery draws for its case and for its run are never      *)
(* drawn twice: the delivery stands for both.                              *)
(***************************************************************************)
CONSTANTS
    Events,         \* event ids
    Deliveries,     \* requests to the webhook
    None

ASSUME DeliveryAssumption == None \notin Deliveries

VARIABLES
    webhooks,       \* the rows of webhook_receipts: the event ids claimed
    claimant,       \* history: claimant[e], the delivery that claimed event e
    cases,          \* the cases, by the delivery that created them
    run_status,     \* run_status[d]: the status of the run delivery d started
    delivery        \* delivery[d]: what was sent, and where its handler stands

intakeVars == <<webhooks, claimant, cases, run_status, delivery>>

Working == {"claimed", "case", "run"}

IntakeInit ==
    /\ webhooks = {}
    /\ claimant = [e \in Events |-> None]
    /\ cases = {}
    /\ run_status = [d \in Deliveries |-> "absent"]
    /\ delivery \in [Deliveries -> [pc : {"idle"}, event_id : Events,
                                    idempotency_key : Events, signed : BOOLEAN]]

Answer(d, label) == delivery' = [delivery EXCEPT ![d].pc = label]

Valid(d) ==
    delivery[d].signed /\ delivery[d].event_id = delivery[d].idempotency_key

\* 401 or 400: the signature does not match the body, or the header the event id.
Reject(d) ==
    /\ delivery[d].pc = "idle"
    /\ ~Valid(d)
    /\ Answer(d, "rejected")
    /\ UNCHANGED <<webhooks, claimant, cases, run_status>>

\* As Claim, claiming the key before it is compared with the event.
ClaimBeforeCheck(d) ==
    /\ delivery[d].pc = "idle"
    /\ delivery[d].signed
    /\ delivery[d].idempotency_key \notin webhooks
    /\ webhooks' = webhooks \cup {delivery[d].idempotency_key}
    /\ claimant' = [claimant EXCEPT ![delivery[d].idempotency_key] = d]
    /\ Answer(d, IF Valid(d) THEN "claimed" ELSE "rejected")
    /\ UNCHANGED <<cases, run_status>>

\* As Claim, without the primary key of webhook_receipts.
ClaimAgain(d) ==
    /\ delivery[d].pc = "idle"
    /\ Valid(d)
    /\ webhooks' = webhooks \cup {delivery[d].idempotency_key}
    /\ claimant' = [claimant EXCEPT ![delivery[d].idempotency_key] = d]
    /\ Answer(d, "claimed")
    /\ UNCHANGED <<cases, run_status>>

\* claim_webhook inserts the event id, in a transaction of its own.
Claim(d) ==
    /\ delivery[d].pc = "idle"
    /\ Valid(d)
    /\ delivery[d].idempotency_key \notin webhooks
    /\ webhooks' = webhooks \cup {delivery[d].idempotency_key}
    /\ claimant' = [claimant EXCEPT ![delivery[d].idempotency_key] = d]
    /\ Answer(d, "claimed")
    /\ UNCHANGED <<cases, run_status>>

\* claim_webhook finds the event id: the answer is 200, "duplicate".
Duplicate(d) ==
    /\ delivery[d].pc = "idle"
    /\ Valid(d)
    /\ delivery[d].idempotency_key \in webhooks
    /\ Answer(d, "duplicate")
    /\ UNCHANGED <<webhooks, claimant, cases, run_status>>

\* create_case: the actor is made up from the event, so that its tenant is the case's.
CreateCase(d) ==
    /\ delivery[d].pc = "claimed"
    /\ cases' = cases \cup {d}
    /\ Answer(d, "case")
    /\ UNCHANGED <<webhooks, claimant, run_status>>

\* start_run, up to the workflow: the run is created.
StartRun(d) ==
    /\ delivery[d].pc = "case"
    /\ run_status' = [run_status EXCEPT ![d] = "running"]
    /\ Answer(d, "run")
    /\ UNCHANGED <<webhooks, claimant, cases>>

IntakeStep(d) ==
    Reject(d) \/ Claim(d) \/ Duplicate(d) \/ CreateCase(d) \/ StartRun(d)

----------------------------------------------------------------------------
\* However often and however concurrently an event is delivered, and whatever is
\* cut off, it opens one case and starts one run at most.
OneRunPerEvent ==
    /\ \A d1, d2 \in cases :
          delivery[d1].event_id = delivery[d2].event_id => d1 = d2
    /\ \A d \in Deliveries : run_status[d] # "absent" => d \in cases

\* An event that has been claimed gets its run, unless the one delivery that
\* claimed it is cut off: the others are told it is a duplicate.
ClaimedEventsRun ==
    \A e \in Events :
        e \in webhooks ~>
            \E d \in Deliveries :
                /\ claimant[e] = d
                /\ delivery[d].pc = "cut_off" \/ run_status[d] # "absent"
=============================================================================
