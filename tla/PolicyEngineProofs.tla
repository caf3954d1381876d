------------------------- MODULE PolicyEngineProofs -------------------------
(***************************************************************************)
(* Theorems about the policy: for any records the source systems may       *)
(* answer with, it allows exactly what the records clear.                  *)
(***************************************************************************)
EXTENDS PolicyEngine, TLAPS

RecordsInv ==
    /\ request \in CaseRequest
    /\ records \in Seq(Observations)
    /\ Len(records) <= MaxRecords
    /\ now \in Nat

DecisionInv ==
    /\ decided_at \in Nat
    /\ decision # None =>
          decision = deterministic_decision(request, records, tenant, decided_at)

\* A case's records: three at most.
Records == {recs \in Seq(Observations) : Len(recs) <= MaxRecords}

\* No two records say different things about a key.
Agree(recs, key) ==
    \A i, j \in Holders(recs, key) : recs[i].facts[key] = recs[j].facts[key]

LEMMA MaxOfThree ==
  ASSUME NEW S, S \subseteq 1 .. 3, S # {}
  PROVE  Max(S) \in S /\ \A i \in S : Max(S) >= i
<1>1. \E x \in S : \A y \in S : x >= y
  <2>1. CASE 3 \in S
    BY <2>1
  <2>2. CASE 3 \notin S /\ 2 \in S
    BY <2>2
  <2>3. CASE 3 \notin S /\ 2 \notin S
    <3>1. \A y \in S : y = 1
      BY <2>3
    <3>2. PICK x \in S : x = 1
      BY <3>1
    <3>3. \A y \in S : x >= y
      BY <3>1, <3>2
    <3>4. QED
      BY <3>3
  <2>4. QED
    BY <2>1, <2>2, <2>3
<1>2. QED
  BY <1>1 DEF Max

LEMMA HoldersAreThree ==
  ASSUME NEW recs \in Records, NEW key
  PROVE  Holders(recs, key) \subseteq 1 .. 3
<1>1. DOMAIN recs = 1 .. Len(recs) /\ Len(recs) \in Nat /\ Len(recs) <= 3
  BY DEF Records, MaxRecords
<1>2. QED
  BY <1>1 DEF Holders

\* The merge notices every contradiction, although it compares a value only with the
\* one it overwrites.
LEMMA ConflictsAreDisagreements ==
  ASSUME NEW recs \in Records
  PROVE  Conflicts(recs) = {} <=> \A key \in Keys(recs) : Agree(recs, key)
<1>1. ASSUME NEW key \in Keys(recs), key \notin Conflicts(recs) PROVE Agree(recs, key)
  <2> DEFINE H == Holders(recs, key)
             Before(i) == {j \in H : j < i}
             value(i) == recs[i].facts[key]
  <2>1. H \subseteq 1 .. 3
    BY HoldersAreThree
  <2>2. \A i \in H : Before(i) # {} => value(Max(Before(i))) = value(i)
    BY <1>1 DEF Conflicts
  <2>3. \A i \in H : Before(i) # {} => Max(Before(i)) \in Before(i)
                                       /\ \A j \in Before(i) : Max(Before(i)) >= j
    BY <2>1, MaxOfThree
  <2>4. 1 \in H /\ 2 \in H => value(1) = value(2)
    <3>1. 1 \in H /\ 2 \in H => Before(2) = {1}
      BY <2>1
    <3>2. 1 \in H /\ 2 \in H => Max(Before(2)) = 1 /\ Before(2) # {}
      BY <2>3, <3>1
    <3>3. QED
      BY <2>2, <3>2
  <2>5. 2 \in H /\ 3 \in H => value(2) = value(3)
    <3>1. 2 \in H /\ 3 \in H => 2 \in Before(3) /\ Before(3) \subseteq {1, 2}
      BY <2>1
    <3>2. 3 \in H /\ Before(3) # {} => Max(Before(3)) \in Before(3)
                                       /\ \A j \in Before(3) : Max(Before(3)) >= j
      BY <2>3
    <3> HIDE DEF Before
    <3>3. 2 \in H /\ 3 \in H => /\ Max(Before(3)) \in {1, 2}
                               /\ Max(Before(3)) >= 2 /\ Before(3) # {}
      BY <3>1, <3>2
    <3>4. 2 \in H /\ 3 \in H => Max(Before(3)) = 2 /\ Before(3) # {}
      BY <3>3
    <3>5. QED
      BY <2>2, <3>4
  <2>6. 1 \in H /\ 3 \in H => value(1) = value(3)
    <3>1. CASE 2 \in H
      BY <2>4, <2>5, <3>1
    <3>2. CASE 2 \notin H
      <4>1. 1 \in H /\ 3 \in H => Before(3) = {1}
        BY <2>1, <3>2
      <4>2. 1 \in H /\ 3 \in H => Max(Before(3)) = 1 /\ Before(3) # {}
        BY <2>3, <4>1
      <4>3. QED
        BY <2>2, <4>2
    <3>3. QED
      BY <3>1, <3>2
  <2> HIDE DEF value
  <2>7. \A i, j \in H : value(i) = value(j)
    BY <2>1, <2>4, <2>5, <2>6
  <2>8. QED
    BY <2>7 DEF Agree, value
<1>2. ASSUME NEW key \in Keys(recs), key \in Conflicts(recs) PROVE ~Agree(recs, key)
  <2>1. PICK i \in Holders(recs, key) :
           LET earlier == {j \in Holders(recs, key) : j < i} IN
               /\ earlier # {}
               /\ recs[Max(earlier)].facts[key] # recs[i].facts[key]
    BY <1>2 DEF Conflicts
  <2> DEFINE earlier == {j \in Holders(recs, key) : j < i}
  <2>2. Max(earlier) \in earlier
    BY <2>1, HoldersAreThree, MaxOfThree
  <2>3. QED
    BY <2>1, <2>2 DEF Agree
<1>3. Conflicts(recs) \subseteq Keys(recs)
  BY DEF Conflicts
<1>4. QED
  BY <1>1, <1>2, <1>3

\* Where the records agree, the last one says what any of them says.
LEMMA LastSaysAll ==
  ASSUME NEW recs \in Records, NEW key, NEW values, Agree(recs, key)
  PROVE  HasFact(recs, key, values) <=> Says(recs, key, values)
<1>1. Holders(recs, key) # {} => Max(Holders(recs, key)) \in Holders(recs, key)
  BY HoldersAreThree, MaxOfThree
<1>2. QED
  BY <1>1 DEF HasFact, Says, Agree

LEMMA AgreeOutsideKeys ==
  ASSUME NEW recs, NEW key, key \notin Keys(recs)
  PROVE  Agree(recs, key)
BY DEF Agree, Holders, Keys

\* Agreement, as Cleared and Tainted put it.
LEMMA AgreementOfPairs ==
  ASSUME NEW recs
  PROVE  (\A key \in Keys(recs) : Agree(recs, key))
           <=> \A i, j \in DOMAIN recs :
                  \A key \in DOMAIN recs[i].facts \cap DOMAIN recs[j].facts :
                      recs[i].facts[key] = recs[j].facts[key]
BY DEF Agree, Holders, Keys

\* The merging policy and the reference definition agree.
LEMMA AllowedIsCleared ==
  ASSUME NEW req \in CaseRequest, NEW recs \in Records, NEW ten, NEW time
  PROVE  deterministic_decision(req, recs, ten, time).allowed
           <=> Cleared(req, recs, ten, time)
<1> DEFINE blocking == RecordReasons(recs, time) \cup ActionReasons(req.requested_action, recs)
           gate == /\ req.tenant_id = ten /\ ~req.injected /\ recs # <<>>
                   /\ \A i \in DOMAIN recs : recs[i].tenant_id = req.tenant_id
<1>1. deterministic_decision(req, recs, ten, time).allowed <=> gate /\ blocking = {}
  BY DEF deterministic_decision, Stop, DeterministicDecision
<1>2. RecordReasons(recs, time) = {} <=>
         /\ \A i \in DOMAIN recs : recs[i].authoritative /\ fresh(recs[i], time)
         /\ \A key \in Keys(recs) : Agree(recs, key)
  <2>1. RecordReasons(recs, time) = {} <=>
           /\ \A i \in DOMAIN recs : recs[i].authoritative /\ fresh(recs[i], time)
           /\ Conflicts(recs) = {}
    BY DEF RecordReasons
  <2>2. QED
    BY <2>1, ConflictsAreDisagreements
<1>3. ASSUME \A key \in Keys(recs) : Agree(recs, key)
      PROVE  ActionReasons(req.requested_action, recs) = {} <=>
               /\ req.requested_action \in {"release_transfer", "remove_hold"} =>
                     /\ Says(recs, "kyc_status", {"verified"})
                     /\ ~Says(recs, "high_severity_aml_open", {TRUE})
               /\ req.requested_action = "release_transfer" =>
                     Says(recs, "transfer_status", {"held", "pending_review"})
               /\ req.requested_action = "close_case" =>
                     Says(recs, "outcome_verified", {TRUE})
  <2>1. \A key : Agree(recs, key)
    BY <1>3, AgreeOutsideKeys
  <2>2. /\ KycVerified(recs) <=> Says(recs, "kyc_status", {"verified"})
        /\ AmlOpen(recs) <=> Says(recs, "high_severity_aml_open", {TRUE})
        /\ HasFact(recs, "transfer_status", {"held", "pending_review"})
              <=> Says(recs, "transfer_status", {"held", "pending_review"})
        /\ HasFact(recs, "outcome_verified", {TRUE}) <=> Says(recs, "outcome_verified", {TRUE})
    BY <2>1, LastSaysAll DEF KycVerified, AmlOpen
  <2>3. req.requested_action \in ActionName
    BY DEF CaseRequest
  <2>4. CASE req.requested_action = "release_transfer"
    BY <2>2, <2>4 DEF ActionReasons
  <2>5. CASE req.requested_action = "remove_hold"
    BY <2>2, <2>5 DEF ActionReasons
  <2>6. CASE req.requested_action = "close_case"
    BY <2>2, <2>6 DEF ActionReasons
  <2>7. CASE req.requested_action = "place_hold"
    BY <2>7 DEF ActionReasons
  <2>8. QED
    BY <2>3, <2>4, <2>5, <2>6, <2>7 DEF ActionName
<1>4. QED
  BY <1>1, <1>2, <1>3, AgreementOfPairs DEF Cleared, fresh

----------------------------------------------------------------------------
LEMMA RecordsInitial == Init => RecordsInv /\ DecisionInv
BY DEF Init, RecordsInv, DecisionInv, MaxRecords

LEMMA RecordsStep ==
  RecordsInv /\ DecisionInv /\ [Next]_vars => RecordsInv' /\ DecisionInv'
<1> SUFFICES ASSUME RecordsInv, DecisionInv, [Next]_vars PROVE RecordsInv' /\ DecisionInv'
  OBVIOUS
<1>1. CASE UNCHANGED vars
  BY <1>1 DEF vars, RecordsInv, DecisionInv
<1>2. ASSUME NEW record \in Observations, Collect(record)
      PROVE  RecordsInv' /\ DecisionInv'
  BY <1>2 DEF Collect, RecordsInv, DecisionInv, MaxRecords
<1>3. CASE Decide
  BY <1>3 DEF Decide, RecordsInv, DecisionInv
<1>4. CASE Tick
  BY <1>4 DEF Tick, RecordsInv, DecisionInv
<1>5. QED
  BY <1>1, <1>2, <1>3, <1>4 DEF Next

\* The records are what the source systems answered, three at most, and a decision is
\* the policy's verdict on them at the time it was made.
THEOREM PolicyInvariant == Spec => [](RecordsInv /\ DecisionInv)
<1>1. QED
  BY RecordsInitial, RecordsStep, PTL DEF Spec

\* The policy allows an action exactly if the records, in no order and without being
\* merged, clear it: for every set of records the source systems may answer with.
THEOREM VerdictsAreCleared == Spec => []VerdictIsCleared
<1>1. RecordsInv /\ DecisionInv => VerdictIsCleared
  <2> SUFFICES ASSUME RecordsInv, DecisionInv, decision # None
               PROVE  decision.allowed = Cleared(request, records, tenant, decided_at)
    BY DEF VerdictIsCleared
  <2>1. records \in Records
    BY DEF RecordsInv, Records
  <2>2. decision = deterministic_decision(request, records, tenant, decided_at)
    BY DEF DecisionInv
  <2>3. decision.allowed \in BOOLEAN
    BY <2>2 DEF deterministic_decision, Stop, DeterministicDecision
  <2>4. Cleared(request, records, tenant, decided_at) \in BOOLEAN
    BY DEF Cleared
  <2>5. request \in CaseRequest
    BY DEF RecordsInv
  <2>6. decision.allowed <=> Cleared(request, records, tenant, decided_at)
    BY <2>1, <2>2, <2>5, AllowedIsCleared
  <2>7. QED
    BY <2>3, <2>4, <2>6
<1>2. QED
  BY <1>1, PolicyInvariant, PTL

----------------------------------------------------------------------------
LEMMA TaintStays ==
  ASSUME RecordsInv, Next, Tainted(records, now)
  PROVE  Tainted(records, now)'
<1>1. /\ now \in Nat /\ now' \in Nat /\ now' >= now
      /\ DOMAIN records \subseteq DOMAIN records'
      /\ \A i \in DOMAIN records : records'[i] = records[i] /\ records[i] \in Observations
  BY DEF RecordsInv, Next, Collect, Decide, Tick
<1>2. \A i \in DOMAIN records : ~fresh(records[i], now) => ~fresh(records[i], now')
  BY <1>1, ObservationAssumption DEF fresh
<1>3. QED
  BY <1>1, <1>2 DEF Tainted

LEMMA TaintBlocks ==
  ASSUME NEW req \in CaseRequest, NEW recs \in Records, NEW ten, NEW time,
         Tainted(recs, time)
  PROVE  ~deterministic_decision(req, recs, ten, time).allowed
BY AllowedIsCleared DEF Tainted, Cleared, fresh

\* Once a stale, contradicted or unauthoritative record has been collected, no further
\* record and no delay gets the action allowed.
THEOREM TaintsAreFinal == Spec => TaintIsFinal
<1>1. ASSUME RecordsInv, RecordsInv', [Next]_vars
      PROVE  [Tainted(records, now) =>
                ~deterministic_decision(request, records, tenant, now)'.allowed]_vars
  <2> SUFFICES ASSUME Next, Tainted(records, now)
               PROVE  ~deterministic_decision(request, records, tenant, now)'.allowed
    BY <1>1
  <2>1. Tainted(records', now')
    BY <1>1, TaintStays DEF Tainted, fresh
  <2>2. records' \in Records /\ request' \in CaseRequest
    BY <1>1 DEF RecordsInv, Records
  <2>3. ~deterministic_decision(request', records', tenant', now').allowed
    BY <2>1, <2>2, TaintBlocks
  <2>4. QED
    BY <2>3
<1>2. QED
  BY <1>1, PolicyInvariant, PTL DEF Spec, TaintIsFinal

----------------------------------------------------------------------------
(***************************************************************************)
(* The order of the records.                                               *)
(***************************************************************************)
\* Every record of the one list is in the other.
Within(recs, others) == \A i \in DOMAIN recs : \E j \in DOMAIN others : others[j] = recs[i]

SameRecords(recs, others) == Within(recs, others) /\ Within(others, recs)

LEMMA SwapKeepsRecords ==
  ASSUME NEW recs \in Records, NEW i \in DOMAIN recs, NEW j \in DOMAIN recs
  PROVE  Swap(recs, i, j) \in Records /\ SameRecords(recs, Swap(recs, i, j))
<1> DEFINE swapped == Swap(recs, i, j)
<1>1. recs \in Seq(Observations) /\ Len(recs) <= MaxRecords
  BY DEF Records
<1>2. /\ DOMAIN swapped = DOMAIN recs
      /\ \A k \in DOMAIN recs :
            swapped[k] = IF k = j THEN recs[i] ELSE IF k = i THEN recs[j] ELSE recs[k]
  BY DEF Swap
<1>3. recs \in [1 .. Len(recs) -> Observations] /\ Len(recs) \in Nat
  BY <1>1
<1> HIDE DEF swapped
<1>4. swapped \in [1 .. Len(recs) -> Observations]
  <2>1. \A k \in 1 .. Len(recs) : swapped[k] \in Observations
    BY <1>2, <1>3
  <2>2. swapped = [k \in 1 .. Len(recs) |-> swapped[k]]
    BY <1>2, <1>3 DEF swapped, Swap
  <2> QED
    BY <2>1, <2>2
<1>5. swapped \in Seq(Observations) /\ Len(swapped) = Len(recs)
  BY <1>3, <1>4
<1>6. \A k \in DOMAIN recs : \E l \in DOMAIN swapped : swapped[l] = recs[k]
  <2> SUFFICES ASSUME NEW k \in DOMAIN recs
               PROVE  \E l \in DOMAIN swapped : swapped[l] = recs[k]
    OBVIOUS
  <2>1. CASE k = i
    BY <2>1, <1>2
  <2>2. CASE k = j
    BY <2>2, <1>2
  <2>3. CASE k # i /\ k # j
    BY <2>3, <1>2
  <2> QED
    BY <2>1, <2>2, <2>3
<1>7. \A l \in DOMAIN swapped : \E k \in DOMAIN recs : recs[k] = swapped[l]
  BY <1>2
<1> QED
  BY <1>1, <1>5, <1>6, <1>7 DEF Records, SameRecords, Within, swapped

\* What the records say, and whether they agree, does not depend on their order.
LEMMA SayingsWithin ==
  ASSUME NEW recs, NEW others, Within(recs, others)
  PROVE  /\ \A key, values : Says(recs, key, values) => Says(others, key, values)
         /\ \A key : Agree(others, key) => Agree(recs, key)
         /\ Keys(recs) \subseteq Keys(others)
BY DEF Within, Says, Holders, Agree, Keys

LEMMA SameSayings ==
  ASSUME NEW recs, NEW others, SameRecords(recs, others)
  PROVE  /\ \A key, values : Says(recs, key, values) <=> Says(others, key, values)
         /\ \A key : Agree(recs, key) <=> Agree(others, key)
         /\ Keys(recs) = Keys(others)
BY SayingsWithin DEF SameRecords

\* A contradiction is noticed in every order.
LEMMA SameConflicts ==
  ASSUME NEW recs \in Records, NEW others \in Records, SameRecords(recs, others)
  PROVE  Conflicts(recs) = {} <=> Conflicts(others) = {}
BY ConflictsAreDisagreements, SameSayings

LEMMA SameRecordReasons ==
  ASSUME NEW recs \in Records, NEW others \in Records, SameRecords(recs, others), NEW time
  PROVE  RecordReasons(recs, time) = RecordReasons(others, time)
<1>1. (\E i \in DOMAIN recs : ~recs[i].authoritative)
        <=> \E i \in DOMAIN others : ~others[i].authoritative
  BY DEF SameRecords, Within
<1>2. (\E i \in DOMAIN recs : ~fresh(recs[i], time))
        <=> \E i \in DOMAIN others : ~fresh(others[i], time)
  BY DEF SameRecords, Within
<1> QED
  BY <1>1, <1>2, SameConflicts DEF RecordReasons

LEMMA SameActionReasons ==
  ASSUME NEW req \in CaseRequest, NEW recs \in Records, NEW others \in Records,
         SameRecords(recs, others), Conflicts(recs) = {}
  PROVE  ActionReasons(req.requested_action, recs)
           = ActionReasons(req.requested_action, others)
<1>1. \A key : Agree(recs, key) /\ Agree(others, key)
  BY ConflictsAreDisagreements, AgreeOutsideKeys, SameSayings
<1>2. \A key, values : HasFact(recs, key, values) <=> HasFact(others, key, values)
  BY <1>1, LastSaysAll, SameSayings
<1>3. /\ KycVerified(recs) <=> KycVerified(others)
      /\ AmlOpen(recs) <=> AmlOpen(others)
  BY <1>2 DEF KycVerified, AmlOpen
<1>4. req.requested_action \in ActionName
  BY DEF CaseRequest
<1>5. CASE req.requested_action = "release_transfer"
  BY <1>2, <1>3, <1>5 DEF ActionReasons
<1>6. CASE req.requested_action = "remove_hold"
  BY <1>3, <1>6 DEF ActionReasons
<1>7. CASE req.requested_action = "close_case"
  BY <1>2, <1>7 DEF ActionReasons
<1>8. CASE req.requested_action = "place_hold"
  BY <1>8 DEF ActionReasons
<1> QED
  BY <1>4, <1>5, <1>6, <1>7, <1>8 DEF ActionName

\* The conditions the policy stops at before it looks at the facts.
LEMMA SameGate ==
  ASSUME NEW recs \in Records, NEW others \in Records, SameRecords(recs, others), NEW tenant_id
  PROVE  /\ recs = <<>> <=> others = <<>>
         /\ (\E i \in DOMAIN recs : recs[i].tenant_id # tenant_id)
               <=> \E i \in DOMAIN others : others[i].tenant_id # tenant_id
<1>1. \A r \in Records : r = <<>> <=> DOMAIN r = {}
  BY DEF Records
<1> QED
  BY <1>1 DEF SameRecords, Within

\* The verdict is that of the records in any other order, and so are the reasons when
\* they do not contradict each other.
LEMMA SameVerdict ==
  ASSUME NEW req \in CaseRequest, NEW recs \in Records, NEW others \in Records,
         SameRecords(recs, others), NEW ten, NEW time
  PROVE  /\ deterministic_decision(req, recs, ten, time).allowed
               = deterministic_decision(req, others, ten, time).allowed
         /\ Conflicts(recs) = {} =>
               deterministic_decision(req, recs, ten, time)
                 = deterministic_decision(req, others, ten, time)
<1> DEFINE blocking(r) == RecordReasons(r, time) \cup ActionReasons(req.requested_action, r)
           gate(r) == /\ req.tenant_id = ten /\ ~req.injected /\ r # <<>>
                      /\ \A i \in DOMAIN r : r[i].tenant_id = req.tenant_id
<1>1. RecordReasons(recs, time) = RecordReasons(others, time)
  BY SameRecordReasons
<1>2. /\ recs = <<>> <=> others = <<>>
      /\ (\E i \in DOMAIN recs : recs[i].tenant_id # req.tenant_id)
            <=> \E i \in DOMAIN others : others[i].tenant_id # req.tenant_id
  BY SameGate
<1>3. ASSUME Conflicts(recs) = {}
      PROVE  deterministic_decision(req, recs, ten, time)
               = deterministic_decision(req, others, ten, time)
  <2>1. ActionReasons(req.requested_action, recs) = ActionReasons(req.requested_action, others)
    BY <1>3, SameActionReasons
  <2> QED
    BY <1>1, <1>2, <2>1 DEF deterministic_decision
<1>4. ASSUME Conflicts(recs) # {}
      PROVE  deterministic_decision(req, recs, ten, time).allowed
               = deterministic_decision(req, others, ten, time).allowed
  <2>1. "CONFLICTING_RECORDS" \in RecordReasons(recs, time)
    BY <1>4 DEF RecordReasons
  <2>2. \A r \in {recs, others} : blocking(r) # {}
    BY <1>1, <2>1
  <2>3. \A r \in {recs, others} : deterministic_decision(req, r, ten, time).allowed = FALSE
    BY <2>2 DEF deterministic_decision, Stop, DeterministicDecision
  <2> QED
    BY <2>3
<1> QED
  BY <1>3, <1>4

\* Whatever the order in which the source systems answer, the verdict is the same, and
\* the reasons too, unless the records contradict each other.
THEOREM VerdictsIgnoreOrder == Spec => []VerdictIgnoresOrder
<1>1. RecordsInv /\ DecisionInv => VerdictIgnoresOrder
  <2> SUFFICES ASSUME RecordsInv, NEW i \in DOMAIN records, NEW j \in DOMAIN records
               PROVE  LET verdict(recs) == deterministic_decision(request, recs, tenant, now)
                          swapped == Swap(records, i, j)
                      IN /\ verdict(records).allowed = verdict(swapped).allowed
                         /\ Conflicts(records) = {} => verdict(records) = verdict(swapped)
    BY DEF VerdictIgnoresOrder
  <2>1. records \in Records /\ request \in CaseRequest
    BY DEF RecordsInv, Records
  <2>2. Swap(records, i, j) \in Records /\ SameRecords(records, Swap(records, i, j))
    BY <2>1, SwapKeepsRecords
  <2> QED
    BY <2>1, <2>2, SameVerdict
<1>2. QED
  BY <1>1, PolicyInvariant, PTL

\* The policies a denied release refers to are among those retrieved for its case.
THEOREM DenialsAreCited == Spec => []DenialIsCited
<1>1. RecordsInv /\ DecisionInv => DenialIsCited
  <2> SUFFICES ASSUME RecordsInv, DecisionInv, decision # None,
                      NEW code \in {"KYC_NOT_VERIFIED", "HIGH_SEVERITY_AML_OPEN"},
                      code \in decision.reason_codes
               PROVE  {"POL-KYC-004", "POL-AML-011"} \subseteq retrieve_policies(request)
    BY DEF DenialIsCited
  <2>1. decision = deterministic_decision(request, records, tenant, decided_at)
    BY DEF DecisionInv
  <2>2. code \in ActionReasons(request.requested_action, records)
    BY <2>1 DEF deterministic_decision, Stop, DeterministicDecision, RecordReasons
  <2>3. request.requested_action \in ActionName
    BY DEF RecordsInv, CaseRequest
  <2>4. request.requested_action = "release_transfer"
    <3>1. request.requested_action # "remove_hold"
      BY <2>2 DEF ActionReasons
    <3>2. request.requested_action # "close_case"
      BY <2>2 DEF ActionReasons
    <3>3. request.requested_action # "place_hold"
      BY <2>2 DEF ActionReasons
    <3> QED
      BY <2>3, <3>1, <3>2, <3>3 DEF ActionName
  <2> QED
    BY <2>4 DEF retrieve_policies
<1>2. QED
  BY <1>1, PolicyInvariant, PTL
=============================================================================
