------------------------- MODULE EffectLedgerProofs -------------------------
(***************************************************************************)
(* EffectLedger keeps its promise for any number of calls, keys and        *)
(* hashes: it implements IdempotentEffects, its receipts agree, and the    *)
(* branch "ledger_race" of execute is unreachable.                         *)
(***************************************************************************)
EXTENDS EffectLedger, TLAPS

\* An uncommitted row and the transaction that inserted it go together, and the
\* key it holds has no committed row.
HolderInv ==
    /\ \A c \in Calls : call[c].pc = "commit" =>
          pending[call[c].key] = c /\ ledger[call[c].key] = None
    /\ \A k \in Keys : pending[k] # None =>
          call[pending[k]].pc = "commit" /\ call[pending[k]].key = k

\* What a call may rely on between two of its statements.
ProgressInv ==
    \A c \in Calls :
        /\ call[c].pc = "reselect" => ledger[call[c].key] # None
        /\ call[c].pc = "committed" =>
              ledger[call[c].key] = [effect_id |-> c, request_hash |-> call[c].hash]
        /\ receipt[c] # None <=> call[c].pc = "returned"
        /\ receipt[c] # None => (receipt[c].status = "not_found" <=> receipt[c].effect_id = None)
        /\ call[c].pc \in {"select", "insert", "reselect", "commit", "committed"} =>
              call[c].method = "execute"
        /\ call[c].pc = "status" => call[c].method = "status"

\* A committed row was inserted by a call that is past its commit.
OwnerInv ==
    \A k \in Keys : ledger[k] # None =>
        call[ledger[k].effect_id].pc \in {"committed", "returned", "cut_off"}

IInv ==
    /\ TypeOK
    /\ HolderInv
    /\ ProgressInv
    /\ OwnerInv
    /\ ReceiptsAgree
    /\ NoLedgerRace

LEMMA InitIInv == Init => IInv
BY EffectLedgerAssumption
   DEF Init, IInv, TypeOK, HolderInv, ProgressInv, OwnerInv, ReceiptsAgree, NoLedgerRace,
       Methods, Running, Ended, Row, Receipt

\* Returning the committed row of the call's key keeps the invariant.
LEMMA ReturnRow ==
  ASSUME IInv, NEW c \in Calls, NEW status \in {"succeeded", "replayed"},
         call[c].pc \in {"select", "reselect", "committed", "status"},
         status = "replayed" <=> call[c].pc \in {"select", "reselect"},
         ledger[call[c].key] # None,
         FromRow(c, ledger[call[c].key], status),
         UNCHANGED <<ledger, pending>>
  PROVE  IInv'
<1> USE EffectLedgerAssumption DEF IInv, FromRow, Goto
<1> DEFINE row == ledger[call[c].key]
           new == [status |-> status, effect_id |-> row.effect_id]
<1>1. row \in Row /\ new \in Receipt /\ new # None /\ row.effect_id \in Calls
  BY DEF TypeOK, Row, Receipt
<1>2. /\ receipt' = [receipt EXCEPT ![c] = new]
      /\ call' = [call EXCEPT ![c].pc = "returned"]
  OBVIOUS
<1> HIDE DEF new
<1>3. TypeOK'
  BY <1>1, <1>2 DEF TypeOK, Running, Ended
<1>4. HolderInv'
  BY <1>1, <1>2 DEF TypeOK, HolderInv, Running, Ended
<1>5. ProgressInv'
  <2>1. new.status # "not_found" /\ new.effect_id # None
    BY <1>1 DEF new
  <2>2. QED
    BY <1>1, <1>2, <2>1 DEF TypeOK, ProgressInv, Running, Ended
<1>6. OwnerInv'
  BY <1>1, <1>2 DEF TypeOK, OwnerInv, Row
<1>7. ReceiptsAgree'
  <2>1. /\ new.effect_id = row.effect_id
        /\ call[c].method = "execute" => (new.status = "succeeded" <=> row.effect_id = c)
        /\ call[c].method = "status" => new.status = "succeeded"
    <3>1. CASE call[c].pc \in {"select", "reselect"}
      <4>1. row.effect_id # c
        BY <1>1, <3>1 DEF OwnerInv, TypeOK
      <4>2. call[c].method = "execute"
        BY <3>1 DEF ProgressInv
      <4>3. new.status = "replayed" /\ new.effect_id = row.effect_id
        BY <3>1 DEF new
      <4>4. QED
        BY <4>1, <4>2, <4>3
    <3>2. CASE call[c].pc = "committed"
      <4>1. row = [effect_id |-> c, request_hash |-> call[c].hash]
        BY <3>2 DEF ProgressInv
      <4>2. row.effect_id = c
        BY <4>1
      <4>3. call[c].method = "execute"
        BY <3>2 DEF ProgressInv
      <4>4. new.status = "succeeded" /\ new.effect_id = row.effect_id
        BY <3>2 DEF new
      <4>5. QED
        BY <4>2, <4>3, <4>4
    <3>3. CASE call[c].pc = "status"
      <4>1. call[c].method = "status"
        BY <3>3 DEF ProgressInv
      <4>2. new.status = "succeeded" /\ new.effect_id = row.effect_id
        BY <3>3 DEF new
      <4>3. QED
        BY <4>1, <4>2
    <3>4. QED
      BY <3>1, <3>2, <3>3
  <2>2. ASSUME NEW d \in Calls, d # c PROVE receipt'[d] = receipt[d] /\ call'[d] = call[d]
    BY <1>2, <2>2 DEF TypeOK
  <2>3. /\ receipt'[c] = new
        /\ call'[c].key = call[c].key /\ call'[c].method = call[c].method
    BY <1>2 DEF TypeOK
  <2>4. QED
    BY <2>1, <2>2, <2>3, <1>1 DEF ReceiptsAgree
<1>8. NoLedgerRace'
  BY <1>2 DEF TypeOK, NoLedgerRace
<1>9. QED
  BY <1>3, <1>4, <1>5, <1>6, <1>7, <1>8

LEMMA StepIInv == IInv /\ [Next]_vars => IInv'
<1> SUFFICES ASSUME IInv, [Next]_vars PROVE IInv'
  OBVIOUS
<1> USE EffectLedgerAssumption
<1> USE DEF IInv, TypeOK, HolderInv, ProgressInv, OwnerInv, ReceiptsAgree, NoLedgerRace,
        Methods, Running, Ended, Row, Receipt, Goto
<1>1. CASE UNCHANGED vars
  BY <1>1 DEF vars
<1>2. ASSUME NEW c \in Calls, Invoke(c) PROVE IInv'
  BY <1>2 DEF Invoke
<1>3. ASSUME NEW c \in Calls, SelectNothing(c) PROVE IInv'
  BY <1>3 DEF SelectNothing
<1>4. ASSUME NEW c \in Calls, SelectConflict(c) PROVE IInv'
  BY <1>4 DEF SelectConflict
<1>5. ASSUME NEW c \in Calls, SelectReplay(c) PROVE IInv'
  BY <1>5, ReturnRow DEF SelectReplay
<1>6. ASSUME NEW c \in Calls, InsertRow(c) PROVE IInv'
  BY <1>6 DEF InsertRow
<1>7. ASSUME NEW c \in Calls, InsertNothing(c) PROVE IInv'
  BY <1>7 DEF InsertNothing
<1>8. ASSUME NEW c \in Calls, Reselect(c) PROVE IInv'
  <2>1. ledger[call[c].key] # None
    BY <1>8 DEF Reselect
  <2>2. FromRow(c, ledger[call[c].key], "replayed")
    BY <1>8, <2>1 DEF Reselect
  <2>3. QED
    BY <1>8, <2>1, <2>2, ReturnRow DEF Reselect
<1>9. ASSUME NEW c \in Calls, Commit(c) PROVE IInv'
  BY <1>9 DEF Commit
<1>10. ASSUME NEW c \in Calls, ReturnInserted(c) PROVE IInv'
  <2>1. ledger[call[c].key] = [effect_id |-> c, request_hash |-> call[c].hash]
    BY <1>10 DEF ReturnInserted
  <2>2. ledger[call[c].key] # None
    BY <2>1
  <2>3. QED
    BY <1>10, <2>1, <2>2, ReturnRow DEF ReturnInserted
<1>11. ASSUME NEW c \in Calls, Status(c) PROVE IInv'
  <2>1. CASE ledger[call[c].key] # None
    BY <1>11, <2>1, ReturnRow DEF Status
  <2>2. CASE ledger[call[c].key] = None
    <3> DEFINE new == [status |-> "not_found", effect_id |-> None]
    <3>1. new \in Receipt /\ new # None /\ new.status = "not_found" /\ new.effect_id = None
      OBVIOUS
    <3>2. /\ receipt' = [receipt EXCEPT ![c] = new]
          /\ call' = [call EXCEPT ![c].pc = "returned"]
          /\ UNCHANGED <<ledger, pending>>
          /\ call[c].pc = "status"
      BY <1>11, <2>2 DEF Status
    <3> HIDE DEF new
    <3>3. QED
      BY <3>1, <3>2
  <2>3. QED
    BY <2>1, <2>2
<1>12. ASSUME NEW c \in Calls, CutOff(c) PROVE IInv'
  BY <1>12 DEF CutOff
<1> HIDE DEF IInv, TypeOK, HolderInv, ProgressInv, OwnerInv, ReceiptsAgree, NoLedgerRace
<1>13. QED
  BY <1>1, <1>2, <1>3, <1>4, <1>5, <1>6, <1>7, <1>8, <1>9, <1>10, <1>11, <1>12
     DEF Next, Proceed

----------------------------------------------------------------------------
\* The ledger's rows, transactions and receipts always fit together: IInv is an
\* inductive invariant of the transactions of execute and status.
THEOREM LedgerInvariant == Spec => []IInv
<1>1. Init => IInv
  BY InitIInv
<1>2. IInv /\ [Next]_vars => IInv'
  BY StepIInv
<1>3. QED
  BY <1>1, <1>2, PTL DEF Spec

\* Every variable keeps its type: a status query is answered from a row or "not_found".
THEOREM TypesKept == Spec => []TypeOK
<1>1. IInv => TypeOK
  BY DEF IInv
<1>2. QED
  BY <1>1, LedgerInvariant, PTL

\* All receipts for a key name the one effect its row holds.
THEOREM ReceiptsAgreeAlways == Spec => []ReceiptsAgree
<1>1. IInv => ReceiptsAgree
  BY DEF IInv
<1>2. QED
  BY <1>1, LedgerInvariant, PTL

\* The queues behind the unique index cannot deadlock: a transaction that is waited for
\* waits for nobody.
THEOREM WaitsAreShort == Spec => []WaitsAreForCommits
<1>1. IInv => WaitsAreForCommits
  BY DEF IInv, TypeOK, HolderInv, WaitsAreForCommits
<1>2. QED
  BY <1>1, LedgerInvariant, PTL

\* The "ledger_race" branch of execute is dead code.
THEOREM LedgerRaceUnreachable == Spec => []NoLedgerRace
<1>1. IInv => NoLedgerRace
  BY DEF IInv
<1>2. QED
  BY <1>1, LedgerInvariant, PTL

----------------------------------------------------------------------------
(***************************************************************************)
(* Refinement.  The step that commits a row performs the effect; the steps *)
(* that return a receipt answer; every other step stutters.                *)
(***************************************************************************)
effectBar == [k \in Keys |-> IF ledger[k] = None THEN None ELSE ledger[k].effect_id]

answerBar ==
    [c \in Calls |-> IF receipt[c] = None THEN None
                     ELSE [key |-> call[c].key, effect |-> receipt[c].effect_id]]

LEMMA RefinementInit == Init => Abstract!Init
BY DEF Init, Abstract!Init

\* A step that returns no receipt and commits nothing is invisible.
LEMMA InvisibleStep ==
  ASSUME IInv, NEW c \in Calls, NEW label,
         call' = [call EXCEPT ![c].pc = label], UNCHANGED <<ledger, receipt>>
  PROVE  UNCHANGED <<effectBar, answerBar>>
<1>1. \A d \in Calls : call'[d].key = call[d].key
  BY DEF IInv, TypeOK
<1>2. QED
  BY <1>1 DEF effectBar, answerBar

\* A step that returns a receipt for row, the row of the call's key or None, is
\* the corresponding answer.
LEMMA AnswerStep ==
  ASSUME IInv, NEW c \in Calls, NEW new \in Receipt,
         receipt[c] = None,
         new.effect_id = effectBar[call[c].key],
         call' = [call EXCEPT ![c].pc = "returned"],
         receipt' = [receipt EXCEPT ![c] = new],
         UNCHANGED ledger
  PROVE  Abstract!Next
<1> USE EffectLedgerAssumption DEF IInv, TypeOK
<1> DEFINE k == call[c].key
<1>1. k \in Keys /\ new # None
  OBVIOUS
<1>2. UNCHANGED effectBar
  BY DEF effectBar
<1>3. answerBar[c] = None
  BY DEF answerBar
<1>4. answerBar' = [answerBar EXCEPT ![c] = [key |-> k, effect |-> effectBar[k]]]
  <2>1. ASSUME NEW d \in Calls PROVE call'[d].key = call[d].key
    OBVIOUS
  <2>2. ASSUME NEW d \in Calls, d # c PROVE receipt'[d] = receipt[d]
    BY <2>2
  <2>3. receipt'[c] = new
    OBVIOUS
  <2>4. QED
    BY <1>1, <2>1, <2>2, <2>3 DEF answerBar
<1>5. Abstract!AnswerEffect(c, k) \/ Abstract!AnswerNotFound(c, k)
  <2>1. CASE effectBar[k] # None
    BY <1>2, <1>3, <1>4, <2>1 DEF Abstract!AnswerEffect, effectBar, answerBar
  <2>2. CASE effectBar[k] = None
    BY <1>2, <1>3, <1>4, <2>2 DEF Abstract!AnswerNotFound, effectBar, answerBar
  <2>3. QED
    BY <2>1, <2>2
<1>6. c \in Calls /\ k \in Keys
  BY <1>1
<1>7. QED
  BY <1>5, <1>6
     DEF Abstract!Next, Abstract!Perform, Abstract!AnswerEffect, Abstract!AnswerNotFound

LEMMA RefinementStep == IInv /\ [Next]_vars => [Abstract!Next]_(Abstract!vars)
<1> SUFFICES ASSUME IInv, [Next]_vars
             PROVE  Abstract!Next \/ UNCHANGED <<effectBar, answerBar>>
  BY DEF Abstract!vars, effectBar, answerBar
<1> USE EffectLedgerAssumption DEF Goto
<1>1. CASE UNCHANGED vars
  BY <1>1 DEF vars, effectBar, answerBar
<1>2. ASSUME NEW c \in Calls,
             \/ Invoke(c) \/ SelectNothing(c) \/ SelectConflict(c)
             \/ InsertRow(c) \/ InsertNothing(c) \/ CutOff(c)
      PROVE  UNCHANGED <<effectBar, answerBar>>
  BY <1>2, InvisibleStep DEF Invoke, SelectNothing, SelectConflict, InsertRow,
                             InsertNothing, CutOff
<1>3. ASSUME NEW c \in Calls, NEW status \in {"succeeded", "replayed"},
             call[c].pc # "returned", ledger[call[c].key] # None,
             FromRow(c, ledger[call[c].key], status), UNCHANGED ledger
      PROVE  Abstract!Next
  <2> DEFINE new == [status |-> status, effect_id |-> ledger[call[c].key].effect_id]
  <2>1. new \in Receipt /\ new.effect_id = effectBar[call[c].key] /\ receipt[c] = None
    BY <1>3 DEF IInv, TypeOK, ProgressInv, Row, Receipt, effectBar
  <2>2. /\ receipt' = [receipt EXCEPT ![c] = new]
        /\ call' = [call EXCEPT ![c].pc = "returned"]
    BY <1>3 DEF FromRow
  <2> HIDE DEF new
  <2>3. QED
    BY <1>3, <2>1, <2>2, AnswerStep
<1>4. ASSUME NEW c \in Calls, SelectReplay(c) PROVE Abstract!Next
  BY <1>4, <1>3 DEF SelectReplay
<1>5. ASSUME NEW c \in Calls, Reselect(c) PROVE Abstract!Next
  <2>1. ledger[call[c].key] # None /\ call[c].pc = "reselect"
    BY <1>5 DEF Reselect, IInv, ProgressInv
  <2>2. FromRow(c, ledger[call[c].key], "replayed") /\ UNCHANGED ledger
    BY <1>5, <2>1 DEF Reselect
  <2>3. QED
    BY <2>1, <2>2, <1>3
<1>6. ASSUME NEW c \in Calls, ReturnInserted(c) PROVE Abstract!Next
  <2>1. ledger[call[c].key] = [effect_id |-> c, request_hash |-> call[c].hash]
    BY <1>6 DEF ReturnInserted, IInv, ProgressInv
  <2>2. ledger[call[c].key] # None
    BY <2>1 DEF IInv, TypeOK, Row
  <2>3. QED
    BY <1>3, <1>6, <2>1, <2>2 DEF ReturnInserted
<1>7. ASSUME NEW c \in Calls, Status(c) PROVE Abstract!Next
  <2>1. CASE ledger[call[c].key] # None
    BY <1>7, <1>3, <2>1 DEF Status
  <2>2. CASE ledger[call[c].key] = None
    <3> DEFINE new == [status |-> "not_found", effect_id |-> None]
    <3>1. new \in Receipt /\ new.effect_id = effectBar[call[c].key] /\ receipt[c] = None
      BY <1>7, <2>2 DEF Status, IInv, TypeOK, ProgressInv, Receipt, effectBar
    <3>2. /\ receipt' = [receipt EXCEPT ![c] = new]
          /\ call' = [call EXCEPT ![c].pc = "returned"]
          /\ UNCHANGED ledger
      BY <1>7, <2>2 DEF Status
    <3> HIDE DEF new
    <3>3. QED
      BY <3>1, <3>2, AnswerStep
  <2>3. QED
    BY <2>1, <2>2
<1>8. ASSUME NEW c \in Calls, Commit(c) PROVE Abstract!Next
  <2> DEFINE k == call[c].key
  <2>1. k \in Keys /\ ledger[k] = None
    BY <1>8 DEF Commit, IInv, TypeOK, HolderInv
  <2>2. effectBar' = [effectBar EXCEPT ![k] = c] /\ effectBar[k] = None
    BY <1>8, <2>1 DEF Commit, IInv, TypeOK, Row, effectBar
  <2>3. answerBar' = answerBar
    BY <1>8 DEF Commit, IInv, TypeOK, answerBar
  <2>4. Abstract!Perform(c, k)
    BY <2>2, <2>3 DEF Abstract!Perform, effectBar, answerBar
  <2>5. QED
    BY <2>1, <2>4
       DEF Abstract!Next, Abstract!Perform, Abstract!AnswerEffect, Abstract!AnswerNotFound
<1>9. QED
  BY <1>1, <1>2, <1>4, <1>5, <1>6, <1>7, <1>8 DEF Next, Proceed

\* The transactions of execute and status implement IdempotentEffects: at most one
\* effect per key, whoever asks and however often, the same answer for everyone,
\* and "not_found" only while there is none.
THEOREM LedgerImplementsIdempotentEffects == Spec => AtMostOnceEffects
<1>1. Init => Abstract!Init
  BY RefinementInit
<1>2. IInv /\ [Next]_vars => [Abstract!Next]_(Abstract!vars)
  BY RefinementStep
<1>3. QED
  BY <1>1, <1>2, LedgerInvariant, PTL DEF Spec, AtMostOnceEffects, Abstract!Spec
=============================================================================
