---------------------------- MODULE EffectLedger ----------------------------
(***************************************************************************)
(* The effect ledger of the tool server: the table effect_ledger and the   *)
(* concurrent transactions of PostgresSyntheticToolGateway.execute and     *)
(* .status on it (src/control_plane/tool_gateway.py), at the isolation     *)
(* level psycopg uses by default, READ COMMITTED.                          *)
(*                                                                         *)
(* A call is one invocation of either method; it runs once.  The uuid4 a   *)
(* call draws for its effect is never drawn twice, so the call itself      *)
(* stands for its effect_id.  A call may be cut off at any statement: an   *)
(* open transaction is then rolled back, a committed one stays.            *)
(***************************************************************************)
CONSTANTS
    Calls,      \* invocations of execute and status
    Keys,       \* idempotency keys
    Hashes,     \* request hashes: sha256 of the action, collision free
    None        \* no row, no receipt, no holder

VARIABLES
    ledger,     \* ledger[k]: the committed row of key k, or None
    pending,    \* pending[k]: the call whose uncommitted row holds key k, or None
    call,       \* call[c]: where invocation c stands and what it asked for
    receipt     \* receipt[c]: the ToolReceipt invocation c returned, or None

vars == <<ledger, pending, call, receipt>>

Row == [effect_id : Calls, request_hash : Hashes]

Receipt ==
    [status : {"succeeded", "replayed", "not_found"}, effect_id : Calls \cup {None}]

ASSUME EffectLedgerAssumption == None \notin Calls \cup Row \cup Receipt

Methods == {"execute", "status"}

Running == {"select", "insert", "reselect", "commit", "committed", "status"}

Ended == {"returned", "idempotency_conflict", "ledger_race", "cut_off"}

TypeOK ==
    /\ ledger \in [Keys -> Row \cup {None}]
    /\ pending \in [Keys -> Calls \cup {None}]
    /\ call \in [Calls -> [pc : {"idle"} \cup Running \cup Ended,
                           method : Methods, key : Keys, hash : Hashes]]
    /\ receipt \in [Calls -> Receipt \cup {None}]

Init ==
    /\ ledger = [k \in Keys |-> None]
    /\ pending = [k \in Keys |-> None]
    /\ call \in [Calls -> [pc : {"idle"}, method : Methods, key : Keys, hash : Hashes]]
    /\ receipt = [c \in Calls |-> None]

Goto(c, label) == call' = [call EXCEPT ![c].pc = label]

\* Invocation c returns row, seen under the given status.
FromRow(c, row, status) ==
    /\ Goto(c, "returned")
    /\ receipt' = [receipt EXCEPT ![c] =
                     [status |-> status, effect_id |-> row.effect_id]]

\* A caller invokes execute (which starts with a SELECT) or status.
Invoke(c) ==
    /\ call[c].pc = "idle"
    /\ Goto(c, IF call[c].method = "execute" THEN "select" ELSE "status")
    /\ UNCHANGED <<ledger, pending, receipt>>

----------------------------------------------------------------------------
(***************************************************************************)
(* execute: SELECT, then INSERT ... ON CONFLICT DO NOTHING, then, when the *)
(* insert did nothing, SELECT again.                                       *)
(***************************************************************************)

\* The first SELECT finds no row.
SelectNothing(c) ==
    /\ call[c].pc = "select"
    /\ ledger[call[c].key] = None
    /\ Goto(c, "insert")
    /\ UNCHANGED <<ledger, pending, receipt>>

\* The first SELECT finds a row of another action: ToolFailure.
SelectConflict(c) ==
    /\ call[c].pc = "select"
    /\ LET row == ledger[call[c].key] IN
          row # None /\ row.request_hash # call[c].hash
    /\ Goto(c, "idempotency_conflict")
    /\ UNCHANGED <<ledger, pending, receipt>>

\* The first SELECT finds the row of this action: it is replayed.
SelectReplay(c) ==
    /\ call[c].pc = "select"
    /\ LET row == ledger[call[c].key] IN
          row # None /\ row.request_hash = call[c].hash /\ FromRow(c, row, "replayed")
    /\ UNCHANGED <<ledger, pending>>

\* As InsertRow, on a table whose idempotency_key is not UNIQUE.
InsertRowNoUnique(c) ==
    /\ call[c].pc = "insert"
    /\ pending' = [pending EXCEPT ![call[c].key] = c]
    /\ Goto(c, "commit")
    /\ UNCHANGED <<ledger, receipt>>

\* The INSERT adds a row, invisible to others until the commit.  It waits while
\* an uncommitted row of another transaction holds the key in the unique index.
InsertRow(c) ==
    /\ call[c].pc = "insert"
    /\ pending[call[c].key] = None
    /\ ledger[call[c].key] = None
    /\ pending' = [pending EXCEPT ![call[c].key] = c]
    /\ Goto(c, "commit")
    /\ UNCHANGED <<ledger, receipt>>

\* As InsertNothing, giving up on a key an uncommitted row holds instead of
\* waiting for that transaction.
InsertNothingNoWait(c) ==
    /\ call[c].pc = "insert"
    /\ pending[call[c].key] # None \/ ledger[call[c].key] # None
    /\ Goto(c, "reselect")
    /\ UNCHANGED <<ledger, pending, receipt>>

\* The INSERT meets a committed row: ON CONFLICT DO NOTHING.
InsertNothing(c) ==
    /\ call[c].pc = "insert"
    /\ pending[call[c].key] = None
    /\ ledger[call[c].key] # None
    /\ Goto(c, "reselect")
    /\ UNCHANGED <<ledger, pending, receipt>>

\* As Reselect, forgetting replayed=True: the row's own status is returned.
ReselectNotReplayed(c) ==
    /\ call[c].pc = "reselect"
    /\ LET row == ledger[call[c].key] IN
          \/ row # None /\ FromRow(c, row, "succeeded")
          \/ row = None /\ Goto(c, "ledger_race") /\ UNCHANGED receipt
    /\ UNCHANGED <<ledger, pending>>

\* The second SELECT takes whatever row is there; the hashes are not compared.
\* Finding none is the ToolFailure ledger_race.
Reselect(c) ==
    /\ call[c].pc = "reselect"
    /\ LET row == ledger[call[c].key] IN
          \/ row # None /\ FromRow(c, row, "replayed")
          \/ row = None /\ Goto(c, "ledger_race") /\ UNCHANGED receipt
    /\ UNCHANGED <<ledger, pending>>

\* Leaving the with block commits the inserted row.
Commit(c) ==
    /\ call[c].pc = "commit"
    /\ ledger' = [ledger EXCEPT ![call[c].key] =
                    [effect_id |-> c, request_hash |-> call[c].hash]]
    /\ pending' = [pending EXCEPT ![call[c].key] = None]
    /\ Goto(c, "committed")
    /\ UNCHANGED receipt

\* execute returns the row it inserted.
ReturnInserted(c) ==
    /\ call[c].pc = "committed"
    /\ FromRow(c, [effect_id |-> c, request_hash |-> call[c].hash], "succeeded")
    /\ UNCHANGED <<ledger, pending>>

----------------------------------------------------------------------------
\* As Status, with a receipt status that ToolReceipt does not know.
StatusUnknown(c) ==
    /\ call[c].pc = "status"
    /\ Goto(c, "returned")
    /\ receipt' = [receipt EXCEPT ![c] = [status |-> "unknown", effect_id |-> None]]
    /\ UNCHANGED <<ledger, pending>>

\* status: one SELECT; a missing row is the receipt "not_found".
Status(c) ==
    /\ call[c].pc = "status"
    /\ LET row == ledger[call[c].key] IN
          \/ row # None /\ FromRow(c, row, "succeeded")
          \/ /\ row = None
             /\ Goto(c, "returned")
             /\ receipt' = [receipt EXCEPT ![c] =
                              [status |-> "not_found", effect_id |-> None]]
    /\ UNCHANGED <<ledger, pending>>

\* As CutOff, leaving the uncommitted row behind: no rollback.
CutOffNoRollback(c) ==
    /\ call[c].pc \in Running
    /\ Goto(c, "cut_off")
    /\ UNCHANGED <<ledger, pending, receipt>>

\* The process or the connection dies: an open transaction is rolled back, and
\* a committed one leaves its row although nobody is told.
CutOff(c) ==
    /\ call[c].pc \in Running
    /\ Goto(c, "cut_off")
    /\ pending' = [k \in Keys |-> IF pending[k] = c THEN None ELSE pending[k]]
    /\ UNCHANGED <<ledger, receipt>>

----------------------------------------------------------------------------
Proceed(c) ==
    \/ SelectNothing(c) \/ SelectConflict(c) \/ SelectReplay(c)
    \/ InsertRow(c) \/ InsertNothing(c) \/ Reselect(c)
    \/ Commit(c) \/ ReturnInserted(c)
    \/ Status(c)

Next ==
    \E c \in Calls :
        \/ Invoke(c)
        \/ Proceed(c)
        \/ CutOff(c)

Spec == Init /\ [][Next]_vars

\* A transaction that can go on goes on.
FairSpec == Spec /\ \A c \in Calls : WF_vars(Proceed(c))

----------------------------------------------------------------------------
(***************************************************************************)
(* Properties.                                                             *)
(***************************************************************************)

\* Every receipt that names an effect names the one effect the ledger holds for
\* its key, whichever of the three SELECTs or the INSERT it came from; and execute
\* answers "succeeded" to the one call whose INSERT performed the effect, and
\* "replayed" to every other one.
ReceiptsAgree ==
    \A c \in Calls :
        receipt[c] # None /\ receipt[c].status # "not_found" =>
            /\ ledger[call[c].key] # None
            /\ receipt[c].effect_id = ledger[call[c].key].effect_id
            /\ call[c].method = "execute" =>
                  (receipt[c].status = "succeeded" <=> receipt[c].effect_id = c)
            /\ call[c].method = "status" => receipt[c].status = "succeeded"

\* The branch "ledger_race" of execute cannot be reached: an INSERT that did
\* nothing is followed by a SELECT that finds the row it collided with.
NoLedgerRace == \A c \in Calls : call[c].pc # "ledger_race"

\* The ledger implements at-most-once effects: see IdempotentEffects.
Abstract ==
    INSTANCE IdempotentEffects WITH
        effect <- [k \in Keys |->
                     IF ledger[k] = None THEN None ELSE ledger[k].effect_id],
        answer <- [c \in Calls |->
                     IF receipt[c] = None THEN None
                     ELSE [key |-> call[c].key, effect |-> receipt[c].effect_id]]

\* Each key gets at most one effect, every receipt names it, and a status query
\* says "not_found" only while the key has none.
AtMostOnceEffects == Abstract!Spec

\* INSERTs of one key queue up behind the transaction that holds it, never behind one
\* that waits or is gone: who is waited for has only its commit before it.
WaitsAreForCommits ==
    \A c \in Calls :
        LET holder == pending[call[c].key] IN
            call[c].pc = "insert" /\ holder # None =>
                /\ holder # c
                /\ call[holder].pc = "commit" /\ call[holder].key = call[c].key

\* No invocation waits for ever: a transaction holds one key of the unique index
\* and waits for no second one, so the INSERTs that wait for it get through.
CallsEnd == \A c \in Calls : call[c].pc \in Running ~> call[c].pc \in Ended
=============================================================================
