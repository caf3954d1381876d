----------------------------- MODULE ToolGateway ----------------------------
(***************************************************************************)
(* The gateway through which the workflow has effects:                     *)
(* src/control_plane/tool_gateway.py.  With the memory backend it is the   *)
(* SyntheticToolGateway with its injected faults; with postgres it is the  *)
(* McpToolGateway, a remote call to the tool server.  The server's ledger  *)
(* appears here as IdempotentEffects describes it, which EffectLedger      *)
(* implements: at most one effect per idempotency key.                     *)
(***************************************************************************)
EXTENDS Domain

CONSTANT Faults     \* which faults happen: "tool_failure" of execute, "exception" that
                    \* no node catches, "crash"

ASSUME FaultAssumption == Faults \subseteq {"tool_failure", "exception", "crash"}

VARIABLES
    effects,    \* the runs whose effect has happened
    inflight,   \* the runs with a request the server may still carry out although
                \* its caller is gone
    attempts    \* the runs whose effect was asked for (SyntheticToolGateway.attempts,
                \* which it compares with 1)

gatewayVars == <<effects, inflight, attempts>>

GatewayTypeOK ==
    /\ effects \subseteq Runs
    /\ inflight \subseteq Runs
    /\ attempts \subseteq Runs

GatewayInit == effects = {} /\ inflight = {} /\ attempts = {}

----------------------------------------------------------------------------
(***************************************************************************)
(* What a call of execute comes back with: a receipt, a ToolFailure or     *)
(* another exception.                                                      *)
(***************************************************************************)
Receipt(status) == [kind |-> "receipt", status |-> status]

ToolFailure(retryable, committed) ==
    [kind |-> "ToolFailure", retryable |-> retryable, committed |-> committed]

Exception == [kind |-> "exception"]

\* The receipt status of an effect: performed by this call or by an earlier one.
EffectStatus(r) == IF r \in effects THEN "replayed" ELSE "succeeded"

\* SyntheticToolGateway.execute.  A replay comes first; "timeout", "429", "5xx" and
\* "commit_then_timeout" strike the first attempt only, "schema_drift" every one.
SyntheticExecute(r, outcome) ==
    /\ Backend = "memory"
    /\ attempts' = attempts \cup {r}
    /\ \/ outcome = Receipt(EffectStatus(r)) /\ effects' = effects \cup {r}
       \/ /\ r \notin effects
          /\ "tool_failure" \in Faults
          /\ \/ /\ r \notin attempts
                /\ outcome = ToolFailure(TRUE, FALSE)
                /\ UNCHANGED effects
             \/ /\ outcome = ToolFailure(FALSE, FALSE)
                /\ UNCHANGED effects
             \/ /\ r \notin attempts
                /\ outcome = ToolFailure(FALSE, TRUE)
                /\ effects' = effects \cup {r}
    /\ UNCHANGED inflight

\* McpToolGateway.execute.  isError is a retryable ToolFailure, a malformed or empty
\* answer a final one, both with committed left at its default FALSE; a transport
\* error and a receipt that fails validation are other exceptions.  When the call
\* does not return a receipt the server may have performed the effect or not, and
\* when the transport failed it may do so later.
McpExecute(r, outcome) ==
    /\ Backend = "postgres"
    /\ UNCHANGED attempts
    /\ \/ /\ outcome = Receipt(EffectStatus(r))
          /\ effects' = effects \cup {r}
          /\ UNCHANGED inflight
       \/ /\ "tool_failure" \in Faults
          /\ \E retryable \in BOOLEAN : outcome = ToolFailure(retryable, FALSE)
          /\ effects' \in {effects, effects \cup {r}}
          /\ UNCHANGED inflight
       \/ /\ "exception" \in Faults
          /\ outcome = Exception
          /\ \/ effects' \in {effects, effects \cup {r}} /\ UNCHANGED inflight
             \/ inflight' = inflight \cup {r} /\ UNCHANGED effects

execute(r, outcome) == SyntheticExecute(r, outcome) \/ McpExecute(r, outcome)

\* status: the effect ledger's answer for the key of run r.
status(r) == IF r \in effects THEN "succeeded" ELSE "not_found"

\* Calls of the remote server other than execute raise whatever goes wrong: a
\* ToolFailure of theirs is caught as little as any other exception.
RemoteCallMayRaise == Backend = "postgres" /\ "exception" \in Faults

\* The tool server carries out a request whose caller is gone.
LateEffect(r) ==
    /\ r \in inflight
    /\ effects' = effects \cup {r}
    /\ inflight' = inflight \ {r}
    /\ UNCHANGED attempts
=============================================================================
