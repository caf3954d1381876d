---------------------------- MODULE ModelProvider ----------------------------
(***************************************************************************)
(* The recommendation providers: src/control_plane/model_provider.py.  A   *)
(* reply is what one attempt to ask the model comes to; the Vertex         *)
(* provider repeats attempts that failed transiently, up to MaxAttempts.   *)
(***************************************************************************)
EXTENDS Naturals

CONSTANT MaxAttempts    \* stop_after_attempt; 5 in the code

ASSUME AttemptsAssumption == MaxAttempts \in Nat \ {0}

Provider == {"deterministic", "vertex"}

\* A recommendation without unsupported claims, with some, or citing a policy that
\* was not retrieved.
Recommendation == {"supported", "claims", "uncited"}

\* The exceptions of an attempt, with the kinds in their chain of __cause__.
Errors == {"throttled", "wrapped", "broken"}

Chain(error) ==
    CASE error = "throttled" -> {"throttled"}
      [] error = "wrapped" -> {"broken", "throttled"}
      [] error = "broken" -> {"broken"}

\* "invalid" is the ValueError of an answer that is no structured recommendation.
Reply == Recommendation \cup {"invalid"} \cup Errors

RepliesOf(provider) == IF provider = "vertex" THEN Reply ELSE {"supported"}

\* One marker in one exception of the chain is enough.
is_transient_vertex_error(error) == "throttled" \in Chain(error)

\* As Retries, off by one at the last attempt.
RetriesOnceMore(reply, attempt) ==
    reply \in Errors /\ is_transient_vertex_error(reply) /\ attempt <= MaxAttempts

\* recommend asks again, after a pause.
Retries(reply, attempt) ==
    reply \in Errors /\ is_transient_vertex_error(reply) /\ attempt < MaxAttempts
=============================================================================
