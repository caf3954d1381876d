------------------------- MODULE IdempotentEffects -------------------------
(***************************************************************************)
(* What the effect ledger of the tool server promises its callers, without *)
(* saying how.  An effect is performed at most once per idempotency key,   *)
(* by one of the calls that asked for it; every call that is answered with *)
(* an effect is answered with that one; and a status query answers         *)
(* "not_found" only while the key has no effect.                           *)
(*                                                                         *)
(* EffectLedger implements this specification.                             *)
(***************************************************************************)
CONSTANTS
    Calls,      \* tool invocations; a call is also the identity of its effect
    Keys,       \* idempotency keys
    None        \* no effect, no answer

VARIABLES
    effect,     \* effect[k]: the call whose effect key k stands for, or None
    answer      \* answer[c]: what call c was answered with, or None

vars == <<effect, answer>>

Init ==
    /\ effect = [k \in Keys |-> None]
    /\ answer = [c \in Calls |-> None]

\* The effect of key k happens, on behalf of call c.
Perform(c, k) ==
    /\ effect[k] = None
    /\ effect' = [effect EXCEPT ![k] = c]
    /\ UNCHANGED answer

\* Call c is told the effect of key k.
AnswerEffect(c, k) ==
    /\ answer[c] = None
    /\ effect[k] # None
    /\ answer' = [answer EXCEPT ![c] = [key |-> k, effect |-> effect[k]]]
    /\ UNCHANGED effect

\* Call c is told that key k has no effect yet.
AnswerNotFound(c, k) ==
    /\ answer[c] = None
    /\ effect[k] = None
    /\ answer' = [answer EXCEPT ![c] = [key |-> k, effect |-> None]]
    /\ UNCHANGED effect

Next ==
    \E c \in Calls, k \in Keys :
        Perform(c, k) \/ AnswerEffect(c, k) \/ AnswerNotFound(c, k)

Spec == Init /\ [][Next]_vars
============================================================================
