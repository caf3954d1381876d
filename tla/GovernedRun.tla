----------------------------- MODULE GovernedRun ----------------------------
(***************************************************************************)
(* What the control plane promises about a run, without handlers, nodes,   *)
(* checkpoints or failures: a run is opened, it pauses for a human or is   *)
(* stopped by policy, one verdict is given about it, its effect happens    *)
(* only under an approving verdict and at most once, it is closed as       *)
(* completed only when the effect has happened, and a closed run is never  *)
(* open again.  ControlPlane implements this specification.                *)
(***************************************************************************)
CONSTANTS Runs, None

VARIABLES
    phase,      \* phase[r]: "absent", or the status of run r
    verdict,    \* verdict[r]: None, "approved" or "rejected"
    done        \* the runs whose effect has happened

vars == <<phase, verdict, done>>

Init ==
    /\ phase = [r \in Runs |-> "absent"]
    /\ verdict = [r \in Runs |-> None]
    /\ done = {}

Open(r) ==
    /\ phase[r] = "absent"
    /\ phase' = [phase EXCEPT ![r] = "running"]
    /\ UNCHANGED <<verdict, done>>

\* The run waits for a human, or policy has stopped it.
Settle(r) ==
    /\ phase[r] = "running"
    /\ \E p \in {"awaiting_approval", "blocked"} : phase' = [phase EXCEPT ![r] = p]
    /\ UNCHANGED <<verdict, done>>

\* The verdict: the first one stays.
Judge(r) ==
    /\ phase[r] \notin {"absent", "running"}
    /\ verdict[r] = None
    /\ \E v \in {"approved", "rejected"} : verdict' = [verdict EXCEPT ![r] = v]
    /\ UNCHANGED <<phase, done>>

Perform(r) ==
    /\ verdict[r] = "approved"
    /\ r \notin done
    /\ done' = done \cup {r}
    /\ UNCHANGED <<phase, verdict>>

Complete(r) ==
    /\ verdict[r] = "approved"
    /\ r \in done
    /\ phase[r] \in {"awaiting_approval", "blocked"}
    /\ phase' = [phase EXCEPT ![r] = "completed"]
    /\ UNCHANGED <<verdict, done>>

Block(r) ==
    /\ phase[r] \in {"awaiting_approval", "completed"}
    /\ phase' = [phase EXCEPT ![r] = "blocked"]
    /\ UNCHANGED <<verdict, done>>

Next ==
    \E r \in Runs :
        Open(r) \/ Settle(r) \/ Judge(r) \/ Perform(r) \/ Complete(r) \/ Block(r)

Spec == Init /\ [][Next]_vars
=============================================================================
