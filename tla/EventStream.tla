---------------------------- MODULE EventStream -----------------------------
(***************************************************************************)
(* The event streams of runs: get_events of src/control_plane/api.py, a    *)
(* server-sent event stream that polls the store while the requests that   *)
(* work on the run append their events to it.                              *)
(*                                                                         *)
(* A RunEvent gets its timestamp when it is built and is visible when its  *)
(* INSERT has been committed, so that events of two requests may become    *)
(* visible in another order than that of their timestamps.  A timestamp    *)
(* stands for its event.                                                   *)
(***************************************************************************)
EXTENDS CaseIntake, Naturals, Sequences

CONSTANTS
    Requests,       \* approvals and replays of runs
    Streams,        \* requests for the events of a run
    MaxEvents,      \* bound on the events of all runs
    MaxIdle         \* polls without an event after which a stream gives up: 30

ASSUME BoundAssumption == MaxEvents \in Nat /\ MaxIdle \in Nat \ {0}

VARIABLES
    clock,          \* the latest timestamp
    log,            \* log[r]: the events of run r, in the order of their commits
    writer,         \* writer[w]: the run request w works on, and the event it holds
    stream          \* stream[s]: the run it follows, and what it has sent; history:
                    \* seen, the length of the run's log at the stream's last poll

streamVars == <<clock, log, writer, stream>>

vars == <<intakeVars, streamVars>>

Writers == Deliveries \cup Requests

\* The events of a sequence of them.
EventsOf(seq) == {seq[i] : i \in DOMAIN seq}

Init ==
    /\ IntakeInit
    /\ clock = 0
    /\ log = [r \in Deliveries |-> <<>>]
    /\ writer = [w \in Writers |-> [pc |-> "idle", run |-> None, event |-> None]]
    /\ stream = [s \in Streams |-> [pc |-> "idle", run |-> None, sent |-> {},
                                    new |-> FALSE, idle |-> 0, seen |-> 0]]

----------------------------------------------------------------------------
(***************************************************************************)
(* The requests that write.                                                *)
(***************************************************************************)
\* A delivery that has created its run enters the workflow.
EnterRun(d) ==
    /\ StartRun(d)
    /\ writer' = [writer EXCEPT ![d].pc = "run", ![d].run = d]
    /\ UNCHANGED <<clock, log, stream>>

\* approve of a paused run, or replay of any run.
EnterRequest(w, r, kind) ==
    /\ writer[w].pc = "idle"
    /\ \/ kind = "approve" /\ run_status[r] = "awaiting_approval"
       \/ kind = "replay" /\ run_status[r] # "absent"
    /\ writer' = [writer EXCEPT ![w].pc = kind, ![w].run = r]
    /\ UNCHANGED <<clock, log, stream, intakeVars>>

\* RunEvent(...): the event gets its timestamp.
BuildEvent(w) ==
    /\ writer[w].run # None /\ writer[w].event = None
    /\ clock < MaxEvents
    /\ clock' = clock + 1
    /\ writer' = [writer EXCEPT ![w].event = clock + 1]
    /\ UNCHANGED <<log, stream, intakeVars>>

\* append_event: the INSERT is committed.
append_event(w) ==
    /\ writer[w].event # None
    /\ log' = [log EXCEPT ![writer[w].run] = Append(@, writer[w].event)]
    /\ writer' = [writer EXCEPT ![w].event = None]
    /\ UNCHANGED <<clock, stream, intakeVars>>

LeaveRun(w) == writer' = [writer EXCEPT ![w].pc = "over", ![w].run = None]

\* The workflow has returned: the run waits, or is closed, and the request is
\* answered.  A replay leaves the original run as it was.
Finish(w) ==
    /\ writer[w].run # None /\ writer[w].event = None
    /\ \/ /\ writer[w].pc \in {"run", "approve"}
          /\ \E status \in {"awaiting_approval", "closed"} :
                run_status' = [run_status EXCEPT ![writer[w].run] = status]
       \/ writer[w].pc = "replay" /\ UNCHANGED run_status
    /\ IF w \in Deliveries THEN Answer(w, "accepted") ELSE UNCHANGED delivery
    /\ LeaveRun(w)
    /\ UNCHANGED <<webhooks, claimant, cases, clock, log, stream>>

\* A delivery is cut off, or its workflow raises.
CutOff(d) ==
    /\ delivery[d].pc \in Working
    /\ Answer(d, "cut_off")
    /\ writer' = [writer EXCEPT ![d] = [pc |-> "over", run |-> None, event |-> None]]
    /\ UNCHANGED <<webhooks, claimant, cases, run_status, clock, log, stream>>

----------------------------------------------------------------------------
(***************************************************************************)
(* get_events.                                                             *)
(***************************************************************************)
Open(s, r) ==
    /\ stream[s].pc = "idle"
    /\ run_status[r] # "absent"
    /\ stream' = [stream EXCEPT ![s].pc = "events", ![s].run = r]
    /\ UNCHANGED <<intakeVars, clock, log, writer>>

\* As SendEvents, asking only for what is later than the last event sent.
SendLaterEvents(s) ==
    /\ stream[s].pc = "events"
    /\ LET later == {e \in EventsOf(log[stream[s].run]) : \A f \in stream[s].sent : e > f}
       IN stream' = [stream EXCEPT ![s].pc = "status",
                                   ![s].sent = @ \cup later, ![s].new = later # {},
                                   ![s].seen = Len(log[stream[s].run])]
    /\ UNCHANGED <<intakeVars, clock, log, writer>>

\* One poll of the events: those not sent before are sent.
SendEvents(s) ==
    /\ stream[s].pc = "events"
    /\ LET events == EventsOf(log[stream[s].run]) IN
          stream' = [stream EXCEPT ![s].pc = "status",
                                   ![s].sent = @ \cup events,
                                   ![s].new = ~(events \subseteq stream[s].sent),
                                   ![s].seen = Len(log[stream[s].run])]
    /\ UNCHANGED <<intakeVars, clock, log, writer>>

\* As CheckStatus, starting to count again after every heartbeat.
CheckStatusNoCount(s) ==
    /\ stream[s].pc = "status"
    /\ IF run_status[stream[s].run] = "closed"
       THEN stream' = [stream EXCEPT ![s].pc = "end"]
       ELSE stream' = [stream EXCEPT ![s].pc = "events"]
    /\ UNCHANGED <<intakeVars, clock, log, writer>>

\* After the events, the status: a closed run ends the stream; a run that has been
\* silent for MaxIdle polls does, too, without a word.
CheckStatus(s) ==
    /\ stream[s].pc = "status"
    /\ LET idle == IF stream[s].new THEN 0 ELSE stream[s].idle + 1 IN
          IF run_status[stream[s].run] = "closed"
          THEN stream' = [stream EXCEPT ![s].pc = "end"]
          ELSE stream' = [stream EXCEPT ![s].idle = idle,
                                        ![s].pc = IF idle < MaxIdle THEN "events"
                                                  ELSE "timeout"]
    /\ UNCHANGED <<intakeVars, clock, log, writer>>

\* The reader goes away.
Disconnect(s) ==
    /\ stream[s].pc \in {"events", "status"}
    /\ stream' = [stream EXCEPT ![s].pc = "disconnected"]
    /\ UNCHANGED <<intakeVars, clock, log, writer>>

----------------------------------------------------------------------------
Receive(d) ==
    (Reject(d) \/ Claim(d) \/ Duplicate(d) \/ CreateCase(d)) /\ UNCHANGED streamVars

Write(w) == append_event(w) \/ Finish(w)

Poll(s) == SendEvents(s) \/ CheckStatus(s)

Next ==
    \/ \E d \in Deliveries : Receive(d) \/ EnterRun(d) \/ CutOff(d)
    \/ \E w \in Requests, r \in Deliveries, kind \in {"approve", "replay"} :
          EnterRequest(w, r, kind)
    \/ \E w \in Writers : BuildEvent(w) \/ Write(w)
    \/ \E s \in Streams :
          (\E r \in Deliveries : Open(s, r)) \/ Poll(s) \/ Disconnect(s)

Spec == Init /\ [][Next]_vars

\* A request that is being served goes on; so does a stream, once a second.
FairSpec ==
    /\ Spec
    /\ \A d \in Deliveries : WF_vars(Receive(d) \/ EnterRun(d) \/ Write(d))
    /\ \A w \in Requests : WF_vars(Write(w))
    /\ \A s \in Streams : WF_vars(Poll(s))

----------------------------------------------------------------------------
\* A stream has sent what had been committed when it last polled, neither less nor
\* more: no event is passed over because one with a later timestamp was visible
\* before it, in this poll or in an earlier one.
StreamsHaveNoGaps ==
    \A s \in Streams :
        stream[s].run # None =>
            stream[s].sent = EventsOf(SubSeq(log[stream[s].run], 1, stream[s].seen))

\* The reads of events and of status that a stream has before it, should it find nothing
\* more to send.
ReadsLeft(s) ==
    CASE stream[s].pc = "idle" -> 2 * MaxIdle + 1
      [] stream[s].pc = "events" -> 2 * (MaxIdle - stream[s].idle)
      [] stream[s].pc = "status" ->
            IF stream[s].new THEN 2 * MaxIdle + 1 ELSE 2 * (MaxIdle - stream[s].idle) - 1
      [] stream[s].pc \in {"end", "timeout", "disconnected"} -> 0

\* A stream that has nothing to send is over after MaxIdle polls in a row: whatever
\* becomes of the run, its status and its writers, only an event prolongs it.
SilentStreamsAreBounded ==
    [][\A s \in Streams :
          stream'[s] # stream[s] /\ stream'[s].sent = stream[s].sent =>
              ReadsLeft(s)' \in 0 .. ReadsLeft(s) - 1]_vars

\* Every stream comes to an end: with the run, by its silence, or with its reader.
\* A run has finitely many events (MaxEvents).
StreamsEnd ==
    \A s \in Streams :
        stream[s].pc = "events" ~> stream[s].pc \in {"end", "timeout", "disconnected"}
=============================================================================
