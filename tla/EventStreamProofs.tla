------------------------- MODULE EventStreamProofs --------------------------
(***************************************************************************)
(* Theorems about the intake and the event streams.                        *)
(***************************************************************************)
EXTENDS EventStream, TLAPS

DeliveryRecord ==
    [pc : {"idle", "rejected", "duplicate", "claimed", "case", "run", "accepted", "cut_off"},
     event_id : Events, idempotency_key : Events, signed : BOOLEAN]

\* A case is owed to the claim of its event, and the claim is never given up.
ClaimInv ==
    /\ delivery \in [Deliveries -> DeliveryRecord]
    /\ claimant \in [Events -> Deliveries \cup {None}]
    /\ webhooks = {e \in Events : claimant[e] # None}
    /\ cases \subseteq Deliveries
    /\ \A d \in Deliveries :
          /\ delivery[d].pc \in Working \/ d \in cases =>
                claimant[delivery[d].event_id] = d
          /\ delivery[d].pc \in {"case", "run"} => d \in cases

\* Requests work on runs that exist.
WriterInv ==
    /\ run_status \in [Deliveries -> {"absent", "running", "awaiting_approval", "closed"}]
    /\ writer \in [Writers -> [pc : {"idle", "run", "approve", "replay", "over"},
                               run : Deliveries \cup {None}, event : Nat \cup {None}]]
    /\ clock \in Nat
    /\ \A w \in Writers : writer[w].run # None => run_status[writer[w].run] # "absent"
    /\ \A d \in Deliveries : run_status[d] # "absent" => d \in cases

IInv == ClaimInv /\ WriterInv

LEMMA IntakeInitial == Init => IInv
BY DeliveryAssumption
   DEF Init, IntakeInit, IInv, ClaimInv, WriterInv, DeliveryRecord, Working, Writers

\* An answer to d that does not enter a new stage of the intake.
LEMMA AnswerKeepsClaims ==
  ASSUME ClaimInv, NEW d \in Deliveries, NEW label, Answer(d, label),
         label \in {"rejected", "duplicate", "accepted", "cut_off"},
         UNCHANGED <<webhooks, claimant, cases>>
  PROVE  ClaimInv'
BY DEF ClaimInv, Answer, DeliveryRecord, Working

LEMMA IntakeStepInv ==
  ASSUME IInv, NEW d \in Deliveries, Receive(d)
  PROVE  IInv'
<1>1. UNCHANGED <<run_status, writer, clock>> /\ cases \subseteq cases'
  BY DEF Receive, Reject, Claim, Duplicate, CreateCase, streamVars
<1>2. WriterInv'
  BY <1>1 DEF IInv, WriterInv
<1>3. CASE Reject(d) \/ Duplicate(d)
  BY <1>3, <1>2, AnswerKeepsClaims DEF Reject, Duplicate, IInv
<1>4. CASE Claim(d)
  <2> DEFINE e == delivery[d].event_id
  <2>1. /\ e \in Events /\ e = delivery[d].idempotency_key
        /\ claimant[e] = None /\ d # None
        /\ delivery[d].pc = "idle" /\ d \notin cases
    BY <1>4, DeliveryAssumption DEF Claim, Valid, IInv, ClaimInv, DeliveryRecord
  <2>2. /\ claimant' = [claimant EXCEPT ![e] = d]
        /\ webhooks' = webhooks \cup {e}
        /\ delivery' = [delivery EXCEPT ![d].pc = "claimed"]
        /\ cases' = cases
    BY <1>4, <2>1 DEF Claim, Answer
  <2>3. ASSUME NEW f \in Deliveries,
               delivery'[f].pc \in Working \/ f \in cases
        PROVE  claimant'[delivery'[f].event_id] = f
    <3>1. CASE f = d
      BY <2>1, <2>2, <3>1 DEF IInv, ClaimInv, DeliveryRecord
    <3>2. CASE f # d
      <4>1. delivery'[f] = delivery[f]
        BY <2>2, <3>2 DEF IInv, ClaimInv
      <4>2. claimant[delivery[f].event_id] = f /\ f # None
        BY <2>3, <4>1, DeliveryAssumption DEF IInv, ClaimInv
      <4>3. delivery[f].event_id # e
        BY <2>1, <4>2
      <4>4. QED
        BY <2>2, <4>1, <4>2, <4>3 DEF IInv, ClaimInv, DeliveryRecord
    <3>3. QED
      BY <3>1, <3>2
  <2>4. delivery' \in [Deliveries -> DeliveryRecord]
    BY <2>2 DEF IInv, ClaimInv, DeliveryRecord
  <2>5. claimant' \in [Events -> Deliveries \cup {None}]
    BY <2>2 DEF IInv, ClaimInv
  <2>6. webhooks' = {x \in Events : claimant'[x] # None}
    BY <2>1, <2>2 DEF IInv, ClaimInv
  <2>7. \A f \in Deliveries : delivery'[f].pc \in {"case", "run"} => f \in cases
    BY <2>2 DEF IInv, ClaimInv, DeliveryRecord
  <2>8. ClaimInv'
    BY <2>2, <2>3, <2>4, <2>5, <2>6, <2>7 DEF IInv, ClaimInv
  <2>9. QED
    BY <1>2, <2>8 DEF IInv
<1>5. CASE CreateCase(d)
  BY <1>5, <1>2 DEF CreateCase, Answer, IInv, ClaimInv, DeliveryRecord, Working
<1>6. QED
  BY <1>3, <1>4, <1>5 DEF Receive

LEMMA StreamStepInv == IInv /\ [Next]_vars => IInv'
<1> SUFFICES ASSUME IInv, [Next]_vars PROVE IInv'
  OBVIOUS
<1>1. CASE UNCHANGED vars
  BY <1>1 DEF vars, intakeVars, streamVars, IInv, ClaimInv, WriterInv
<1>2. ASSUME NEW d \in Deliveries, Receive(d) PROVE IInv'
  BY <1>2, IntakeStepInv
<1>3. ASSUME NEW d \in Deliveries, EnterRun(d) PROVE IInv'
  <2>1. ClaimInv'
    BY <1>3 DEF EnterRun, StartRun, Answer, IInv, ClaimInv, DeliveryRecord, Working
  <2>2. d \in Writers /\ d \in cases
    BY <1>3 DEF EnterRun, StartRun, Writers, IInv, ClaimInv
  <2>3. WriterInv'
    BY <1>3, <2>2 DEF EnterRun, StartRun, IInv, WriterInv
  <2>4. QED
    BY <2>1, <2>3 DEF IInv
<1>4. ASSUME NEW d \in Deliveries, CutOff(d) PROVE IInv'
  <2>1. ClaimInv'
    BY <1>4, AnswerKeepsClaims DEF CutOff, IInv
  <2>2. WriterInv'
    BY <1>4 DEF CutOff, IInv, WriterInv, Writers
  <2>3. QED
    BY <2>1, <2>2 DEF IInv
<1>5. ASSUME NEW w \in Requests, NEW r \in Deliveries, NEW kind \in {"approve", "replay"},
             EnterRequest(w, r, kind)
      PROVE  IInv'
  <2>1. ClaimInv'
    BY <1>5 DEF EnterRequest, intakeVars, IInv, ClaimInv
  <2>2. WriterInv'
    BY <1>5 DEF EnterRequest, intakeVars, IInv, WriterInv, Writers
  <2>3. QED
    BY <2>1, <2>2 DEF IInv
<1>6. ASSUME NEW w \in Writers, BuildEvent(w) \/ append_event(w) PROVE IInv'
  <2>1. ClaimInv'
    BY <1>6 DEF BuildEvent, append_event, intakeVars, IInv, ClaimInv
  <2>2. WriterInv'
    BY <1>6 DEF BuildEvent, append_event, intakeVars, IInv, WriterInv
  <2>3. QED
    BY <2>1, <2>2 DEF IInv
<1>7. ASSUME NEW w \in Writers, Finish(w) PROVE IInv'
  <2>1. ClaimInv'
    <3>1. CASE w \in Deliveries
      BY <1>7, <3>1, AnswerKeepsClaims DEF Finish, IInv
    <3>2. CASE w \notin Deliveries
      BY <1>7, <3>2 DEF Finish, IInv, ClaimInv
    <3>3. QED
      BY <3>1, <3>2
  <2>2. writer[w].run \in Deliveries /\ run_status[writer[w].run] # "absent"
    BY <1>7 DEF Finish, IInv, WriterInv
  <2>3. /\ run_status' \in [Deliveries ->
                              {"absent", "running", "awaiting_approval", "closed"}]
        /\ \A d \in Deliveries : run_status'[d] = "absent" <=> run_status[d] = "absent"
    BY <1>7, <2>2 DEF Finish, IInv, WriterInv
  <2>4. WriterInv'
    BY <1>7, <2>3 DEF Finish, LeaveRun, IInv, WriterInv
  <2>5. QED
    BY <2>1, <2>4 DEF IInv
<1>8. ASSUME NEW s \in Streams,
             (\E r \in Deliveries : Open(s, r)) \/ Poll(s) \/ Disconnect(s)
      PROVE  IInv'
  <2>1. UNCHANGED <<intakeVars, clock, log, writer>>
    BY <1>8 DEF Open, Poll, SendEvents, CheckStatus, Disconnect
  <2>2. QED
    BY <2>1 DEF intakeVars, IInv, ClaimInv, WriterInv
<1>9. QED
  BY <1>1, <1>2, <1>3, <1>4, <1>5, <1>6, <1>7, <1>8 DEF Next, Write

\* The claims, the cases and the runs stay consistent.
THEOREM IntakeInvariant == Spec => []IInv
<1>1. QED
  BY IntakeInitial, StreamStepInv, PTL DEF Spec

\* An event opens one case and starts one run at most, for any number of events,
\* deliveries, requests and streams.
THEOREM EventsRunOnce == Spec => []OneRunPerEvent
<1>1. IInv => OneRunPerEvent
  BY DEF IInv, ClaimInv, WriterInv, OneRunPerEvent
<1>2. QED
  BY <1>1, IntakeInvariant, PTL

----------------------------------------------------------------------------
(***************************************************************************)
(* Streams.                                                                *)
(***************************************************************************)
\* A stream holds a beginning of the log it follows.
Follows(s) ==
    /\ stream[s].run # None =>
          /\ stream[s].seen \in 0 .. Len(log[stream[s].run])
          /\ stream[s].sent = EventsOf(SubSeq(log[stream[s].run], 1, stream[s].seen))
    /\ stream[s].pc = "idle" => stream[s].sent = {} /\ stream[s].seen = 0
    /\ stream[s].pc # "idle" => stream[s].run # None

StreamInv ==
    /\ log \in [Deliveries -> Seq(Nat)]
    /\ stream \in [Streams -> [pc : {"idle", "events", "status", "end", "timeout",
                                    "disconnected"},
                               run : Deliveries \cup {None}, sent : SUBSET Nat,
                               new : BOOLEAN, idle : Nat, seen : Nat]]
    /\ \A s \in Streams : Follows(s)

\* What has been committed stays where it is in the log.
LEMMA CommittedStays ==
  ASSUME NEW l \in Seq(Nat), NEW e \in Nat, NEW n \in 0 .. Len(l)
  PROVE  EventsOf(SubSeq(Append(l, e), 1, n)) = EventsOf(SubSeq(l, 1, n))
<1>1. /\ Append(l, e) \in Seq(Nat) /\ Len(Append(l, e)) = Len(l) + 1
      /\ \A i \in 1 .. Len(l) : Append(l, e)[i] = l[i]
  OBVIOUS
<1>2. /\ DOMAIN SubSeq(Append(l, e), 1, n) = 1 .. n
      /\ DOMAIN SubSeq(l, 1, n) = 1 .. n
  BY <1>1
<1>3. \A i \in 1 .. n : SubSeq(Append(l, e), 1, n)[i] = SubSeq(l, 1, n)[i]
  BY <1>1
<1>4. QED
  BY <1>2, <1>3 DEF EventsOf

\* The empty beginning and the whole of a log.
LEMMA Beginnings ==
  ASSUME NEW l \in Seq(Nat)
  PROVE  /\ EventsOf(SubSeq(l, 1, 0)) = {}
         /\ EventsOf(SubSeq(l, 1, Len(l))) = EventsOf(l)
         /\ \A n \in 0 .. Len(l) : EventsOf(SubSeq(l, 1, n)) \subseteq EventsOf(l)
<1>1. \A n \in 0 .. Len(l) : /\ DOMAIN SubSeq(l, 1, n) = 1 .. n
                            /\ \A i \in 1 .. n : SubSeq(l, 1, n)[i] = l[i]
  OBVIOUS
<1>2. DOMAIN l = 1 .. Len(l) /\ Len(l) \in Nat
  OBVIOUS
<1>3. 0 \in 0 .. Len(l) /\ Len(l) \in 0 .. Len(l) /\ 1 .. 0 = {}
  BY <1>2
<1>4. EventsOf(SubSeq(l, 1, 0)) = {}
  BY <1>1, <1>3 DEF EventsOf
<1>5. ASSUME NEW n \in 0 .. Len(l)
      PROVE  EventsOf(SubSeq(l, 1, n)) = {l[i] : i \in 1 .. n} /\ 1 .. n \subseteq DOMAIN l
  <2>1. EventsOf(SubSeq(l, 1, n)) = {SubSeq(l, 1, n)[i] : i \in 1 .. n}
    BY <1>1 DEF EventsOf
  <2>2. {SubSeq(l, 1, n)[i] : i \in 1 .. n} = {l[i] : i \in 1 .. n}
    BY <1>1
  <2>3. 1 .. n \subseteq DOMAIN l
    BY <1>2
  <2>4. QED
    BY <2>1, <2>2, <2>3
<1>6. EventsOf(l) = {l[i] : i \in 1 .. Len(l)}
  BY <1>2 DEF EventsOf
<1>7. QED
  BY <1>2, <1>3, <1>4, <1>5, <1>6

LEMMA StreamInitial == Init => StreamInv
<1> SUFFICES ASSUME Init PROVE StreamInv
  OBVIOUS
<1>1. log \in [Deliveries -> Seq(Nat)]
  BY DEF Init
<1>2. stream = [s \in Streams |-> [pc |-> "idle", run |-> None, sent |-> {},
                                   new |-> FALSE, idle |-> 0, seen |-> 0]]
  BY DEF Init
<1>3. QED
  BY <1>1, <1>2 DEF StreamInv, Follows

LEMMA StreamStep == IInv /\ StreamInv /\ [Next]_vars => StreamInv'
<1> SUFFICES ASSUME IInv, StreamInv, [Next]_vars PROVE StreamInv'
  OBVIOUS
<1> USE DEF StreamInv
<1>1. CASE UNCHANGED <<log, stream>>
  BY <1>1 DEF Follows
<1>2. ASSUME NEW w \in Writers, append_event(w) PROVE StreamInv'
  <2> DEFINE r == writer[w].run
             e == writer[w].event
  <2>1. e \in Nat /\ (r # None => r \in Deliveries)
    BY <1>2 DEF append_event, IInv, WriterInv
  <2>2. log' = [log EXCEPT ![r] = Append(@, e)] /\ stream' = stream
    BY <1>2 DEF append_event
  <2>3. log' \in [Deliveries -> Seq(Nat)]
    <3>1. r \in Deliveries => Append(log[r], e) \in Seq(Nat)
      BY <2>1
    <3>2. QED
      BY <2>2, <3>1
  <2>4. ASSUME NEW s \in Streams PROVE Follows(s)'
    <3>1. CASE stream[s].run = r /\ r # None
      <4> DEFINE n == stream[s].seen
      <4>1. n \in 0 .. Len(log[r]) /\ stream[s].sent = EventsOf(SubSeq(log[r], 1, n))
        BY <3>1 DEF Follows
      <4>2. log[r] \in Seq(Nat) /\ log'[r] = Append(log[r], e)
        BY <2>1, <2>2, <3>1
      <4>3. n \in 0 .. Len(log'[r])
        BY <4>1, <4>2, <2>1
      <4>4. EventsOf(SubSeq(log'[r], 1, n)) = EventsOf(SubSeq(log[r], 1, n))
        BY <4>1, <4>2, <2>1, CommittedStays
      <4>5. QED
        BY <4>1, <4>3, <4>4, <3>1, <2>2 DEF Follows
    <3>2. CASE ~(stream[s].run = r /\ r # None)
      <4>1. stream[s].run # None => log'[stream[s].run] = log[stream[s].run]
        BY <2>2, <3>2
      <4>2. QED
        BY <4>1, <2>2 DEF Follows
    <3>3. QED
      BY <3>1, <3>2
  <2>5. QED
    BY <2>2, <2>3, <2>4
<1>3. ASSUME NEW s \in Streams, NEW r \in Deliveries, Open(s, r) PROVE StreamInv'
  <2>1. /\ stream' = [stream EXCEPT ![s].pc = "events", ![s].run = r]
        /\ log' = log /\ stream[s].pc = "idle"
    BY <1>3 DEF Open
  <2>2. stream'[s].sent = EventsOf(SubSeq(log[r], 1, 0)) /\ 0 \in 0 .. Len(log[r])
    <3>1. log[r] \in Seq(Nat) /\ stream'[s].sent = {}
      BY <2>1 DEF Follows
    <3>2. QED
      BY <3>1, Beginnings
  <2>3. r # None
    BY DeliveryAssumption
  <2>4. \A t \in Streams : Follows(t)'
    BY <2>1, <2>2, <2>3 DEF Follows
  <2>5. QED
    BY <2>1, <2>4
<1>4. ASSUME NEW s \in Streams, SendEvents(s) PROVE StreamInv'
  <2> DEFINE r == stream[s].run
  <2>1. r \in Deliveries /\ log[r] \in Seq(Nat) /\ log' = log /\ r # None
    BY <1>4 DEF SendEvents, Follows
  <2>2. /\ stream[s].seen \in 0 .. Len(log[r])
        /\ stream[s].sent = EventsOf(SubSeq(log[r], 1, stream[s].seen))
    BY <2>1 DEF Follows
  <2>3. stream[s].sent \cup EventsOf(log[r]) = EventsOf(SubSeq(log[r], 1, Len(log[r])))
    BY <2>1, <2>2, Beginnings
  <2>4. EventsOf(log[r]) \subseteq Nat
    BY <2>1 DEF EventsOf
  <2>5. stream' = [stream EXCEPT ![s].pc = "status",
                                 ![s].sent = @ \cup EventsOf(log[r]),
                                 ![s].new = ~(EventsOf(log[r]) \subseteq stream[s].sent),
                                 ![s].seen = Len(log[r])]
    BY <1>4 DEF SendEvents
  <2>6. Len(log[r]) \in 0 .. Len(log[r])
    BY <2>1
  <2>7. /\ stream'[s].run = r /\ stream'[s].pc = "status" /\ stream'[s].seen = Len(log[r])
        /\ stream'[s].sent = EventsOf(SubSeq(log[r], 1, Len(log[r])))
    BY <2>3, <2>5
  <2>8. ASSUME NEW t \in Streams PROVE Follows(t)'
    <3>1. CASE t = s
      BY <2>1, <2>6, <2>7, <3>1 DEF Follows
    <3>2. CASE t # s
      BY <2>1, <2>5, <3>2 DEF Follows
    <3>3. QED
      BY <3>1, <3>2
  <2>9. stream' \in [Streams -> [pc : {"idle", "events", "status", "end", "timeout",
                                      "disconnected"},
                                 run : Deliveries \cup {None}, sent : SUBSET Nat,
                                 new : BOOLEAN, idle : Nat, seen : Nat]]
    <3> DEFINE x == [stream[s] EXCEPT !.pc = "status",
                                      !.sent = @ \cup EventsOf(log[r]),
                                      !.new = ~(EventsOf(log[r]) \subseteq stream[s].sent),
                                      !.seen = Len(log[r])]
    <3>1. x \in [pc : {"idle", "events", "status", "end", "timeout", "disconnected"},
                 run : Deliveries \cup {None}, sent : SUBSET Nat,
                 new : BOOLEAN, idle : Nat, seen : Nat]
      <4>1. Len(log[r]) \in Nat
        BY <2>1
      <4>2. /\ stream[s] \in [pc : {"idle", "events", "status", "end", "timeout",
                                   "disconnected"},
                              run : Deliveries \cup {None}, sent : SUBSET Nat,
                              new : BOOLEAN, idle : Nat, seen : Nat]
            /\ stream[s].sent \cup EventsOf(log[r]) \in SUBSET Nat
        BY <2>4
      <4> HIDE DEF r
      <4>3. QED
        BY <4>1, <4>2
    <3>2. stream' = [stream EXCEPT ![s] = x]
      BY <2>5
    <3> HIDE DEF x
    <3>3. QED
      BY <3>1, <3>2
  <2>10. QED
    BY <2>1, <2>8, <2>9
<1>5. ASSUME NEW s \in Streams, CheckStatus(s) \/ Disconnect(s) PROVE StreamInv'
  <2>1. log' = log /\ stream[s].run # None
    BY <1>5 DEF CheckStatus, Disconnect, Follows
  <2>2. PICK x \in [pc : {"end", "events", "timeout", "disconnected"},
                    run : {stream[s].run}, sent : {stream[s].sent},
                    new : {stream[s].new}, idle : Nat, seen : {stream[s].seen}] :
           stream' = [stream EXCEPT ![s] = x]
    BY <1>5 DEF CheckStatus, Disconnect
  <2>3. QED
    BY <2>1, <2>2 DEF Follows
<1>6. QED
  BY <1>1, <1>2, <1>3, <1>4, <1>5
     DEF Next, vars, streamVars, Receive, EnterRun, CutOff, EnterRequest, BuildEvent, Write,
         Finish, Poll

\* A stream has sent what had been committed when it last polled, whatever the order in
\* which the events were built, for any number of writers, streams and events.
THEOREM StreamsAreGapless == Spec => []StreamsHaveNoGaps
<1>1. StreamInv => StreamsHaveNoGaps
  BY DEF StreamInv, StreamsHaveNoGaps, Follows
<1>2. QED
  BY <1>1, StreamInitial, StreamStep, IntakeInvariant, PTL DEF Spec

----------------------------------------------------------------------------
(***************************************************************************)
(* The length of a silence.                                                *)
(***************************************************************************)
\* A stream that goes on has been silent for fewer polls than it may.
IdleInv ==
    \A s \in Streams :
        /\ stream[s].pc = "idle" => stream[s].idle = 0
        /\ stream[s].pc \in {"events", "status"} => stream[s].idle < MaxIdle

\* A step of a stream: the others stay, and it keeps within its silence.
Advances(s) ==
    /\ \A t \in Streams : t # s => stream'[t] = stream[t]
    /\ stream'[s].pc # "idle"
    /\ stream'[s].pc \in {"events", "status"} => stream'[s].idle < MaxIdle
    /\ stream'[s].sent = stream[s].sent => ReadsLeft(s)' \in 0 .. ReadsLeft(s) - 1

\* A stream is opened with all of its polls before it.
LEMMA OpenAdvances ==
  ASSUME StreamInv, IdleInv, NEW s \in Streams, NEW r \in Deliveries, Open(s, r)
  PROVE  Advances(s)
<1>1. /\ stream[s].pc = "idle" /\ stream[s].idle = 0
      /\ stream' = [stream EXCEPT ![s].pc = "events", ![s].run = r]
  BY DEF Open, IdleInv
<1>2. /\ stream'[s].pc = "events" /\ stream'[s].idle = 0
      /\ \A t \in Streams : t # s => stream'[t] = stream[t]
  BY <1>1 DEF StreamInv
<1>3. ReadsLeft(s) = 2 * MaxIdle + 1 /\ ReadsLeft(s)' = 2 * (MaxIdle - 0)
  BY <1>1, <1>2 DEF ReadsLeft
<1>4. QED
  BY <1>2, <1>3, BoundAssumption DEF Advances

\* A poll that sends nothing new counts.
LEMMA SendAdvances ==
  ASSUME StreamInv, IdleInv, NEW s \in Streams, SendEvents(s)
  PROVE  Advances(s)
<1> DEFINE events == EventsOf(log[stream[s].run])
           new == ~(events \subseteq stream[s].sent)
<1>1. /\ stream[s].pc = "events"
      /\ stream' = [stream EXCEPT ![s].pc = "status", ![s].sent = @ \cup events,
                                  ![s].new = new, ![s].seen = Len(log[stream[s].run])]
  BY DEF SendEvents
<1>2. stream[s].idle \in Nat /\ stream[s].idle < MaxIdle
  BY <1>1 DEF StreamInv, IdleInv
<1> HIDE DEF new
<1>3. /\ stream'[s].pc = "status" /\ stream'[s].idle = stream[s].idle
      /\ stream'[s].sent = stream[s].sent \cup events
      /\ \A t \in Streams : t # s => stream'[t] = stream[t]
  BY <1>1 DEF StreamInv
<1>4. stream'[s].new = new
  BY <1>1 DEF StreamInv
<1>5. ReadsLeft(s) = 2 * (MaxIdle - stream[s].idle)
  BY <1>1 DEF ReadsLeft
<1>6. ASSUME stream'[s].sent = stream[s].sent
      PROVE  ReadsLeft(s)' \in 0 .. ReadsLeft(s) - 1
  <2>1. stream'[s].new = FALSE
    BY <1>3, <1>4, <1>6 DEF new
  <2>2. ReadsLeft(s)' = 2 * (MaxIdle - stream[s].idle) - 1
    BY <1>3, <2>1 DEF ReadsLeft
  <2>3. QED
    BY <1>2, <1>5, <2>2, BoundAssumption
<1>7. QED
  BY <1>2, <1>3, <1>6 DEF Advances

\* The status ends the stream, its silence does, or one more poll has been silent.
LEMMA CheckAdvances ==
  ASSUME StreamInv, IdleInv, NEW s \in Streams, CheckStatus(s)
  PROVE  Advances(s)
<1> DEFINE idle == IF stream[s].new THEN 0 ELSE stream[s].idle + 1
<1>1. /\ stream[s].pc = "status" /\ stream[s].idle \in Nat /\ stream[s].idle < MaxIdle
      /\ stream[s].new \in BOOLEAN
  BY DEF CheckStatus, StreamInv, IdleInv
<1>2. idle \in Nat
  BY <1>1
<1>3. ReadsLeft(s) \in Nat /\ ReadsLeft(s) > 0
  BY <1>1, BoundAssumption DEF ReadsLeft
<1>4. CASE run_status[stream[s].run] = "closed"
  <2>1. stream' = [stream EXCEPT ![s].pc = "end"]
    BY <1>4 DEF CheckStatus
  <2>2. /\ stream'[s].pc = "end"
        /\ \A t \in Streams : t # s => stream'[t] = stream[t]
    BY <2>1 DEF StreamInv
  <2>3. ReadsLeft(s)' = 0
    BY <2>2 DEF ReadsLeft
  <2>4. QED
    BY <1>3, <2>2, <2>3 DEF Advances
<1>5. CASE run_status[stream[s].run] # "closed"
  <2>1. stream' = [stream EXCEPT ![s].idle = idle,
                                 ![s].pc = IF idle < MaxIdle THEN "events" ELSE "timeout"]
    BY <1>5 DEF CheckStatus
  <2> HIDE DEF idle
  <2>2. /\ stream'[s].pc = IF idle < MaxIdle THEN "events" ELSE "timeout"
        /\ stream'[s].idle = idle
        /\ \A t \in Streams : t # s => stream'[t] = stream[t]
    BY <2>1 DEF StreamInv
  <2>3. CASE ~(idle < MaxIdle)
    <3>1. ReadsLeft(s)' = 0
      BY <2>2, <2>3 DEF ReadsLeft
    <3>2. QED
      BY <1>3, <2>2, <2>3, <3>1 DEF Advances
  <2>4. CASE idle < MaxIdle
    <3>1. ReadsLeft(s)' = 2 * (MaxIdle - idle)
      BY <2>2, <2>4 DEF ReadsLeft
    <3>2. CASE stream[s].new
      <4>1. ReadsLeft(s) = 2 * MaxIdle + 1 /\ idle = 0
        BY <1>1, <3>2 DEF ReadsLeft, idle
      <4>2. QED
        BY <2>2, <2>4, <3>1, <4>1, BoundAssumption DEF Advances
    <3>3. CASE ~stream[s].new
      <4>1. ReadsLeft(s) = 2 * (MaxIdle - stream[s].idle) - 1 /\ idle = stream[s].idle + 1
        BY <1>1, <3>3 DEF ReadsLeft, idle
      <4>2. QED
        BY <1>1, <2>2, <2>4, <3>1, <4>1, BoundAssumption DEF Advances
    <3>4. QED
      BY <3>2, <3>3
  <2>5. QED
    BY <2>3, <2>4
<1>6. QED
  BY <1>4, <1>5

\* The reader ends it.
LEMMA DisconnectAdvances ==
  ASSUME StreamInv, IdleInv, NEW s \in Streams, Disconnect(s)
  PROVE  Advances(s)
<1>1. /\ stream[s].pc \in {"events", "status"} /\ stream[s].idle \in Nat
      /\ stream[s].idle < MaxIdle /\ stream[s].new \in BOOLEAN
  BY DEF Disconnect, StreamInv, IdleInv
<1>2. /\ stream'[s].pc = "disconnected"
      /\ \A t \in Streams : t # s => stream'[t] = stream[t]
  BY DEF Disconnect, StreamInv
<1>3. ReadsLeft(s)' = 0
  BY <1>2 DEF ReadsLeft
<1>4. ReadsLeft(s) \in Nat /\ ReadsLeft(s) > 0
  <2>1. CASE stream[s].pc = "events"
    BY <1>1, <2>1, BoundAssumption DEF ReadsLeft
  <2>2. CASE stream[s].pc = "status"
    BY <1>1, <2>2, BoundAssumption DEF ReadsLeft
  <2>3. QED
    BY <1>1, <2>1, <2>2
<1>5. QED
  BY <1>2, <1>3, <1>4 DEF Advances

\* A step leaves all streams as they are, or advances one of them.
LEMMA StreamAdvances ==
  ASSUME StreamInv, IdleInv, [Next]_vars
  PROVE  stream' = stream \/ \E s \in Streams : Advances(s)
<1>1. ASSUME NEW s \in Streams, (\E r \in Deliveries : Open(s, r)) \/ Poll(s) \/ Disconnect(s)
      PROVE  Advances(s)
  BY <1>1, OpenAdvances, SendAdvances, CheckAdvances, DisconnectAdvances DEF Poll
<1>2. ASSUME NEW d \in Deliveries, Receive(d) \/ EnterRun(d) \/ CutOff(d)
      PROVE  stream' = stream
  BY <1>2 DEF Receive, streamVars, EnterRun, CutOff
<1>3. ASSUME NEW w \in Requests, NEW r \in Deliveries, NEW kind \in {"approve", "replay"},
             EnterRequest(w, r, kind)
      PROVE  stream' = stream
  BY <1>3 DEF EnterRequest
<1>4. ASSUME NEW w \in Writers, BuildEvent(w) \/ Write(w)
      PROVE  stream' = stream
  BY <1>4 DEF BuildEvent, Write, append_event, Finish
<1>5. CASE UNCHANGED vars
  BY <1>5 DEF vars, streamVars
<1>6. QED
  BY <1>1, <1>2, <1>3, <1>4, <1>5 DEF Next

LEMMA IdleInitial == Init => IdleInv
BY DEF Init, IdleInv

LEMMA IdleStep == StreamInv /\ IdleInv /\ [Next]_vars => IdleInv'
<1> SUFFICES ASSUME StreamInv, IdleInv, [Next]_vars PROVE IdleInv'
  OBVIOUS
<1>1. CASE stream' = stream
  BY <1>1 DEF IdleInv
<1>2. ASSUME NEW s \in Streams, Advances(s) PROVE IdleInv'
  <2>1. ASSUME NEW t \in Streams
        PROVE  /\ stream'[t].pc = "idle" => stream'[t].idle = 0
               /\ stream'[t].pc \in {"events", "status"} => stream'[t].idle < MaxIdle
    BY <1>2 DEF Advances, IdleInv
  <2>2. QED
    BY <2>1 DEF IdleInv
<1>3. QED
  BY <1>1, <1>2, StreamAdvances

\* A stream to which nothing is committed is over after 2 * MaxIdle + 1 steps at most,
\* however its polls and the requests that work on the run interleave.
THEOREM SilencesAreShort == Spec => SilentStreamsAreBounded
<1>1. ASSUME StreamInv, IdleInv, [Next]_vars
      PROVE  [\A s \in Streams :
                 stream'[s] # stream[s] /\ stream'[s].sent = stream[s].sent =>
                     ReadsLeft(s)' \in 0 .. ReadsLeft(s) - 1]_vars
  BY <1>1, StreamAdvances DEF Advances
<1>2. QED
  BY <1>1, StreamInitial, StreamStep, IdleInitial, IdleStep, IntakeInvariant, PTL
     DEF Spec, SilentStreamsAreBounded
=============================================================================
