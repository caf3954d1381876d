--------------------------- MODULE StartupProofs ---------------------------
(***************************************************************************)
(* Theorems about the start-up, for any number of instances, starts,       *)
(* examples and stages.                                                    *)
(***************************************************************************)
EXTENDS Startup, FiniteSetTheorems, TLAPS

\* What an instance may rely on at each point of its start.
StepInv ==
    \A i \in Instances :
        /\ ~At(i, "down") => instance[i].boot \in 1 .. boots
        /\ At(i, "run") => Run(i) \in cases
        /\ At(i, "events") => Run(i) \in runs
        /\ instance[i].pc \in {"search", "add", "serving"} => runs # {}
        /\ At(i, "serving") => documents # {}

\* What a boot has seeded of an example.
Whole(b, e) == <<b, e>> \in runs /\ \A s \in 1 .. Stages[e] : <<b, e, s>> \in events

WholeAfter(b, e) == <<b, e>> \in runs' /\ \A s \in 1 .. Stages[e] : <<b, e, s>> \in events'

\* What an instance that seeds has behind it.
PositionInv ==
    \A i \in Instances :
        /\ instance[i].pc \in Seeding =>
              \A e \in Examples : e < instance[i].example => Whole(instance[i].boot, e)
        /\ At(i, "check") => instance[i].example = 1 /\ instance[i].stage = 1
        /\ instance[i].pc \in {"case", "run"} => instance[i].stage = 1
        /\ At(i, "events") =>
              \A s \in 1 .. Stages[instance[i].example] :
                  s < instance[i].stage =>
                      <<instance[i].boot, instance[i].example, s>> \in events

\* Without a crash, what is not whole is being seeded.
WholeInv ==
    ~interrupted =>
        \A c \in cases :
            \/ Complete(c[1])
            \/ \E i \in Instances : instance[i].pc \in Seeding /\ instance[i].boot = c[1]

\* Without an overlap, one boot has seeded, and an instance that seeds is that one.
OverlapInv ==
    ~overlapped =>
        /\ \A i, j \in Instances :
              instance[i].pc \in Starting /\ instance[j].pc \in Starting => i = j
        /\ \A r, s \in runs : r[1] = s[1]
        /\ \A i \in Instances : instance[i].pc \in Seeding => \A r \in runs : r[1] = instance[i].boot
        /\ \A b, c \in documents : b = c
        /\ \A i \in Instances : At(i, "add") => documents = {}

\* The boots that have added the documents, or are about to.
Adders == documents \cup {instance[i].boot : i \in {j \in Instances : At(j, "add")}}

\* The boots that have created a run of an example, or still will unless they crash.
Seeders(e) ==
    {b \in 1 .. boots : <<b, e>> \in runs}
    \cup {instance[i].boot :
             i \in {j \in Instances : instance[j].pc \in Seeding /\ instance[j].example <= e}}

AtMostInstances(S) == IsFiniteSet(S) /\ Cardinality(S) <= Cardinality(Instances)

BoundInv == AtMostInstances(Adders) /\ \A e \in Examples : AtMostInstances(Seeders(e))

----------------------------------------------------------------------------
LEMMA StagesFacts ==
  /\ Len(Stages) \in Nat /\ Len(Stages) >= 1 /\ Examples = 1 .. Len(Stages)
  /\ \A e \in Examples : Stages[e] \in Nat /\ Stages[e] >= 1
BY StagesAssumption DEF Examples

LEMMA DownIsInstance == Down \in Instance /\ Down.stage <= Stages[Down.example]
BY StagesFacts, InstancesAssumption DEF Instance, Down, Place

LEMMA TypeInit == Init => TypeOK
<1> SUFFICES ASSUME Init PROVE TypeOK
  OBVIOUS
<1>1. /\ instance \in [Instances -> Instance]
      /\ \A i \in Instances : instance[i].stage <= Stages[instance[i].example]
  BY DownIsInstance DEF Init
<1>2. runs \subseteq cases /\ cases \subseteq (1 .. boots) \X Examples /\ events = {}
  BY DEF Init
<1>3. boots \in 0 .. MaxBoots /\ documents \subseteq 1 .. boots
  BY InstancesAssumption DEF Init
<1>4. overlapped \in BOOLEAN /\ interrupted \in BOOLEAN
  BY DEF Init
<1>5. QED
  BY <1>1, <1>2, <1>3, <1>4 DEF TypeOK

LEMMA TypeStep == TypeOK /\ StepInv /\ [Next]_vars => TypeOK'
<1> SUFFICES ASSUME TypeOK, StepInv, [Next]_vars PROVE TypeOK'
  OBVIOUS
<1> USE StagesFacts, InstancesAssumption DEF At, Goto, Quiet, store, Run, LastStage
<1>1. CASE UNCHANGED vars
  BY <1>1 DEF vars, TypeOK
<1>2. ASSUME NEW i \in Instances, Boot(i) PROVE TypeOK'
  <2>1. Place("check", boots', 1, 1) \in Instance
    BY <1>2 DEF Boot, TypeOK, Instance, Starting, Place
  <2>2. /\ instance' \in [Instances -> Instance]
        /\ \A j \in Instances : instance'[j].stage <= Stages[instance'[j].example]
    BY <1>2, <2>1 DEF Boot, TypeOK, Place
  <2>3. boots' \in 0 .. MaxBoots /\ 1 .. boots \subseteq 1 .. boots'
    BY <1>2 DEF Boot, TypeOK
  <2>4. QED
    BY <1>2, <2>2, <2>3 DEF Boot, TypeOK
<1>3. ASSUME NEW i \in Instances, CheckRuns(i) PROVE TypeOK'
  BY <1>3 DEF CheckRuns, TypeOK, Instance, Starting, Seeding
<1>4. ASSUME NEW i \in Instances, CreateCase(i) PROVE TypeOK'
  BY <1>4 DEF CreateCase, TypeOK, Instance, Starting, Seeding, StepInv
<1>5. ASSUME NEW i \in Instances, CreateRun(i) PROVE TypeOK'
  BY <1>5 DEF CreateRun, TypeOK, Instance, Starting, Seeding, StepInv
<1>6. ASSUME NEW i \in Instances, AppendEvent(i) PROVE TypeOK'
  <2>1. Run(i) \in runs /\ events' = events \cup {<<instance[i].boot, instance[i].example,
                                                    instance[i].stage>>}
    BY <1>6 DEF AppendEvent, StepInv
  <2> DEFINE new == <<instance[i].boot, instance[i].example, instance[i].stage>>
  <2>2. <<new[1], new[2]>> \in runs
    BY <2>1
  <2>3. runs' = runs /\ \A event \in events : <<event[1], event[2]>> \in runs
    BY <1>6 DEF AppendEvent, TypeOK
  <2> HIDE DEF new
  <2>4. \A event \in events' : <<event[1], event[2]>> \in runs'
    BY <2>1, <2>2, <2>3 DEF new
  <2>5. instance[i] \in Instance /\ instance[i].stage <= Stages[instance[i].example]
    BY DEF TypeOK
  <2>6. \E new_i \in Instance :
           /\ new_i.stage <= Stages[new_i.example]
           /\ instance' = [instance EXCEPT ![i] = new_i]
    <3>1. CASE ~LastStage(i)
      <4> DEFINE next == Place("events", instance[i].boot, instance[i].example,
                               instance[i].stage + 1)
      <4>1. next \in Instance /\ next.stage <= Stages[next.example]
        BY <2>5, <3>1 DEF Instance, Starting, Seeding, Place
      <4>2. instance' = [instance EXCEPT ![i] = next]
        BY <1>6, <3>1 DEF AppendEvent, Proceed
      <4>3. QED
        BY <4>1, <4>2
    <3>2. CASE LastStage(i) /\ instance[i].example < Len(Stages)
      <4> DEFINE next == Place("case", instance[i].boot, instance[i].example + 1, 1)
      <4>1. next \in Instance /\ next.stage <= Stages[next.example]
        BY <2>5, <3>2 DEF Instance, Starting, Seeding, Place
      <4>2. instance' = [instance EXCEPT ![i] = next]
        BY <1>6, <3>2 DEF AppendEvent, Proceed
      <4>3. QED
        BY <4>1, <4>2
    <3>3. CASE LastStage(i) /\ instance[i].example = Len(Stages)
      <4> DEFINE next == [instance[i] EXCEPT !.pc = "search"]
      <4>1. next \in Instance /\ next.stage <= Stages[next.example]
        BY <2>5 DEF Instance, Starting
      <4>2. instance' = [instance EXCEPT ![i] = next]
        BY <1>6, <3>3 DEF AppendEvent
      <4>3. QED
        BY <4>1, <4>2
    <3>4. QED
      BY <1>6, <3>1, <3>2, <3>3 DEF AppendEvent
  <2>7. /\ instance' \in [Instances -> Instance]
        /\ \A j \in Instances : instance'[j].stage <= Stages[instance'[j].example]
    BY <2>6 DEF TypeOK
  <2>8. QED
    BY <1>6, <2>4, <2>7 DEF AppendEvent, TypeOK
<1>7. ASSUME NEW i \in Instances, Search(i) PROVE TypeOK'
  BY <1>7 DEF Search, TypeOK, Instance, Starting, Seeding
<1>8. ASSUME NEW i \in Instances, AddDocuments(i) PROVE TypeOK'
  BY <1>8 DEF AddDocuments, TypeOK, Instance, Starting, Seeding, StepInv
<1>9. ASSUME NEW i \in Instances, Crash(i) PROVE TypeOK'
  BY <1>9, DownIsInstance DEF Crash, TypeOK
<1>10. QED
  BY <1>1, <1>2, <1>3, <1>4, <1>5, <1>6, <1>7, <1>8, <1>9 DEF Next, Start

LEMMA StepInit == Init => StepInv
BY DEF Init, StepInv, At, Down, Place

LEMMA StepStep == TypeOK /\ StepInv /\ [Next]_vars => StepInv'
<1> SUFFICES ASSUME TypeOK, StepInv, [Next]_vars PROVE StepInv'
  OBVIOUS
<1> USE DEF At, Goto, Quiet, store, Run
<1>1. CASE UNCHANGED vars
  BY <1>1 DEF vars, StepInv
<1>2. ASSUME NEW i \in Instances, Boot(i) PROVE StepInv'
  BY <1>2, InstancesAssumption DEF Boot, TypeOK, StepInv, Instance, Place
<1>3. ASSUME NEW i \in Instances, CheckRuns(i) PROVE StepInv'
  BY <1>3 DEF CheckRuns, TypeOK, StepInv, Instance
<1>4. ASSUME NEW i \in Instances, CreateCase(i) PROVE StepInv'
  BY <1>4 DEF CreateCase, TypeOK, StepInv, Instance
<1>5. ASSUME NEW i \in Instances, CreateRun(i) PROVE StepInv'
  BY <1>5 DEF CreateRun, TypeOK, StepInv, Instance
<1>6. ASSUME NEW i \in Instances, AppendEvent(i) PROVE StepInv'
  <2>1. \A j \in Instances :
           /\ instance'[j].boot = instance[j].boot
           /\ instance'[j] = instance[j] \/ j = i
    BY <1>6 DEF AppendEvent, Proceed, Place, TypeOK, Instance
  <2>2. instance[i].boot \in 1 .. boots /\ Run(i) \in runs
    BY <1>6 DEF AppendEvent, StepInv
  <2>3. /\ instance'[i].pc \in {"events", "case", "search"}
        /\ instance'[i].pc = "events" => instance'[i].example = instance[i].example
    BY <1>6 DEF AppendEvent, Proceed, Place, TypeOK, Instance
  <2>4. UNCHANGED <<boots, cases, runs, documents>>
    BY <1>6 DEF AppendEvent
  <2>5. QED
    BY <2>1, <2>2, <2>3, <2>4 DEF StepInv
<1>7. ASSUME NEW i \in Instances, Search(i) PROVE StepInv'
  BY <1>7 DEF Search, TypeOK, StepInv, Instance
<1>8. ASSUME NEW i \in Instances, AddDocuments(i) PROVE StepInv'
  BY <1>8 DEF AddDocuments, TypeOK, StepInv, Instance
<1>9. ASSUME NEW i \in Instances, Crash(i) PROVE StepInv'
  BY <1>9 DEF Crash, TypeOK, StepInv, Instance, Down, Place
<1>10. QED
  BY <1>1, <1>2, <1>3, <1>4, <1>5, <1>6, <1>7, <1>8, <1>9 DEF Next, Start

----------------------------------------------------------------------------
(***************************************************************************)
(* A step leaves the other instances alone, and what it changes.           *)
(***************************************************************************)
LEMMA OthersStay ==
  ASSUME TypeOK, NEW i \in Instances, Boot(i) \/ Start(i) \/ Crash(i)
  PROVE  \A j \in Instances : j # i => instance'[j] = instance[j]
BY DEF TypeOK, Boot, Start, CheckRuns, CreateCase, CreateRun, AppendEvent, Search, AddDocuments,
       Crash, Goto, Proceed

LEMMA StoreGrows ==
  ASSUME NEW i \in Instances, Boot(i) \/ Start(i) \/ Crash(i)
  PROVE  cases \subseteq cases' /\ runs \subseteq runs' /\ events \subseteq events'
BY DEF Boot, Start, CheckRuns, CreateCase, CreateRun, AppendEvent, Search, AddDocuments, Crash,
       Quiet, store

LEMMA WholeStays ==
  ASSUME runs \subseteq runs', events \subseteq events', NEW b, NEW e
  PROVE  Whole(b, e) => Whole(b, e)'
BY DEF Whole

LEMMA CompleteIsWhole ==
  ASSUME NEW b
  PROVE  Complete(b) <=> \A e \in Examples : Whole(b, e)
BY DEF Complete, Whole

\* What AppendEvent does to the instance.
LEMMA AppendedAt ==
  ASSUME TypeOK, StepInv, PositionInv, NEW i \in Instances, AppendEvent(i)
  PROVE  /\ instance'[i].boot = instance[i].boot
         /\ ~LastStage(i) =>
               /\ instance'[i].pc = "events"
               /\ instance'[i].example = instance[i].example
               /\ instance'[i].stage = instance[i].stage + 1
         /\ LastStage(i) => WholeAfter(instance[i].boot, instance[i].example)
         /\ LastStage(i) /\ instance[i].example < Len(Stages) =>
               /\ instance'[i].pc = "case"
               /\ instance'[i].example = instance[i].example + 1
               /\ instance'[i].stage = 1
         /\ LastStage(i) /\ instance[i].example = Len(Stages) => instance'[i].pc = "search"
         /\ LastStage(i) => \/ instance[i].example < Len(Stages)
                            \/ instance[i].example = Len(Stages)
<1>1. /\ instance'[i].boot = instance[i].boot
      /\ ~LastStage(i) =>
            /\ instance'[i].pc = "events"
            /\ instance'[i].example = instance[i].example
            /\ instance'[i].stage = instance[i].stage + 1
      /\ LastStage(i) /\ instance[i].example < Len(Stages) =>
            /\ instance'[i].pc = "case"
            /\ instance'[i].example = instance[i].example + 1
            /\ instance'[i].stage = 1
      /\ LastStage(i) /\ instance[i].example = Len(Stages) => instance'[i].pc = "search"
  BY DEF TypeOK, Instance, AppendEvent, Proceed, Place, Goto
<1>2. ASSUME LastStage(i) PROVE WholeAfter(instance[i].boot, instance[i].example)
  <2> DEFINE b == instance[i].boot
             e == instance[i].example
  <2>1. <<b, e>> \in runs' /\ runs' = runs
    BY <1>2 DEF AppendEvent, StepInv, At, Run
  <2>2. /\ \A s \in 1 .. Stages[e] : s < Stages[e] => <<b, e, s>> \in events
        /\ events' = events \cup {<<b, e, Stages[e]>>}
    BY <1>2 DEF AppendEvent, PositionInv, LastStage
  <2>3. \A s \in 1 .. Stages[e] : s < Stages[e] \/ s = Stages[e]
    BY <1>2, StagesFacts DEF TypeOK, Instance
  <2>4. \A s \in 1 .. Stages[e] : <<b, e, s>> \in events'
    BY <2>2, <2>3
  <2>5. QED
    BY <2>1, <2>4 DEF WholeAfter
<1>3. instance[i].example < Len(Stages) \/ instance[i].example = Len(Stages)
  BY StagesFacts DEF TypeOK, Instance
<1>4. QED
  BY <1>1, <1>2, <1>3

----------------------------------------------------------------------------
LEMMA PositionInit == Init => PositionInv
BY DEF Init, PositionInv, At, Down, Place, Seeding

LEMMA PositionStep == TypeOK /\ StepInv /\ PositionInv /\ [Next]_vars => PositionInv'
<1> SUFFICES ASSUME TypeOK, StepInv, PositionInv, [Next]_vars PROVE PositionInv'
  OBVIOUS
<1> DEFINE Position(i) ==
        /\ instance[i].pc \in Seeding =>
              \A e \in Examples : e < instance[i].example => Whole(instance[i].boot, e)
        /\ At(i, "check") => instance[i].example = 1 /\ instance[i].stage = 1
        /\ instance[i].pc \in {"case", "run"} => instance[i].stage = 1
        /\ At(i, "events") =>
              \A s \in 1 .. Stages[instance[i].example] :
                  s < instance[i].stage =>
                      <<instance[i].boot, instance[i].example, s>> \in events
<1>1. CASE UNCHANGED vars
  BY <1>1 DEF vars, store, PositionInv, Whole, At
<1>2. ASSUME NEW i \in Instances, Boot(i) \/ Start(i) \/ Crash(i), Position(i)'
      PROVE  PositionInv'
  <2>1. \A j \in Instances : j # i => instance'[j] = instance[j]
    BY <1>2, OthersStay
  <2>2. runs \subseteq runs' /\ events \subseteq events'
    BY <1>2, StoreGrows
  <2>3. ASSUME NEW j \in Instances, j # i PROVE Position(j)'
    BY <2>1, <2>2, <2>3 DEF PositionInv, Whole, At
  <2>4. QED
    BY <1>2, <2>3 DEF PositionInv
<1>3. ASSUME NEW i \in Instances, Boot(i) \/ CheckRuns(i) \/ Search(i) \/ AddDocuments(i) \/ Crash(i)
      PROVE  Position(i)'
  <2>1. CASE Boot(i) \/ Crash(i)
    BY <2>1 DEF Boot, Crash, TypeOK, Down, Place, At, Seeding
  <2>2. CASE Search(i) \/ AddDocuments(i)
    BY <2>2 DEF Search, AddDocuments, TypeOK, Instance, Goto, At, Seeding
  <2>3. CASE CheckRuns(i)
    <3>1. instance'[i].example = 1 /\ instance'[i].stage = 1 /\ instance'[i].pc \in {"search", "case"}
      BY <2>3 DEF CheckRuns, TypeOK, Instance, Goto, At, PositionInv
    <3>2. \A e \in Examples : ~(e < 1)
      BY StagesFacts
    <3>3. ~At(i, "events")'
      BY <3>1 DEF At
    <3>4. QED
      BY <3>1, <3>2, <3>3 DEF At
  <2>4. QED
    BY <1>3, <2>1, <2>2, <2>3
<1>4. ASSUME NEW i \in Instances, CreateCase(i) \/ CreateRun(i) PROVE Position(i)'
  <2>1. /\ instance[i].pc \in Seeding /\ instance[i].stage = 1
        /\ instance'[i].boot = instance[i].boot /\ instance'[i].example = instance[i].example
        /\ instance'[i].stage = 1 /\ instance'[i].pc \in {"run", "events"}
    BY <1>4 DEF CreateCase, CreateRun, PositionInv, At, Goto, TypeOK, Instance, Seeding
  <2>2. runs \subseteq runs' /\ events \subseteq events'
    BY <1>4, StoreGrows DEF Start
  <2>3. \A e \in Examples : e < instance'[i].example => WholeAfter(instance'[i].boot, e)
    BY <2>1, <2>2 DEF PositionInv, Whole, WholeAfter
  <2>4. QED
    BY <2>1, <2>3, StagesFacts DEF Whole, WholeAfter, At
<1>5. ASSUME NEW i \in Instances, AppendEvent(i) PROVE Position(i)'
  <2>1. runs \subseteq runs' /\ events \subseteq events' /\ instance[i].pc \in Seeding
    BY <1>5, StoreGrows DEF Start, AppendEvent, At, Seeding
  <2>2. CASE ~LastStage(i)
    <3>1. /\ instance'[i].pc = "events" /\ instance'[i].boot = instance[i].boot
          /\ instance'[i].example = instance[i].example
          /\ instance'[i].stage = instance[i].stage + 1
      BY <1>5, <2>2, AppendedAt
    <3>2. \A s \in 1 .. Stages[instance[i].example] :
             s < instance[i].stage + 1 =>
                 <<instance[i].boot, instance[i].example, s>> \in events'
      BY <1>5, <2>1 DEF AppendEvent, PositionInv, TypeOK, Instance
    <3>3. \A e \in Examples : e < instance[i].example => WholeAfter(instance'[i].boot, e)
      BY <2>1, <3>1 DEF PositionInv, Whole, WholeAfter
    <3>4. QED
      BY <3>1, <3>2, <3>3 DEF Whole, WholeAfter, At
  <2>3. CASE LastStage(i) /\ instance[i].example < Len(Stages)
    <3>1. /\ instance'[i].pc = "case" /\ instance'[i].boot = instance[i].boot
          /\ instance'[i].example = instance[i].example + 1 /\ instance'[i].stage = 1
      BY <1>5, <2>3, AppendedAt
    <3>2. \A e \in Examples : e < instance[i].example => WholeAfter(instance'[i].boot, e)
      BY <2>1, <3>1 DEF PositionInv, Whole, WholeAfter
    <3>3. WholeAfter(instance'[i].boot, instance'[i].example - 1)
      <4>1. WholeAfter(instance[i].boot, instance[i].example)
        BY <1>5, <2>3, AppendedAt
      <4>2. instance'[i].example - 1 = instance[i].example
        BY <3>1, StagesFacts DEF TypeOK, Instance
      <4>3. QED
        BY <3>1, <4>1, <4>2
    <3>4. \A e \in Examples : e < instance'[i].example =>
             e < instance[i].example \/ e = instance'[i].example - 1
      BY <3>1, StagesFacts DEF TypeOK, Instance
    <3>5. QED
      BY <3>1, <3>2, <3>3, <3>4 DEF At, Whole, WholeAfter
  <2>4. CASE LastStage(i) /\ instance[i].example = Len(Stages)
    <3>1. instance'[i].pc = "search"
      BY <1>5, <2>4, AppendedAt
    <3>2. QED
      BY <3>1 DEF At, Seeding
  <2>5. QED
    BY <1>5, <2>2, <2>3, <2>4, AppendedAt
<1>6. QED
  BY <1>1, <1>2, <1>3, <1>4, <1>5 DEF Next, Start

----------------------------------------------------------------------------
LEMMA WholeInit == Init => WholeInv
BY DEF Init, WholeInv

LEMMA WholeStep ==
  TypeOK /\ StepInv /\ PositionInv /\ WholeInv /\ [Next]_vars => WholeInv'
<1> SUFFICES ASSUME TypeOK, StepInv, PositionInv, WholeInv, [Next]_vars, ~interrupted'
             PROVE  WholeInv'
  BY DEF WholeInv
<1> DEFINE Live(b) == \E i \in Instances : instance[i].pc \in Seeding /\ instance[i].boot = b
           CompleteAfter(b) == \A e \in Examples : WholeAfter(b, e)
           LiveAfter(b) ==
               \E i \in Instances : instance'[i].pc \in Seeding /\ instance'[i].boot = b
<1>1. SUFFICES ASSUME NEW c \in cases' PROVE CompleteAfter(c[1]) \/ LiveAfter(c[1])
  BY DEF WholeInv, Complete, WholeAfter
<1>2. CASE UNCHANGED vars
  BY <1>2 DEF vars, store, WholeInv, Complete, WholeAfter
<1>3. ASSUME NEW i \in Instances, Boot(i) \/ Start(i) \/ Crash(i)
      PROVE  CompleteAfter(c[1]) \/ LiveAfter(c[1])
  <2>1. ~interrupted
    BY <1>3 DEF Boot, Start, CheckRuns, CreateCase, CreateRun, AppendEvent, Search,
                AddDocuments, Crash, Quiet
  <2>2. \A b : Complete(b) => CompleteAfter(b)
    BY <1>3, StoreGrows DEF Complete, WholeAfter
  <2>3. \A j \in Instances : j # i => instance'[j] = instance[j]
    BY <1>3, OthersStay
  <2>4. CASE Crash(i)
    <3>1. instance[i].pc \notin Seeding /\ cases' = cases
      BY <2>4 DEF Crash, store
    <3>2. QED
      BY <2>1, <2>2, <2>3, <3>1 DEF WholeInv
  <2>5. CASE Boot(i) \/ CheckRuns(i) \/ Search(i) \/ AddDocuments(i)
    <3>1. instance[i].pc \notin Seeding /\ cases' = cases
      BY <2>5 DEF Boot, CheckRuns, Search, AddDocuments, At, store, Seeding
    <3>2. QED
      BY <2>1, <2>2, <2>3, <3>1 DEF WholeInv
  <2>6. CASE CreateCase(i) \/ CreateRun(i)
    <3>1. /\ instance'[i].pc \in Seeding /\ instance'[i].boot = instance[i].boot
          /\ cases' \subseteq cases \cup {Run(i)}
      BY <2>6 DEF CreateCase, CreateRun, Goto, TypeOK, Instance, Seeding
    <3>2. c \in cases \/ c[1] = instance'[i].boot
      BY <3>1 DEF Run
    <3>3. QED
      BY <2>1, <2>2, <2>3, <3>1, <3>2 DEF WholeInv
  <2>7. CASE AppendEvent(i)
    <3>1. cases' = cases /\ instance[i].pc \in Seeding
      BY <2>7 DEF AppendEvent, At, Seeding
    <3>2. instance'[i].boot = instance[i].boot
      BY <2>7, AppendedAt
    <3>3. CASE instance'[i].pc \in Seeding
      BY <2>1, <2>2, <2>3, <3>1, <3>2, <3>3 DEF WholeInv
    <3>4. CASE instance'[i].pc \notin Seeding
      <4>1. LastStage(i) /\ instance[i].example = Len(Stages)
        BY <2>7, <3>4, AppendedAt DEF Seeding
      <4>2. WholeAfter(instance[i].boot, instance[i].example)
        BY <2>7, <4>1, AppendedAt
      <4>3. \A e \in Examples : e < instance[i].example \/ e = instance[i].example
        BY <4>1, StagesFacts
      <4>4. \A e \in Examples : e < instance[i].example => Whole(instance[i].boot, e)
        BY <3>1 DEF PositionInv
      <4>5. runs \subseteq runs' /\ events \subseteq events'
        BY <1>3, StoreGrows
      <4>6. CompleteAfter(instance[i].boot)
        BY <4>2, <4>3, <4>4, <4>5 DEF Whole, WholeAfter
      <4>7. QED
        BY <2>1, <2>2, <2>3, <3>1, <4>6 DEF WholeInv
    <3>5. QED
      BY <3>3, <3>4
  <2>8. QED
    BY <1>3, <2>4, <2>5, <2>6, <2>7 DEF Start
<1>4. QED
  BY <1>2, <1>3 DEF Next

----------------------------------------------------------------------------
LEMMA OverlapInit == Init => OverlapInv
BY DEF Init, OverlapInv, At, Down, Place, Starting, Seeding

LEMMA OverlapStep == TypeOK /\ StepInv /\ OverlapInv /\ [Next]_vars => OverlapInv'
<1> SUFFICES ASSUME TypeOK, StepInv, OverlapInv, [Next]_vars, ~overlapped' PROVE OverlapInv'
  BY DEF OverlapInv
<1> USE DEF At, Goto, Quiet, store, Starting, Seeding
<1>1. CASE UNCHANGED vars
  BY <1>1 DEF vars, OverlapInv
<1>2. ASSUME NEW i \in Instances, Boot(i) PROVE OverlapInv'
  <2>1. ~overlapped /\ \A j \in Instances : instance[j].pc \notin Starting
    BY <1>2 DEF Boot
  <2>2. \A j \in Instances : instance'[j].pc \in Starting => j = i /\ instance'[j].pc = "check"
    BY <1>2, <2>1 DEF Boot, TypeOK, Place
  <2>3. QED
    BY <1>2, <2>1, <2>2 DEF Boot, OverlapInv
<1>3. ASSUME NEW i \in Instances, CheckRuns(i) PROVE OverlapInv'
  BY <1>3 DEF CheckRuns, TypeOK, Instance, OverlapInv
<1>4. ASSUME NEW i \in Instances, CreateCase(i) PROVE OverlapInv'
  BY <1>4 DEF CreateCase, TypeOK, Instance, OverlapInv
<1>5. ASSUME NEW i \in Instances, CreateRun(i) PROVE OverlapInv'
  <2>1. /\ runs' = runs \cup {Run(i)} /\ Run(i)[1] = instance[i].boot /\ ~overlapped
        /\ instance'[i].boot = instance[i].boot /\ documents' = documents
        /\ instance'[i].pc = "events" /\ At(i, "run")
    BY <1>5 DEF CreateRun, Run, TypeOK, Instance
  <2>2. \A j \in Instances : j # i => instance'[j] = instance[j] /\ instance[j].pc \notin Starting
    BY <1>5, <2>1, OthersStay DEF Start, OverlapInv
  <2>3. \A r \in runs' : r[1] = instance[i].boot
    BY <2>1 DEF OverlapInv
  <2>4. QED
    BY <2>1, <2>2, <2>3 DEF OverlapInv
<1>6. ASSUME NEW i \in Instances, AppendEvent(i) PROVE OverlapInv'
  <2>1. /\ instance'[i].pc \in Seeding \cup {"search"} /\ instance'[i].boot = instance[i].boot
        /\ runs' = runs /\ documents' = documents /\ ~overlapped /\ instance[i].pc \in Seeding
    BY <1>6 DEF AppendEvent, Proceed, Place, TypeOK, Instance
  <2>2. \A j \in Instances : j # i => instance'[j] = instance[j]
    BY <1>6, OthersStay DEF Start
  <2>3. QED
    BY <2>1, <2>2 DEF OverlapInv
<1>7. ASSUME NEW i \in Instances, Search(i) PROVE OverlapInv'
  BY <1>7 DEF Search, TypeOK, Instance, OverlapInv
<1>8. ASSUME NEW i \in Instances, AddDocuments(i) PROVE OverlapInv'
  <2>1. documents' = {instance[i].boot} /\ runs' = runs /\ ~overlapped
    BY <1>8 DEF AddDocuments, OverlapInv
  <2>2. \A j \in Instances : instance'[j].pc \notin Starting
    BY <1>8 DEF AddDocuments, OverlapInv, TypeOK, Instance
  <2>3. QED
    BY <2>1, <2>2 DEF OverlapInv
<1>9. ASSUME NEW i \in Instances, Crash(i) PROVE OverlapInv'
  BY <1>9 DEF Crash, TypeOK, Down, Place, OverlapInv
<1>10. QED
  BY <1>1, <1>2, <1>3, <1>4, <1>5, <1>6, <1>7, <1>8, <1>9 DEF Next, Start

----------------------------------------------------------------------------
(***************************************************************************)
(* How often can be seeded: each instance is at most one boot at a time.   *)
(***************************************************************************)
BootsUp == {instance[i].boot : i \in Instances}

LEMMA SmallerStays ==
  ASSUME NEW S, NEW T, AtMostInstances(T), S \subseteq T
  PROVE  AtMostInstances(S)
<1>1. IsFiniteSet(S) /\ Cardinality(S) <= Cardinality(T)
  BY FS_Subset DEF AtMostInstances
<1>2. Cardinality(S) \in Nat /\ Cardinality(T) \in Nat /\ Cardinality(Instances) \in Nat
  BY <1>1, FS_CardinalityType, InstancesAssumption DEF AtMostInstances
<1>3. QED
  BY <1>1, <1>2 DEF AtMostInstances

LEMMA BootsUpBounded ==
  ASSUME NEW places
  PROVE  AtMostInstances({places[i].boot : i \in Instances})
<1> DEFINE f == [i \in Instances |-> places[i].boot]
<1>1. f \in Surjection(Instances, {places[i].boot : i \in Instances})
  BY DEF Surjection
<1>2. QED
  BY <1>1, FS_Surjection, InstancesAssumption DEF AtMostInstances

LEMMA EmptyBounded == AtMostInstances({})
BY FS_EmptySet, FS_CardinalityType, InstancesAssumption DEF AtMostInstances

LEMMA BoundInit == Init => BoundInv
<1> SUFFICES ASSUME Init PROVE BoundInv
  OBVIOUS
<1>1. Adders = {} /\ \A e \in Examples : Seeders(e) = {}
  BY DEF Init, Adders, Seeders, At, Down, Place, Seeding
<1>2. QED
  BY <1>1, EmptyBounded DEF BoundInv

\* Only an instance that finds nothing makes the adders more, and then they are all
\* instances that are up.
LEMMA AddersStep ==
  ASSUME TypeOK, NEW i \in Instances, Boot(i) \/ Start(i) \/ Crash(i)
  PROVE  Adders' \subseteq Adders \/ Adders' \subseteq BootsUp'
<1> USE DEF At, Goto, Quiet, store
<1>1. CASE Boot(i) \/ Crash(i)
  BY <1>1 DEF Boot, Crash, Adders, TypeOK, Down, Place
<1>2. CASE CheckRuns(i) \/ CreateCase(i) \/ CreateRun(i)
  BY <1>2 DEF CheckRuns, CreateCase, CreateRun, Adders, TypeOK, Instance
<1>3. CASE AppendEvent(i)
  <2>1. instance'[i].pc \in {"events", "case", "search"} /\ documents' = documents
    BY <1>3 DEF AppendEvent, Proceed, Place, TypeOK, Instance
  <2>2. \A j \in Instances : j # i => instance'[j] = instance[j]
    BY OthersStay
  <2>3. QED
    BY <2>1, <2>2 DEF Adders
<1>4. CASE Search(i)
  <2>1. CASE documents = {}
    BY <1>4, <2>1 DEF Search, Adders, BootsUp
  <2>2. CASE documents # {}
    BY <1>4, <2>2 DEF Search, Adders, TypeOK, Instance
  <2>3. QED
    BY <2>1, <2>2
<1>5. CASE AddDocuments(i)
  BY <1>5 DEF AddDocuments, Adders, TypeOK, Instance
<1>6. QED
  BY <1>1, <1>2, <1>3, <1>4, <1>5 DEF Start

LEMMA SeedersStep ==
  ASSUME TypeOK, NEW i \in Instances, Boot(i) \/ Start(i) \/ Crash(i), NEW e \in Examples
  PROVE  Seeders(e)' \subseteq Seeders(e) \/ Seeders(e)' \subseteq BootsUp'
<1> USE DEF At, Goto, Quiet, store, Seeding
<1>1. \A b \in 1 .. boots' : <<b, e>> \in runs => b \in 1 .. boots
  BY DEF TypeOK
<1>2. CASE Boot(i) \/ Crash(i)
  BY <1>1, <1>2 DEF Boot, Crash, Seeders, TypeOK, Down, Place
<1>3. CASE CheckRuns(i)
  <2>1. CASE runs = {}
    BY <1>3, <2>1 DEF CheckRuns, Seeders, BootsUp
  <2>2. CASE runs # {}
    BY <1>3, <2>2 DEF CheckRuns, Seeders, TypeOK, Instance
  <2>3. QED
    BY <2>1, <2>2
<1>4. CASE CreateCase(i)
  BY <1>4 DEF CreateCase, Seeders, TypeOK, Instance
<1>5. CASE CreateRun(i)
  <2>1. /\ instance[i].pc = "run" /\ boots' = boots /\ runs' = runs \cup {Run(i)}
        /\ instance'[i].boot = instance[i].boot /\ instance'[i].example = instance[i].example
    BY <1>5 DEF CreateRun, TypeOK, Instance
  <2>2. \A j \in Instances : j # i => instance'[j] = instance[j]
    BY OthersStay
  <2>3. \A b : <<b, e>> \in runs' =>
           <<b, e>> \in runs \/ (b = instance[i].boot /\ e = instance[i].example)
    BY <2>1 DEF Run
  <2>4. e = instance[i].example => instance[i].example <= e
    BY StagesFacts
  <2>5. \A b \in Seeders(e)' : b \in Seeders(e)
    <3>1. ASSUME NEW b \in 1 .. boots, <<b, e>> \in runs' PROVE b \in Seeders(e)
      BY <2>1, <2>3, <2>4, <3>1 DEF Seeders
    <3>2. ASSUME NEW j \in Instances, instance'[j].pc \in Seeding, instance'[j].example <= e
          PROVE  instance'[j].boot \in Seeders(e)
      BY <2>1, <2>2, <3>2 DEF Seeders
    <3>3. QED
      BY <2>1, <3>1, <3>2 DEF Seeders
  <2>6. QED
    BY <2>5
<1>6. CASE AppendEvent(i)
  <2>1. /\ instance[i].pc \in Seeding /\ boots' = boots /\ runs' = runs
        /\ instance'[i].boot = instance[i].boot
        /\ \/ instance'[i].example = instance[i].example
           \/ instance'[i].example = instance[i].example + 1
    BY <1>6 DEF AppendEvent, Proceed, Place, TypeOK, Instance
  <2>2. \A j \in Instances : j # i => instance'[j] = instance[j]
    BY OthersStay
  <2>3. instance'[i].example <= e => instance[i].example <= e
    <3>1. instance[i].example \in Int /\ e \in Int
      BY StagesFacts DEF TypeOK, Instance
    <3>2. QED
      BY <2>1, <3>1
  <2>4. QED
    BY <2>1, <2>2, <2>3 DEF Seeders
<1>7. CASE Search(i) \/ AddDocuments(i)
  BY <1>7 DEF Search, AddDocuments, Seeders, TypeOK, Instance
<1>8. QED
  BY <1>2, <1>3, <1>4, <1>5, <1>6, <1>7 DEF Start

LEMMA BoundStep == TypeOK /\ BoundInv /\ [Next]_vars => BoundInv'
<1> SUFFICES ASSUME TypeOK, BoundInv, [Next]_vars PROVE BoundInv'
  OBVIOUS
<1>1. CASE UNCHANGED vars
  BY <1>1 DEF vars, store, BoundInv, Adders, Seeders, At, AtMostInstances
<1>2. ASSUME NEW i \in Instances, Boot(i) \/ Start(i) \/ Crash(i) PROVE BoundInv'
  <2>1. AtMostInstances(BootsUp')
    BY BootsUpBounded DEF BootsUp
  <2>2. AtMostInstances(Adders')
    BY <1>2, <2>1, AddersStep, SmallerStays DEF BoundInv
  <2>3. ASSUME NEW e \in Examples PROVE AtMostInstances(Seeders(e)')
    BY <1>2, <2>1, SeedersStep, SmallerStays DEF BoundInv
  <2>4. QED
    BY <2>2, <2>3 DEF BoundInv, AtMostInstances, Examples
<1>3. QED
  BY <1>1, <1>2 DEF Next

----------------------------------------------------------------------------
IInv ==
    /\ TypeOK /\ StepInv /\ PositionInv
    /\ WholeInv /\ OverlapInv /\ BoundInv

\* Each instance knows what it has seeded; what one boot has begun is whole, or is
\* being seeded, or was cut off; every boot that seeds found the store empty.
THEOREM StartupInvariant == Spec => []IInv
<1>1. Init => IInv
  BY TypeInit, StepInit, PositionInit, WholeInit, OverlapInit, BoundInit DEF IInv
<1>2. IInv /\ [Next]_vars => IInv'
  BY TypeStep, StepStep, PositionStep, WholeStep, OverlapStep, BoundStep DEF IInv
<1>3. QED
  BY <1>1, <1>2, PTL DEF Spec

\* Every variable of the start-up keeps its type, and no stage is passed.
THEOREM TypesKept == Spec => []TypeOK
<1>1. IInv => TypeOK
  BY DEF IInv
<1>2. QED
  BY <1>1, StartupInvariant, PTL

\* An instance serves only when there are demo runs and policies, whichever instance
\* has seeded them and whatever became of it.
THEOREM ServedWhenSeeded == Spec => []ServingIsSeeded
<1>1. IInv => ServingIsSeeded
  BY DEF IInv, StepInv, ServingIsSeeded, At
<1>2. QED
  BY <1>1, StartupInvariant, PTL

\* No crash loop piles up demo runs or documents: there are at most as many copies as
\* there are instances.
THEOREM SeedsBounded == Spec => []SeedBounded
<1>1. IInv => SeedBounded
  <2> SUFFICES ASSUME IInv PROVE SeedBounded
    OBVIOUS
  <2>1. AtMostInstances(documents)
    <3>1. documents \subseteq Adders
      BY DEF Adders
    <3>2. QED
      BY <3>1, SmallerStays DEF IInv, BoundInv
  <2>2. ASSUME NEW e \in Examples PROVE AtMostInstances({b \in 1 .. boots : <<b, e>> \in runs})
    <3>1. {b \in 1 .. boots : <<b, e>> \in runs} \subseteq Seeders(e)
      BY DEF Seeders
    <3>2. QED
      BY <3>1, SmallerStays DEF IInv, BoundInv
  <2>3. QED
    BY <2>1, <2>2 DEF SeedBounded, AtMostInstances
<1>2. QED
  BY <1>1, StartupInvariant, PTL

\* Unless two instances have been starting at once there is one copy of everything,
\* and a retrieval returns all policies.
THEOREM AloneSeedsOnce == Spec => []DuplicatesNeedOverlap
<1>1. IInv => DuplicatesNeedOverlap
  <2> SUFFICES ASSUME IInv, ~overlapped
               PROVE  /\ \A r, s \in runs : r[1] = s[1]
                      /\ \A b, c \in documents : b = c
                      /\ documents # {} => PoliciesRetrieved = Policies
    BY DEF DuplicatesNeedOverlap
  <2>1. (\A r, s \in runs : r[1] = s[1]) /\ (\A b, c \in documents : b = c)
    BY DEF IInv, OverlapInv
  <2>2. ASSUME documents # {} PROVE PoliciesRetrieved = Policies
    <3>1. PICK b \in documents : documents = {b}
      BY <2>1, <2>2
    <3>2. Cardinality(documents) = 1
      BY <3>1, FS_Singleton
    <3>3. (5 + 1 - 1) \div 1 = 5
      OBVIOUS
    <3>4. QED
      BY <3>2, <3>3 DEF PoliciesRetrieved, Policies, limit
  <2>3. QED
    BY <2>1, <2>2
<1>2. QED
  BY <1>1, StartupInvariant, PTL

\* Without a crash while seeding, no demo run is left without its events and no demo
\* case without its run, however the instances interleave.
THEOREM CrashesAloneCutOff == Spec => []DemoIncompleteOnlyByCrash
<1>1. IInv => DemoIncompleteOnlyByCrash
  <2> SUFFICES ASSUME IInv, ~interrupted, \A i \in Instances : instance[i].pc \notin Seeding
               PROVE  cases = runs /\ \A r \in runs : Complete(r[1])
    BY DEF DemoIncompleteOnlyByCrash
  <2>1. \A c \in cases : Complete(c[1])
    BY DEF IInv, WholeInv
  <2>2. \A c \in cases : c = <<c[1], c[2]>> /\ c[2] \in Examples
    BY DEF IInv, TypeOK
  <2>3. cases \subseteq runs /\ runs \subseteq cases
    BY <2>1, <2>2 DEF Complete, IInv, TypeOK
  <2>4. QED
    BY <2>1, <2>3
<1>2. QED
  BY <1>1, StartupInvariant, PTL
=============================================================================
