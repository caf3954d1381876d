------------------------------ MODULE Startup ------------------------------
(***************************************************************************)
(* The start of the service's instances: lifespan of                       *)
(* src/control_plane/app_factory.py, with seed_public_runs of              *)
(* src/control_plane/seed.py and the policy store's seed of                *)
(* src/control_plane/retrieval.py, on one PostgreSQL database.  Each write *)
(* is a transaction of its own; instances start together and crash, and    *)
(* nothing locks the seeding.                                              *)
(*                                                                         *)
(* The migration script is one transaction; two of them at the same time   *)
(* may stop one, which is a Crash here.  What is seeded is named by the    *)
(* start ("boot") that seeded it.                                          *)
(***************************************************************************)
EXTENDS Naturals, FiniteSets, Sequences

CONSTANTS
    Instances,
    Stages,         \* for each example, the number of its demo events
    MaxBoots        \* bound on the starts

ASSUME StagesAssumption == Stages \in Seq(Nat \ {0}) /\ Stages # <<>>

ASSUME InstancesAssumption == IsFiniteSet(Instances) /\ MaxBoots \in Nat

VARIABLES
    instance,       \* where each instance is
    boots,          \* the number of starts
    cases,          \* the <<boot, example>> with a demo case
    runs,           \* those with a public demo run
    events,         \* the <<boot, example, stage>> of the demo events
    documents,      \* the boots that have added the policies' documents
    overlapped,     \* history: two instances have been starting at the same time
    interrupted     \* history: an instance has crashed while it seeded

store == <<cases, runs, events, documents>>
vars == <<instance, boots, store, overlapped, interrupted>>

Examples == DOMAIN Stages

Seeding == {"case", "run", "events"}
Starting == {"check", "search", "add"} \cup Seeding

Instance ==
    [pc : {"down", "serving"} \cup Starting, boot : 0 .. MaxBoots,
     example : Examples, stage : Nat \ {0}]

Place(label, b, e, s) == [pc |-> label, boot |-> b, example |-> e, stage |-> s]

Down == Place("down", 0, 1, 1)

Init ==
    /\ instance = [i \in Instances |-> Down]
    /\ boots = 0
    /\ cases = {} /\ runs = {} /\ events = {} /\ documents = {}
    /\ overlapped = FALSE /\ interrupted = FALSE

At(i, label) == instance[i].pc = label

Goto(i, label) == instance' = [instance EXCEPT ![i].pc = label]

\* The instance goes on seeding, at the given stage of an example.
Proceed(i, label, e, s) ==
    instance' = [instance EXCEPT ![i] = Place(label, instance[i].boot, e, s)]

\* The demo run that the instance is seeding.
Run(i) == <<instance[i].boot, instance[i].example>>

Quiet == UNCHANGED <<boots, overlapped, interrupted>>

----------------------------------------------------------------------------
\* The container starts, and lifespan migrates the database.
Boot(i) ==
    /\ At(i, "down")
    /\ boots < MaxBoots
    /\ boots' = boots + 1
    /\ instance' = [instance EXCEPT ![i] = Place("check", boots', 1, 1)]
    /\ overlapped' = (overlapped \/ \E j \in Instances : instance[j].pc \in Starting)
    /\ UNCHANGED <<store, interrupted>>

\* Every run of the demo with all of its events.
Complete(b) ==
    \A e \in Examples : <<b, e>> \in runs /\ \A s \in 1 .. Stages[e] : <<b, e, s>> \in events

\* As CheckRuns, seeding until some seeding is complete.
CheckRunsComplete(i) ==
    /\ At(i, "check")
    /\ Goto(i, IF \E b \in 1 .. boots : Complete(b) THEN "search" ELSE "case")
    /\ Quiet /\ UNCHANGED store

\* As CheckRuns, waiting for a seeding that has begun to be complete.
CheckRunsWaits(i) ==
    /\ At(i, "check")
    /\ runs = {} \/ \E b \in 1 .. boots : Complete(b)
    /\ Goto(i, IF runs # {} THEN "search" ELSE "case")
    /\ Quiet /\ UNCHANGED store

\* list_runs(public_only=True): any demo run will do.
CheckRuns(i) ==
    /\ At(i, "check")
    /\ Goto(i, IF runs # {} THEN "search" ELSE "case")
    /\ Quiet /\ UNCHANGED store

CreateCase(i) ==
    /\ At(i, "case")
    /\ cases' = cases \cup {Run(i)}
    /\ Goto(i, "run")
    /\ Quiet /\ UNCHANGED <<runs, events, documents>>

CreateRun(i) ==
    /\ At(i, "run")
    /\ runs' = runs \cup {Run(i)}
    /\ Goto(i, "events")
    /\ Quiet /\ UNCHANGED <<cases, events, documents>>

\* As LastStage, one stage early.
LastStageEarly(i) == instance[i].stage + 1 >= Stages[instance[i].example]

\* As LastStage, one stage late.
LastStageLate(i) == instance[i].stage > Stages[instance[i].example]

\* A blocked example has fewer stages than a completed one.
LastStage(i) == instance[i].stage = Stages[instance[i].example]

\* append_event, then the next stage, the next example, or the policy store.
AppendEvent(i) ==
    /\ At(i, "events")
    /\ events' = events \cup {<<instance[i].boot, instance[i].example, instance[i].stage>>}
    /\ \/ /\ ~LastStage(i)
          /\ Proceed(i, "events", instance[i].example, instance[i].stage + 1)
       \/ /\ LastStage(i) /\ instance[i].example < Len(Stages)
          /\ Proceed(i, "case", instance[i].example + 1, 1)
       \/ /\ LastStage(i) /\ instance[i].example = Len(Stages)
          /\ Goto(i, "search")
    /\ Quiet /\ UNCHANGED <<cases, runs, documents>>

\* As Search, adding the documents whatever it finds.
SearchBlindly(i) == At(i, "search") /\ Goto(i, "add") /\ Quiet /\ UNCHANGED store

\* As Search, leaving the documents to a task that comes later.
SearchAndServe(i) == At(i, "search") /\ Goto(i, "serving") /\ Quiet /\ UNCHANGED store

\* PgVectorPolicyRetriever.seed: one similar document is enough.
Search(i) ==
    /\ At(i, "search")
    /\ Goto(i, IF documents # {} THEN "serving" ELSE "add")
    /\ Quiet /\ UNCHANGED store

\* aadd_documents: all POLICIES, under new ids, in one transaction.
AddDocuments(i) ==
    /\ At(i, "add")
    /\ documents' = documents \cup {instance[i].boot}
    /\ Goto(i, "serving")
    /\ Quiet /\ UNCHANGED <<cases, runs, events>>

\* The instance dies, or is scaled down.
Crash(i) ==
    /\ ~At(i, "down")
    /\ instance' = [instance EXCEPT ![i] = Down]
    /\ interrupted' = (interrupted \/ instance[i].pc \in Seeding)
    /\ UNCHANGED <<boots, store, overlapped>>

Start(i) ==
    \/ CheckRuns(i) \/ CreateCase(i) \/ CreateRun(i) \/ AppendEvent(i)
    \/ Search(i) \/ AddDocuments(i)

Next == \E i \in Instances : Boot(i) \/ Start(i) \/ Crash(i)

Spec == Init /\ [][Next]_vars

\* An instance that is starting goes on, as the database answers.
FairSpec == Spec /\ \A i \in Instances : WF_vars(Start(i))

----------------------------------------------------------------------------
\* POLICIES, and the limit of retrieve.
Policies == 5
limit == 5

\* retrieve: copies of a document are equally similar to the query, so the best
\* matches are whole groups of copies; the number of different policies among them.
PoliciesRetrieved ==
    LET copies == Cardinality(documents)
        groups == IF copies = 0 THEN 0 ELSE (limit + copies - 1) \div copies
    IN IF groups < Policies THEN groups ELSE Policies

----------------------------------------------------------------------------
(***************************************************************************)
(* Properties.                                                             *)
(***************************************************************************)
TypeOK ==
    /\ instance \in [Instances -> Instance]
    /\ \A i \in Instances : instance[i].stage <= Stages[instance[i].example]
    /\ boots \in 0 .. MaxBoots
    /\ cases \subseteq (1 .. boots) \X Examples
    /\ runs \subseteq cases
    /\ \A event \in events : <<event[1], event[2]>> \in runs
    /\ documents \subseteq 1 .. boots
    /\ overlapped \in BOOLEAN /\ interrupted \in BOOLEAN

\* An instance that serves has demo runs to show and policies to retrieve, however
\* the other instances that seeded them have ended.
ServingIsSeeded ==
    \A i \in Instances : At(i, "serving") => runs # {} /\ documents # {}

\* Instances that start together may seed several times, but however often they
\* crash and start again, never more often than there are instances.
SeedBounded ==
    /\ \A e \in Examples :
          Cardinality({b \in 1 .. boots : <<b, e>> \in runs}) <= Cardinality(Instances)
    /\ Cardinality(documents) <= Cardinality(Instances)

\* An instance that starts alone never seeds for a second time, be it after a crash:
\* unless two have been starting at once, no demo run and no document is there
\* twice, and a retrieval misses no policy.
DuplicatesNeedOverlap ==
    ~overlapped =>
        /\ \A r, s \in runs : r[1] = s[1]
        /\ \A b, c \in documents : b = c
        /\ documents # {} => PoliciesRetrieved = Policies

\* Once nobody is seeding, the demo is whole, and so is every further copy of it that
\* an overlap has left, unless a crash has cut a seeding off.
DemoIncompleteOnlyByCrash ==
    /\ ~interrupted
    /\ \A i \in Instances : instance[i].pc \notin Seeding
    => /\ cases = runs
       /\ \A r \in runs : Complete(r[1])

\* A start ends, in a serving instance or in a crash: it waits for no other one.
StartEnds ==
    \A i \in Instances :
        instance[i].pc \in Starting ~> instance[i].pc \in {"serving", "down"}
=============================================================================
