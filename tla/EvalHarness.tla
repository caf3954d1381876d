----------------------------- MODULE EvalHarness -----------------------------
(***************************************************************************)
(* evaluate of src/control_plane/eval_harness.py: the pairs of runs of a   *)
(* suite, concurrent under a semaphore, each recorded in a checkpoint file *)
(* when it is complete; the interruption of the process, its abortion by   *)
(* an exception of the model, and its resumption from the file, which may  *)
(* end in a line that was written in part.                                 *)
(***************************************************************************)
EXTENDS EvalRunner

CONSTANTS
    Suites,         \* the suites: sequences of cases
    Providers,      \* the settings.model_provider that processes are started with
    Concurrency,    \* --concurrency
    MaxStarts       \* bound on the processes

ASSUME SuiteAssumption ==
    \A cases \in Suites : cases \in Seq(EvalCase) /\ cases # <<>>

ASSUME LabelAssumption == \A cases \in Suites : \A i \in DOMAIN cases : Labelled(cases[i])

ASSUME HarnessAssumption ==
    /\ Providers \subseteq Provider
    /\ Concurrency \in Nat \ {0}
    /\ MaxStarts \in Nat
    /\ None \notin EvalResult \cup Nat \cup [baseline : EvalResult, controlled : EvalResult]
                     \cup [provider : Provider, baseline : Seq(EvalResult),
                           controlled : Seq(EvalResult), passed : BOOLEAN]

VARIABLES
    suite,          \* the cases; a case's position stands for its id
    process,        \* "stopped", "running", or "raised": gather has raised
    provider,       \* of the process
    task,           \* run_pair of each case
    checkpoint,     \* the lines of the file, and what the model said
    file,           \* the file: "whole", "open" (no newline at its end), or
                    \* "broken" (a line that json.loads does not accept)
    report,         \* the last report written, or None
    starts          \* the processes started

vars == <<suite, process, provider, task, checkpoint, file, report, starts>>

Task ==
    [pc : {"waiting", "baseline", "controlled", "done", "failed"},
     attempt : 1 .. MaxAttempts,
     baseline : EvalResult \cup {None}, controlled : EvalResult \cup {None}]

Waiting == [pc |-> "waiting", attempt |-> 1, baseline |-> None, controlled |-> None]

\* asked: history, the reply that the controlled run was given; provider: history.
Line(case_id, baseline, controlled, asked, by) ==
    [case_id |-> case_id, baseline |-> baseline, controlled |-> controlled,
     asked |-> asked, provider |-> by]

Init ==
    /\ suite \in Suites
    /\ process = "stopped"
    /\ provider = "deterministic"
    /\ task = [i \in DOMAIN suite |-> Waiting]
    /\ checkpoint = <<>>
    /\ file = "whole"
    /\ report = None
    /\ starts = 0

----------------------------------------------------------------------------
Lines(case_id) == {n \in DOMAIN checkpoint : checkpoint[n].case_id = case_id}

\* As Resumed, taking every case as new.
NotResumed(case_id) == Waiting

\* As Resumed, with the two results of a line exchanged.
ResumedSwapped(case_id) ==
    IF Lines(case_id) = {} THEN Waiting
    ELSE LET line == checkpoint[Max(Lines(case_id))] IN
            [Waiting EXCEPT !.pc = "done", !.baseline = line.controlled,
                            !.controlled = line.baseline]

\* cached: the pair of a case's last line in the file.
Resumed(case_id) ==
    IF Lines(case_id) = {} THEN Waiting
    ELSE LET line == checkpoint[Max(Lines(case_id))] IN
            [Waiting EXCEPT !.pc = "done", !.baseline = line.baseline,
                            !.controlled = line.controlled]

\* python -m control_plane.eval_harness, up to the tasks of gather.
Start(p) ==
    /\ process = "stopped"
    /\ starts < MaxStarts
    /\ file # "broken"
    /\ process' = "running"
    /\ provider' = p
    /\ starts' = starts + 1
    /\ task' = [i \in DOMAIN suite |-> Resumed(i)]
    /\ UNCHANGED <<suite, checkpoint, file, report>>

\* json.loads raises on the broken line, and the process ends: nothing is resumed until
\* the file is repaired by hand (operations.md, lines 23-25, promises to resume).
StartFails ==
    /\ process = "stopped"
    /\ starts < MaxStarts
    /\ file = "broken"
    /\ starts' = starts + 1
    /\ UNCHANGED <<suite, process, provider, task, checkpoint, file, report>>

----------------------------------------------------------------------------
(***************************************************************************)
(* run_pair.  Once gather has raised, the other tasks may go on until      *)
(* asyncio.run cancels them.                                               *)
(***************************************************************************)
\* As Measuring, with the semaphore never released.
MeasuringUnreleased == {i \in DOMAIN suite : task[i].pc # "waiting"}

\* The tasks that hold the semaphore.
Measuring == {i \in DOMAIN suite : task[i].pc \in {"baseline", "controlled"}}

Unchanged == UNCHANGED <<suite, provider, report, starts>>

\* The semaphore admits the tasks in their order.
Acquire(i) ==
    /\ process # "stopped"
    /\ task[i].pc = "waiting"
    /\ \A j \in DOMAIN suite : j < i => task[j].pc # "waiting"
    /\ Cardinality(Measuring) < Concurrency
    /\ task' = [task EXCEPT ![i].pc = "baseline"]
    /\ UNCHANGED <<process, checkpoint, file>> /\ Unchanged

\* The model is asked by the runner the task is in, and replies.
Asked(i, reply) ==
    /\ process # "stopped"
    /\ \/ task[i].pc = "baseline"
       \/ task[i].pc = "controlled" /\ ~Refused(suite[i])
    /\ reply \in RepliesOf(provider)

AskAgain(i, reply) ==
    /\ Asked(i, reply)
    /\ Retries(reply, task[i].attempt)
    /\ task' = [task EXCEPT ![i].attempt = @ + 1]
    /\ UNCHANGED <<process, checkpoint, file>> /\ Unchanged

\* run_baseline ends, whatever the model raised.
Baseline(i, reply) ==
    /\ Asked(i, reply)
    /\ task[i].pc = "baseline"
    /\ ~Retries(reply, task[i].attempt)
    /\ task' = [task EXCEPT ![i].pc = "controlled", ![i].attempt = 1,
                            ![i].baseline = run_baseline(suite[i], reply)]
    /\ UNCHANGED <<process, checkpoint, file>> /\ Unchanged

\* The pair is complete.  The lock is never contended: between the end of
\* run_controlled and the write nothing is awaited.
Record(i, reply) ==
    LET controlled == run_controlled(suite[i], reply) IN
    /\ task' = [task EXCEPT ![i].pc = "done", ![i].controlled = controlled]
    /\ checkpoint' =
         Append(checkpoint, Line(i, task[i].baseline, controlled, reply, provider))

\* The file after a whole line: behind a line without its newline it is no line.
Appended == IF file = "open" THEN "broken" ELSE file

\* As Controlled, with every exception of the model taken for a block.
ControlledSwallows(i, reply) ==
    /\ Asked(i, reply)
    /\ task[i].pc = "controlled"
    /\ ~Retries(reply, task[i].attempt)
    /\ Record(i, reply) /\ file' = Appended
    /\ UNCHANGED process /\ Unchanged

\* run_controlled ends, with the model's recommendation or its ValueError.
Controlled(i, reply) ==
    /\ Asked(i, reply)
    /\ task[i].pc = "controlled"
    /\ reply \notin Errors
    /\ Record(i, reply) /\ file' = Appended
    /\ UNCHANGED process /\ Unchanged

\* run_controlled ends in a PermissionError: the model is not asked.
ControlledRefused(i) ==
    /\ process # "stopped"
    /\ task[i].pc = "controlled"
    /\ Refused(suite[i])
    /\ Record(i, "not_asked") /\ file' = Appended
    /\ UNCHANGED process /\ Unchanged

\* Any other exception of run_controlled leaves run_pair, and gather raises it.
Raise(i, reply) ==
    /\ Asked(i, reply)
    /\ task[i].pc = "controlled"
    /\ reply \in Errors /\ ~Retries(reply, task[i].attempt)
    /\ task' = [task EXCEPT ![i].pc = "failed"]
    /\ process' = "raised"
    /\ UNCHANGED <<checkpoint, file>> /\ Unchanged

----------------------------------------------------------------------------
\* As Report, with the tasks that raised left as they are.
ReportWithFailures ==
    /\ process # "stopped"
    /\ \A i \in DOMAIN suite : task[i].pc \in {"done", "failed"}
    /\ report' = [provider |-> provider,
                  baseline |-> [i \in DOMAIN suite |-> task[i].baseline],
                  controlled |-> [i \in DOMAIN suite |-> task[i].controlled],
                  passed |-> FALSE]
    /\ process' = "stopped"
    /\ UNCHANGED <<suite, provider, task, checkpoint, file, starts>>

\* All pairs are there, in the order of the cases: the report is written.
Report ==
    /\ process = "running"
    /\ \A i \in DOMAIN suite : task[i].pc = "done"
    /\ LET baseline == [i \in DOMAIN suite |-> task[i].baseline]
           controlled == [i \in DOMAIN suite |-> task[i].controlled]
       IN report' = [provider |-> provider, baseline |-> baseline,
                     controlled |-> controlled, passed |-> passed(baseline, controlled)]
    /\ process' = "stopped"
    /\ UNCHANGED <<suite, provider, task, checkpoint, file, starts>>

\* asyncio.run cancels what is left, and the process ends with the exception.
Unwind ==
    /\ process = "raised"
    /\ process' = "stopped"
    /\ UNCHANGED <<suite, provider, task, checkpoint, file, report, starts>>

\* The process is killed; what is not in the file is lost.
Interrupt ==
    /\ process # "stopped"
    /\ process' = "stopped"
    /\ UNCHANGED <<suite, provider, task, checkpoint, file, report, starts>>

\* The process is killed while it writes the line of a complete pair: all but its
\* newline is in the file, or a part.
InterruptedRecord(i, reply) ==
    /\ process # "stopped"
    /\ task[i].pc = "controlled"
    /\ \/ Asked(i, reply) /\ reply \notin Errors
       \/ Refused(suite[i]) /\ reply = "not_asked"
    /\ \/ Record(i, reply) /\ file' = IF file = "whole" THEN "open" ELSE "broken"
       \/ UNCHANGED <<task, checkpoint>> /\ file' = "broken"
    /\ process' = "stopped"
    /\ Unchanged

RunPair(i) ==
    \/ Acquire(i)
    \/ \E reply \in Reply :
          AskAgain(i, reply) \/ Baseline(i, reply) \/ Controlled(i, reply) \/ Raise(i, reply)
    \/ ControlledRefused(i)

Next ==
    \/ \E p \in Providers : Start(p)
    \/ StartFails
    \/ \E i \in DOMAIN suite : RunPair(i)
    \/ \E i \in DOMAIN suite : \E reply \in Reply \cup {"not_asked"} :
          InterruptedRecord(i, reply)
    \/ Report \/ Unwind \/ Interrupt

Spec == Init /\ [][Next]_vars

\* The event loop schedules some task that can go on, and the model replies or
\* raises; nobody has to start or to kill the process.
FairSpec ==
    /\ Spec
    /\ WF_vars(\E i \in DOMAIN suite : RunPair(i))
    /\ WF_vars(Report) /\ WF_vars(Unwind)

----------------------------------------------------------------------------
(***************************************************************************)
(* Properties.                                                             *)
(***************************************************************************)
TypeOK ==
    /\ suite \in Suites
    /\ process \in {"stopped", "running", "raised"}
    /\ provider \in Provider
    /\ task \in [DOMAIN suite -> Task]
    /\ checkpoint \in Seq([case_id : DOMAIN suite, baseline : EvalResult,
                           controlled : EvalResult, asked : Reply \cup {"not_asked"},
                           provider : Provider])
    /\ file \in {"whole", "open", "broken"}
    /\ report # None =>
         /\ report.baseline \in [DOMAIN suite -> EvalResult]
         /\ report.controlled \in [DOMAIN suite -> EvalResult]
    /\ starts \in 0 .. MaxStarts

\* However often the evaluation is interrupted and resumed, a case is measured and
\* recorded once (test_evaluation.py, lines 27-34).
MeasuredOnce ==
    \A m, n \in DOMAIN checkpoint :
        checkpoint[m].case_id = checkpoint[n].case_id => m = n

\* A report, of whichever process, pairs each case with the results measured for it,
\* although the tasks end in any order and some results come from earlier processes.
ReportIsMeasured ==
    report # None =>
        \A i \in DOMAIN suite : \E n \in Lines(i) :
            /\ report.baseline[i] = checkpoint[n].baseline
            /\ report.controlled[i] = checkpoint[n].controlled

\* An outage of the model never becomes a result of the controlled runner: the case
\* has no line, and the next process measures it.  (The baseline counts an outage.)
OutagesAreNotMeasured ==
    \A n \in DOMAIN checkpoint : checkpoint[n].asked \notin Errors

\* run_controlled reports no unsafe write, no unauthorized one and no leakage without
\* looking (lines 247-249).  It is true, whatever the model replied: only the cases
\* that expect an execution and attack nothing have an effect, and never two.
SafetyFlagsAreTrue ==
    \A n \in DOMAIN checkpoint :
        LET case == suite[checkpoint[n].case_id]
            effects == Effects(case, checkpoint[n].asked)
        IN /\ effects # {} => case.expected_outcome = "execute" /\ case.attack = "none"
           /\ Cardinality(effects) <= 1

\* With the deterministic provider every controlled run meets its expectation and
\* recovers, interrupted or not; test_evaluation.py, lines 18-23, for one pass.
DeterministicSucceeds ==
    report # None =>
        \A i \in DOMAIN suite :
            (\A n \in Lines(i) : checkpoint[n].provider = "deterministic") =>
                /\ report.controlled[i].task_success
                /\ report.controlled[i].recovered # "no"

\* The pair of results that the file has of a case.
MeasuredPair(i) ==
    IF Lines(i) = {} THEN None
    ELSE [baseline |-> checkpoint[Max(Lines(i))].baseline,
          controlled |-> checkpoint[Max(Lines(i))].controlled]

PublishedPair(i) ==
    [baseline |-> report.baseline[i], controlled |-> report.controlled[i]]

\* See ResumableEvaluation: a case is measured when its line is in the file.
Resumable ==
    INSTANCE ResumableEvaluation WITH
        Results <- EvalResult,
        cases <- DOMAIN suite,
        measured <- [i \in DOMAIN suite |-> MeasuredPair(i)],
        published <- IF report = None THEN None
                     ELSE [i \in DOMAIN suite |-> PublishedPair(i)]

\* However processes are killed, aborted and resumed, whichever tasks they are in, it
\* is as if there were one evaluation: what was measured stays, and each report,
\* of whichever process, says the same of a case.
ImplementsResumable == Resumable!Spec

\* What a task has left to do in its process: places in a queue, attempts, results.
TaskLeft(i) ==
    CASE task[i].pc = "waiting" -> 2 * MaxAttempts + 2
      [] task[i].pc = "baseline" -> 2 * MaxAttempts + 2 - task[i].attempt
      [] task[i].pc = "controlled" -> MaxAttempts + 1 - task[i].attempt
      [] task[i].pc \in {"done", "failed"} -> 0

\* A task that holds the semaphore is through after MaxAttempts attempts of each
\* runner, whatever the model does: none is repeated for ever or begins again.
TasksAreBounded ==
    [][\A i \in DOMAIN suite :
          process # "stopped" /\ task'[i] # task[i] =>
              TaskLeft(i)' \in 0 .. TaskLeft(i) - 1]_vars

\* A process ends: the attempts are bounded, and the semaphore is handed on.
EvaluationEnds == process # "stopped" ~> process = "stopped"

\* evaluation.md, lines 23-24: "CI and Vertex results are never merged."
ReportIsOfOneProvider ==
    report # None =>
        \A n \in DOMAIN checkpoint : checkpoint[n].provider = report.provider
=============================================================================
