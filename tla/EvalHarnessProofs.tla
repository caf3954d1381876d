-------------------------- MODULE EvalHarnessProofs --------------------------
(***************************************************************************)
(* Proofs about EvalHarness, for all suites, providers and bounds.         *)
(*                                                                         *)
(* What ties a process to the file is that a case's task is done exactly   *)
(* when the file has a line of the case, and then holds that line's        *)
(* results.  It survives the death of a process, because a task and the    *)
(* line of its case change in one step, and a new process reads the file.  *)
(*                                                                         *)
(* What ties the file to the runners is that a line's result is that of    *)
(* the controlled runner on the reply it was given, and that a model that  *)
(* is not asked belongs to a refused case.                                 *)
(***************************************************************************)
EXTENDS EvalHarness, EvalRunnerProofs

Asking == Reply \cup {"not_asked"}

LineSet ==
    [case_id : DOMAIN suite, baseline : EvalResult, controlled : EvalResult,
     asked : Asking, provider : Provider]

\* The line holds the results of the task.
Holds(n, i) ==
    /\ task[i].baseline = checkpoint[n].baseline
    /\ task[i].controlled = checkpoint[n].controlled

DoneInv ==
    \A i \in DOMAIN suite :
        /\ task[i].pc = "done" => \E n \in Lines(i) : Holds(n, i)
        /\ task[i].pc # "done" => Lines(i) = {}
        /\ task[i].pc = "controlled" => task[i].baseline \in EvalResult

\* The line is what the controlled runner made of a reply of its process's model.
Measured(line) ==
    /\ line.controlled = run_controlled(suite[line.case_id], line.asked)
    /\ line.asked = "not_asked" => Refused(suite[line.case_id])
    /\ line.provider = "deterministic" => line.asked \in {"supported", "not_asked"}

LineInv == \A n \in DOMAIN checkpoint : Measured(checkpoint[n])

IInv ==
    TypeOK /\ DoneInv /\ MeasuredOnce /\ ReportIsMeasured /\ OutagesAreNotMeasured

----------------------------------------------------------------------------
(***************************************************************************)
(* The values.                                                             *)
(***************************************************************************)
\* Whatever the baseline runs into is a result.
LEMMA BaselineResult ==
    ASSUME NEW case, NEW reply
    PROVE  run_baseline(case, reply) \in EvalResult
BY DEF run_baseline, EvalResult

\* What the controlled runner returns is a result.
LEMMA ControlledResult ==
    ASSUME NEW case, NEW reply
    PROVE  run_controlled(case, reply) \in EvalResult
BY DEF run_controlled, EvalResult

\* A task begins as one of the values it may have.
LEMMA WaitingIsTask == Waiting \in Task
BY AttemptsAssumption DEF Waiting, Task

\* The type of the checkpoint, by name.
LEMMA CheckpointType == TypeOK => checkpoint \in Seq(LineSet)
BY DEF TypeOK, LineSet, Asking

\* A line holds two results.
LEMMA LineResults ==
    ASSUME TypeOK, NEW n \in DOMAIN checkpoint
    PROVE  /\ checkpoint[n].baseline \in EvalResult
           /\ checkpoint[n].controlled \in EvalResult
<1>1. checkpoint[n] \in LineSet
  BY CheckpointType
<1> QED
  BY <1>1 DEF LineSet

----------------------------------------------------------------------------
(***************************************************************************)
(* The file.                                                               *)
(***************************************************************************)
\* A case is resumed from its only line, or waits.
LEMMA ResumedFromFile ==
    ASSUME TypeOK, MeasuredOnce, NEW i \in DOMAIN suite
    PROVE  /\ Lines(i) = {} => Resumed(i) = Waiting
           /\ \A n \in Lines(i) :
                 Resumed(i) = [pc |-> "done", attempt |-> 1,
                               baseline |-> checkpoint[n].baseline,
                               controlled |-> checkpoint[n].controlled]
<1>1. ASSUME Lines(i) = {} PROVE Resumed(i) = Waiting
  BY <1>1 DEF Resumed
<1>2. ASSUME NEW n \in Lines(i)
      PROVE  Resumed(i) = [pc |-> "done", attempt |-> 1,
                           baseline |-> checkpoint[n].baseline,
                           controlled |-> checkpoint[n].controlled]
  <2>1. Lines(i) = {n}
    BY <1>2 DEF MeasuredOnce, Lines
  <2>2. n \in Nat
    BY CheckpointType, <1>2 DEF Lines
  <2>3. Max({n}) = n
    BY <2>2 DEF Max
  <2> QED
    BY <2>1, <2>3 DEF Resumed, Waiting
<1> QED
  BY <1>1, <1>2

\* Recording a case adds one line to the end of the file: that of the task.
LEMMA Recorded ==
    ASSUME TypeOK, DoneInv, NEW i \in DOMAIN suite, NEW reply \in Asking,
           task[i].pc = "controlled", Record(i, reply)
    PROVE  LET new == Line(i, task[i].baseline, run_controlled(suite[i], reply),
                           reply, provider)
               done == [task[i] EXCEPT !.pc = "done",
                                       !.controlled = run_controlled(suite[i], reply)]
           IN /\ new \in LineSet
              /\ done \in Task
              /\ task' = [task EXCEPT ![i] = done]
              /\ checkpoint' \in Seq(LineSet)
              /\ Len(checkpoint') = Len(checkpoint) + 1
              /\ DOMAIN checkpoint' = 1 .. Len(checkpoint) + 1
              /\ checkpoint'[Len(checkpoint) + 1] = new
              /\ \A n \in DOMAIN checkpoint : checkpoint'[n] = checkpoint[n]
<1> DEFINE controlled == run_controlled(suite[i], reply)
           new == Line(i, task[i].baseline, controlled, reply, provider)
           done == [task[i] EXCEPT !.pc = "done", !.controlled = controlled]
<1>1. controlled \in EvalResult
  BY ControlledResult
<1>2. new \in LineSet
  BY <1>1 DEF Line, LineSet, TypeOK, DoneInv
<1>3. task \in [DOMAIN suite -> Task] /\ task[i] \in Task
  BY DEF TypeOK
<1>4. done \in Task
  BY <1>1, <1>3 DEF Task
<1>5. task' = [task EXCEPT ![i] = done]
  BY <1>3 DEF Record
<1>6. checkpoint' = Append(checkpoint, new)
  BY DEF Record
<1>7. checkpoint \in Seq(LineSet)
  BY CheckpointType
<1> HIDE DEF controlled, new, done
<1>8. /\ checkpoint' \in Seq(LineSet)
      /\ Len(checkpoint') = Len(checkpoint) + 1
      /\ DOMAIN checkpoint' = 1 .. Len(checkpoint) + 1
      /\ checkpoint'[Len(checkpoint) + 1] = new
      /\ \A n \in DOMAIN checkpoint : checkpoint'[n] = checkpoint[n]
  BY <1>2, <1>6, <1>7
<1> QED
  BY <1>2, <1>4, <1>5, <1>8 DEF controlled, new, done

\* While the file stays, so does what is said of it alone.
LEMMA FileKept ==
    ASSUME MeasuredOnce, OutagesAreNotMeasured, UNCHANGED <<suite, checkpoint>>
    PROVE  /\ MeasuredOnce' /\ OutagesAreNotMeasured'
           /\ \A i \in DOMAIN suite : Lines(i)' = Lines(i)
BY DEF MeasuredOnce, OutagesAreNotMeasured, Lines

\* A report stays measured while its file stays.
LEMMA ReportKept ==
    ASSUME ReportIsMeasured, UNCHANGED <<suite, checkpoint, report>>
    PROVE  ReportIsMeasured'
BY DEF ReportIsMeasured, Lines

----------------------------------------------------------------------------
(***************************************************************************)
(* The steps.                                                              *)
(***************************************************************************)
LEMMA InvInit == Init => IInv
<1> SUFFICES ASSUME Init PROVE IInv
  OBVIOUS
<1>1. \A i \in DOMAIN suite : task[i] = Waiting /\ Lines(i) = {}
  BY DEF Init, Lines
<1>2. TypeOK
  BY WaitingIsTask, HarnessAssumption DEF Init, TypeOK, Provider
<1>3. DoneInv
  BY <1>1 DEF DoneInv, Waiting
<1>4. MeasuredOnce /\ ReportIsMeasured /\ OutagesAreNotMeasured
  BY DEF Init, MeasuredOnce, ReportIsMeasured, OutagesAreNotMeasured
<1> QED
  BY <1>2, <1>3, <1>4 DEF IInv

\* A process begins with what the file holds.
LEMMA StartStep ==
    ASSUME IInv, NEW p \in Providers, Start(p)
    PROVE  IInv'
<1> USE DEF IInv
<1>1. UNCHANGED <<suite, checkpoint, file, report>>
  BY DEF Start
<1>2. /\ task' = [i \in DOMAIN suite |-> Resumed(i)]
      /\ process' = "running" /\ provider' = p /\ starts' = starts + 1 /\ starts < MaxStarts
  BY DEF Start
<1>3. /\ MeasuredOnce' /\ OutagesAreNotMeasured' /\ ReportIsMeasured'
      /\ \A i \in DOMAIN suite : Lines(i)' = Lines(i)
  BY <1>1, FileKept, ReportKept
<1>4. ASSUME NEW i \in DOMAIN suite, NEW n \in Lines(i)
      PROVE  /\ checkpoint[n].baseline \in EvalResult
             /\ checkpoint[n].controlled \in EvalResult
  BY LineResults DEF Lines
<1>5. ASSUME NEW i \in DOMAIN suite
      PROVE  Resumed(i) \in Task
  <2>1. CASE Lines(i) = {}
    BY <2>1, ResumedFromFile, WaitingIsTask
  <2>2. CASE Lines(i) # {}
    <3>1. PICK n \in Lines(i) : TRUE
      BY <2>2
    <3>2. Resumed(i) = [pc |-> "done", attempt |-> 1, baseline |-> checkpoint[n].baseline,
                        controlled |-> checkpoint[n].controlled]
      BY <3>1, ResumedFromFile
    <3> QED
      BY <3>1, <3>2, <1>4, AttemptsAssumption DEF Task
  <2> QED
    BY <2>1, <2>2
<1>6. TypeOK'
  BY <1>1, <1>2, <1>5, HarnessAssumption DEF TypeOK
<1>7. ASSUME NEW i \in DOMAIN suite
      PROVE  /\ task'[i].pc = "done" => \E n \in Lines(i) : Holds(n, i)'
             /\ task'[i].pc # "done" => Lines(i) = {}
             /\ task'[i].pc # "controlled"
  <2>1. task'[i] = Resumed(i)
    BY <1>2
  <2>2. CASE Lines(i) = {}
    BY <2>1, <2>2, ResumedFromFile DEF Waiting
  <2>3. CASE Lines(i) # {}
    <3>1. PICK n \in Lines(i) : TRUE
      BY <2>3
    <3>2. task'[i] = [pc |-> "done", attempt |-> 1, baseline |-> checkpoint[n].baseline,
                      controlled |-> checkpoint[n].controlled]
      BY <3>1, <2>1, ResumedFromFile
    <3> QED
      BY <3>1, <3>2, <1>1 DEF Holds
  <2> QED
    BY <2>2, <2>3
<1>8. DoneInv'
  BY <1>1, <1>3, <1>7 DEF DoneInv
<1> QED
  BY <1>3, <1>6, <1>8

\* A task goes on, and nothing else changes.
LEMMA TaskStep ==
    ASSUME IInv, NEW i \in DOMAIN suite, NEW value \in Task,
           task[i].pc # "done", value.pc # "done",
           value.pc = "controlled" => value.baseline \in EvalResult,
           task' = [task EXCEPT ![i] = value],
           process' \in {"stopped", "running", "raised"},
           UNCHANGED <<suite, provider, checkpoint, file, report, starts>>
    PROVE  IInv'
<1> USE DEF IInv
<1>1. /\ MeasuredOnce' /\ OutagesAreNotMeasured' /\ ReportIsMeasured'
      /\ \A j \in DOMAIN suite : Lines(j)' = Lines(j)
  BY FileKept, ReportKept
<1>2. TypeOK'
  BY DEF TypeOK
<1>3. ASSUME NEW j \in DOMAIN suite
      PROVE  /\ task'[j].pc = "done" => \E n \in Lines(j) : Holds(n, j)'
             /\ task'[j].pc # "done" => Lines(j) = {}
             /\ task'[j].pc = "controlled" => task'[j].baseline \in EvalResult
  <2>1. CASE j = i
    <3>1. task'[j] = value /\ Lines(j) = {}
      BY <2>1 DEF TypeOK, DoneInv
    <3> QED
      BY <3>1
  <2>2. CASE j # i
    <3>1. task'[j] = task[j]
      BY <2>2 DEF TypeOK
    <3> QED
      BY <3>1 DEF DoneInv, Holds
  <2> QED
    BY <2>1, <2>2
<1>4. DoneInv'
  BY <1>1, <1>3 DEF DoneInv
<1> QED
  BY <1>1, <1>2, <1>4

\* A task ends with its line.
LEMMA RecordStep ==
    ASSUME IInv, NEW i \in DOMAIN suite, NEW reply \in Asking \ Errors,
           task[i].pc = "controlled", Record(i, reply),
           process' \in {"stopped", "running", "raised"},
           file' \in {"whole", "open", "broken"},
           UNCHANGED <<suite, provider, report, starts>>
    PROVE  IInv'
<1> USE DEF IInv
<1> DEFINE last == Len(checkpoint) + 1
           controlled == run_controlled(suite[i], reply)
           new == Line(i, task[i].baseline, controlled, reply, provider)
           done == [task[i] EXCEPT !.pc = "done", !.controlled = controlled]
<1>1. /\ new \in LineSet
      /\ done \in Task
      /\ task' = [task EXCEPT ![i] = done]
      /\ checkpoint' \in Seq(LineSet)
      /\ DOMAIN checkpoint' = 1 .. last
      /\ checkpoint'[last] = new
      /\ \A n \in DOMAIN checkpoint : checkpoint'[n] = checkpoint[n]
  BY Recorded
<1>2. /\ done.pc = "done" /\ done.baseline = task[i].baseline
      /\ done.controlled = controlled
  BY DEF TypeOK, Task
<1>3. /\ new.case_id = i /\ new.baseline = task[i].baseline
      /\ new.controlled = controlled /\ new.asked = reply
  BY DEF Line
<1>4. task \in [DOMAIN suite -> Task]
  BY DEF TypeOK
<1>5. Len(checkpoint) \in Nat /\ DOMAIN checkpoint = 1 .. Len(checkpoint)
  BY CheckpointType
<1> HIDE DEF controlled, new, done
<1>6. DOMAIN checkpoint' = DOMAIN checkpoint \cup {last} /\ last \notin DOMAIN checkpoint
  BY <1>1, <1>5
<1> HIDE DEF last
<1>7. Lines(i) = {}
  BY DEF DoneInv
<1>8. Lines(i)' = {last}
  BY <1>1, <1>3, <1>6, <1>7 DEF Lines
<1>9. \A j \in DOMAIN suite : j # i => Lines(j)' = Lines(j)
  BY <1>1, <1>3, <1>6 DEF Lines
<1>10. TypeOK'
  <2>1. task' \in [DOMAIN suite -> Task]
    BY <1>1, <1>4
  <2> QED
    BY <1>1, <2>1 DEF TypeOK, LineSet, Asking
<1>11. DoneInv'
  <2>1. ASSUME NEW j \in DOMAIN suite
        PROVE  /\ task'[j].pc = "done" =>
                     \E n \in Lines(j)' :
                        /\ task'[j].baseline = checkpoint'[n].baseline
                        /\ task'[j].controlled = checkpoint'[n].controlled
               /\ task'[j].pc # "done" => Lines(j)' = {}
               /\ task'[j].pc = "controlled" => task'[j].baseline \in EvalResult
    <3>1. CASE j = i
      <4>1. task'[j] = done
        BY <3>1, <1>1, <1>4
      <4>2. /\ task'[j].baseline = checkpoint'[last].baseline
            /\ task'[j].controlled = checkpoint'[last].controlled
        BY <3>1, <4>1, <1>1, <1>2, <1>3
      <4> QED
        BY <3>1, <4>1, <4>2, <1>2, <1>8
    <3>2. CASE j # i
      <4>1. task'[j] = task[j] /\ Lines(j)' = Lines(j)
        BY <3>2, <1>1, <1>4, <1>9
      <4>2. \A n \in Lines(j) : checkpoint'[n] = checkpoint[n]
        BY <1>1 DEF Lines
      <4> QED
        BY <4>1, <4>2 DEF DoneInv, Holds
    <3> QED
      BY <3>1, <3>2
  <2> QED
    BY <2>1 DEF DoneInv, Holds
<1>12. MeasuredOnce'
  <2>1. \A n \in DOMAIN checkpoint :
           checkpoint'[n].case_id = checkpoint[n].case_id /\ checkpoint[n].case_id # i
    BY <1>1, <1>7 DEF Lines
  <2>2. checkpoint'[last].case_id = i
    BY <1>1, <1>3
  <2> QED
    BY <2>1, <2>2, <1>6 DEF MeasuredOnce
<1>13. ReportIsMeasured'
  <2>1. ASSUME NEW j \in DOMAIN suite, NEW n \in Lines(j)
        PROVE  n \in Lines(j)' /\ checkpoint'[n] = checkpoint[n]
    BY <2>1, <1>1, <1>6 DEF Lines
  <2> QED
    BY <2>1 DEF ReportIsMeasured
<1>14. OutagesAreNotMeasured'
  BY <1>1, <1>3, <1>6 DEF OutagesAreNotMeasured
<1> QED
  BY <1>10, <1>11, <1>12, <1>13, <1>14

\* The process ends, with or without a report.
LEMMA EndStep ==
    ASSUME IInv, Report \/ Unwind \/ Interrupt
    PROVE  IInv'
<1> USE DEF IInv
<1>1. UNCHANGED <<suite, provider, task, checkpoint, file, starts>> /\ process' = "stopped"
  BY DEF Report, Unwind, Interrupt
<1>2. /\ MeasuredOnce' /\ OutagesAreNotMeasured'
      /\ \A i \in DOMAIN suite : Lines(i)' = Lines(i)
  BY <1>1, FileKept
<1>3. DoneInv'
  BY <1>1, <1>2 DEF DoneInv, Holds
<1>4. CASE Report
  <2>1. /\ report'.baseline = [i \in DOMAIN suite |-> task[i].baseline]
        /\ report'.controlled = [i \in DOMAIN suite |-> task[i].controlled]
    BY <1>4 DEF Report
  <2>2. ASSUME NEW i \in DOMAIN suite
        PROVE  \E n \in Lines(i) : Holds(n, i)
    BY <1>4 DEF Report, DoneInv
  <2>3. ReportIsMeasured'
    BY <1>1, <1>2, <2>1, <2>2 DEF ReportIsMeasured, Holds
  <2>4. ASSUME NEW i \in DOMAIN suite
        PROVE  task[i].baseline \in EvalResult /\ task[i].controlled \in EvalResult
    BY <2>2, LineResults DEF Holds, Lines
  <2>5. TypeOK'
    BY <1>1, <2>1, <2>4 DEF TypeOK
  <2> QED
    BY <1>2, <1>3, <2>3, <2>5
<1>5. CASE Unwind \/ Interrupt
  <2>1. report' = report
    BY <1>5 DEF Unwind, Interrupt
  <2>2. ReportIsMeasured'
    BY <1>1, <2>1, ReportKept
  <2>3. TypeOK'
    BY <1>1, <2>1 DEF TypeOK
  <2> QED
    BY <1>2, <1>3, <2>2, <2>3
<1> QED
  BY <1>4, <1>5

\* One step of run_pair.
LEMMA RunPairStep ==
    ASSUME IInv, NEW i \in DOMAIN suite, RunPair(i)
    PROVE  IInv'
<1>1. task \in [DOMAIN suite -> Task] /\ task[i] \in Task
  BY DEF IInv, TypeOK
<1>2. CASE Acquire(i)
  <2> DEFINE value == [task[i] EXCEPT !.pc = "baseline"]
  <2>1. value \in Task /\ value.pc = "baseline" /\ task[i].pc # "done"
    BY <1>1, <1>2 DEF Task, Acquire
  <2>2. /\ task' = [task EXCEPT ![i] = value]
        /\ UNCHANGED <<suite, process, provider, checkpoint, file, report, starts>>
    BY <1>1, <1>2 DEF Acquire, Unchanged
  <2>3. process' \in {"stopped", "running", "raised"}
    BY <2>2 DEF IInv, TypeOK
  <2> QED
    BY <2>1, <2>2, <2>3, TaskStep
<1>3. ASSUME NEW reply \in Reply, AskAgain(i, reply) PROVE IInv'
  <2> DEFINE value == [task[i] EXCEPT !.attempt = @ + 1]
  <2>1. /\ value \in Task /\ value.pc = task[i].pc /\ value.baseline = task[i].baseline
        /\ task[i].pc \in {"baseline", "controlled"}
    BY <1>1, <1>3, AttemptsAssumption DEF Task, AskAgain, Asked, Retries
  <2>2. /\ task' = [task EXCEPT ![i] = value]
        /\ UNCHANGED <<suite, process, provider, checkpoint, file, report, starts>>
    BY <1>1, <1>3 DEF AskAgain, Unchanged
  <2>3. /\ process' \in {"stopped", "running", "raised"}
        /\ value.pc = "controlled" => value.baseline \in EvalResult
    BY <2>1, <2>2 DEF IInv, TypeOK, DoneInv
  <2> QED
    BY <2>1, <2>2, <2>3, TaskStep
<1>4. ASSUME NEW reply \in Reply, Baseline(i, reply) PROVE IInv'
  <2> DEFINE result == run_baseline(suite[i], reply)
             value == [task[i] EXCEPT !.pc = "controlled", !.attempt = 1,
                                      !.baseline = result]
  <2>1. result \in EvalResult
    BY BaselineResult
  <2>2. task' = [task EXCEPT ![i] = value]
    BY <1>1, <1>4 DEF Baseline
  <2> HIDE DEF result
  <2>3. /\ value.pc = "controlled" /\ value.baseline = result
        /\ task[i].pc # "done"
    BY <1>1, <1>4 DEF Task, Baseline
  <2>4. value \in Task
    <3> DEFINE moved == [task[i] EXCEPT !.pc = "controlled"]
               again == [moved EXCEPT !.attempt = 1]
    <3>1. moved \in Task
      BY <1>1 DEF Task
    <3>2. value = [again EXCEPT !.baseline = result]
      OBVIOUS
    <3>3. 1 \in 1 .. MaxAttempts
      BY AttemptsAssumption
    <3> HIDE DEF moved, value
    <3>4. again \in Task
      BY <3>1, <3>3 DEF Task
    <3> HIDE DEF again
    <3> QED
      BY <3>2, <3>4, <2>1 DEF Task
  <2>5. /\ UNCHANGED <<suite, process, provider, checkpoint, file, report, starts>>
        /\ process' \in {"stopped", "running", "raised"}
    BY <1>4 DEF Baseline, Unchanged, IInv, TypeOK
  <2> HIDE DEF value
  <2> QED
    BY <2>1, <2>2, <2>3, <2>4, <2>5, TaskStep
<1>5. ASSUME NEW reply \in Reply, Controlled(i, reply) PROVE IInv'
  <2>1. /\ reply \in Asking \ Errors /\ task[i].pc = "controlled" /\ Record(i, reply)
        /\ UNCHANGED <<suite, process, provider, report, starts>> /\ file' = Appended
    BY <1>5 DEF Controlled, Unchanged, Asking
  <2>2. /\ process' \in {"stopped", "running", "raised"}
        /\ file' \in {"whole", "open", "broken"}
    BY <2>1 DEF IInv, TypeOK, Appended
  <2> QED
    BY <2>1, <2>2, RecordStep
<1>6. ASSUME NEW reply \in Reply, Raise(i, reply) PROVE IInv'
  <2> DEFINE value == [task[i] EXCEPT !.pc = "failed"]
  <2>1. value \in Task /\ value.pc = "failed" /\ task[i].pc # "done"
    BY <1>1, <1>6 DEF Task, Raise
  <2>2. /\ task' = [task EXCEPT ![i] = value] /\ process' = "raised"
        /\ UNCHANGED <<suite, provider, checkpoint, file, report, starts>>
    BY <1>1, <1>6 DEF Raise, Unchanged
  <2> QED
    BY <2>1, <2>2, TaskStep
<1>7. CASE ControlledRefused(i)
  <2>1. "not_asked" \in Asking \ Errors
    BY DEF Asking, Errors
  <2>2. /\ task[i].pc = "controlled" /\ Record(i, "not_asked")
        /\ UNCHANGED <<suite, process, provider, report, starts>> /\ file' = Appended
    BY <1>7 DEF ControlledRefused, Unchanged
  <2>3. /\ process' \in {"stopped", "running", "raised"}
        /\ file' \in {"whole", "open", "broken"}
    BY <2>2 DEF IInv, TypeOK, Appended
  <2> QED
    BY <2>1, <2>2, <2>3, RecordStep
<1> QED
  BY <1>2, <1>3, <1>4, <1>5, <1>6, <1>7 DEF RunPair

\* What a process that is killed in the middle of a line leaves: the line of a pair
\* that is complete, or no line.
LEMMA InterruptedLine ==
    ASSUME NEW i \in DOMAIN suite, NEW reply \in Asking, InterruptedRecord(i, reply)
    PROVE  /\ reply \in Asking \ Errors /\ task[i].pc = "controlled"
           /\ reply = "not_asked" => Refused(suite[i])
           /\ provider = "deterministic" => reply \in {"supported", "not_asked"}
           /\ Record(i, reply) \/ UNCHANGED <<task, checkpoint>>
           /\ process' = "stopped" /\ file' \in {"whole", "open", "broken"}
           /\ process # "stopped"
           /\ UNCHANGED <<suite, provider, report, starts>>
<1>1. /\ \/ Asked(i, reply) /\ reply \notin Errors
         \/ Refused(suite[i]) /\ reply = "not_asked"
      /\ \/ Record(i, reply) /\ file' = IF file = "whole" THEN "open" ELSE "broken"
         \/ UNCHANGED <<task, checkpoint>> /\ file' = "broken"
      /\ task[i].pc = "controlled" /\ process' = "stopped" /\ process # "stopped"
      /\ UNCHANGED <<suite, provider, report, starts>>
  BY DEF InterruptedRecord, Unchanged
<1>2. Asked(i, reply) => /\ reply # "not_asked"
                         /\ provider = "deterministic" => reply = "supported"
  BY DEF Asked, RepliesOf, Reply, Recommendation, Errors
<1>3. "not_asked" \notin Errors
  BY DEF Errors
<1> QED
  BY <1>1, <1>2, <1>3

\* A step that leaves the tasks and the lines alone.
LEMMA KeptStep ==
    ASSUME IInv, UNCHANGED <<suite, provider, task, checkpoint, report>>,
           process' \in {"stopped", "running", "raised"},
           file' \in {"whole", "open", "broken"}, starts' \in 0 .. MaxStarts
    PROVE  IInv'
<1>1. MeasuredOnce' /\ OutagesAreNotMeasured' /\ ReportIsMeasured'
  BY FileKept, ReportKept DEF IInv
<1>2. TypeOK'
  BY DEF IInv, TypeOK
<1>3. DoneInv'
  BY DEF IInv, DoneInv, Lines, Holds
<1> QED
  BY <1>1, <1>2, <1>3 DEF IInv

LEMMA InvStep == IInv /\ [Next]_vars => IInv'
<1> SUFFICES ASSUME IInv, [Next]_vars PROVE IInv'
  OBVIOUS
<1>1. ASSUME NEW p \in Providers, Start(p) PROVE IInv'
  BY <1>1, StartStep
<1>2. ASSUME NEW i \in DOMAIN suite, RunPair(i) PROVE IInv'
  BY <1>2, RunPairStep
<1>3. CASE Report \/ Unwind \/ Interrupt
  BY <1>3, EndStep
<1>4. CASE StartFails
  <2>1. starts' \in 0 .. MaxStarts
    BY <1>4, HarnessAssumption DEF StartFails, IInv, TypeOK
  <2> QED
    BY <1>4, <2>1, KeptStep DEF StartFails, IInv, TypeOK
<1>5. ASSUME NEW i \in DOMAIN suite, NEW reply \in Asking, InterruptedRecord(i, reply)
      PROVE  IInv'
  <2>1. starts' \in 0 .. MaxStarts
    BY <1>5, InterruptedLine DEF IInv, TypeOK
  <2> QED
    BY <1>5, <2>1, InterruptedLine, RecordStep, KeptStep
<1>6. CASE UNCHANGED vars
  BY <1>6, KeptStep DEF vars, IInv, TypeOK
<1> QED
  BY <1>1, <1>2, <1>3, <1>4, <1>5, <1>6 DEF Next, Asking

----------------------------------------------------------------------------
(***************************************************************************)
(* The lines.                                                              *)
(***************************************************************************)
\* A pair is recorded as the runner left it.
LEMMA RecordMeasured ==
    ASSUME IInv, LineInv, NEW i \in DOMAIN suite, NEW reply \in Asking,
           task[i].pc = "controlled", Record(i, reply),
           reply = "not_asked" => Refused(suite[i]),
           provider = "deterministic" => reply \in {"supported", "not_asked"},
           UNCHANGED suite
    PROVE  LineInv'
<1> DEFINE last == Len(checkpoint) + 1
           controlled == run_controlled(suite[i], reply)
           new == Line(i, task[i].baseline, controlled, reply, provider)
<1>1. /\ DOMAIN checkpoint' = 1 .. last
      /\ checkpoint'[last] = new
      /\ \A n \in DOMAIN checkpoint : checkpoint'[n] = checkpoint[n]
  BY Recorded DEF IInv
<1>2. /\ new.case_id = i /\ new.controlled = controlled
      /\ new.asked = reply /\ new.provider = provider
  BY DEF Line
<1>3. Len(checkpoint) \in Nat /\ DOMAIN checkpoint = 1 .. Len(checkpoint)
  BY CheckpointType DEF IInv
<1> HIDE DEF new
<1>4. DOMAIN checkpoint' = DOMAIN checkpoint \cup {last}
  BY <1>1, <1>3
<1> HIDE DEF last
<1>5. Measured(checkpoint'[last])
  <2>1. /\ new.controlled = run_controlled(suite[new.case_id], new.asked)
        /\ new.asked = "not_asked" => Refused(suite[new.case_id])
        /\ new.provider = "deterministic" => new.asked \in {"supported", "not_asked"}
    BY <1>2
  <2>2. /\ checkpoint'[last].controlled =
             run_controlled(suite[checkpoint'[last].case_id], checkpoint'[last].asked)
        /\ checkpoint'[last].asked = "not_asked" =>
             Refused(suite[checkpoint'[last].case_id])
        /\ checkpoint'[last].provider = "deterministic" =>
             checkpoint'[last].asked \in {"supported", "not_asked"}
    BY <1>1, <2>1
  <2> QED
    BY <2>2 DEF Measured
<1>6. ASSUME NEW n \in DOMAIN checkpoint PROVE Measured(checkpoint'[n])
  BY <1>1 DEF LineInv
<1>7. \A n \in DOMAIN checkpoint' : Measured(checkpoint'[n])
  BY <1>4, <1>5, <1>6
<1> QED
  BY <1>7 DEF LineInv, Measured

\* The deterministic provider says what is supported; a refused case asks no model.
LEMMA LineStep ==
    ASSUME IInv, LineInv, [Next]_vars
    PROVE  LineInv'
<1>1. ASSUME UNCHANGED <<suite, checkpoint>> PROVE LineInv'
  BY <1>1 DEF LineInv, Measured
<1>2. ASSUME NEW i \in DOMAIN suite, NEW reply \in Reply, Controlled(i, reply)
      PROVE  LineInv'
  <2>1. /\ reply \in Asking /\ reply # "not_asked" /\ task[i].pc = "controlled"
        /\ Record(i, reply) /\ UNCHANGED suite
    BY <1>2 DEF Controlled, Unchanged, Asking, Reply, Recommendation, Errors
  <2>2. provider = "deterministic" => reply = "supported"
    BY <1>2 DEF Controlled, Asked, RepliesOf
  <2> QED
    BY <2>1, <2>2, RecordMeasured
<1>3. ASSUME NEW i \in DOMAIN suite, ControlledRefused(i) PROVE LineInv'
  <2>1. /\ "not_asked" \in Asking /\ task[i].pc = "controlled" /\ Refused(suite[i])
        /\ Record(i, "not_asked") /\ UNCHANGED suite
    BY <1>3 DEF ControlledRefused, Unchanged, Asking
  <2> QED
    BY <2>1, RecordMeasured
<1>4. ASSUME NEW i \in DOMAIN suite, RunPair(i) PROVE LineInv'
  <2>1. CASE Acquire(i)
    BY <2>1, <1>1 DEF Acquire, Unchanged
  <2>2. ASSUME NEW reply \in Reply,
               AskAgain(i, reply) \/ Baseline(i, reply) \/ Raise(i, reply)
        PROVE  LineInv'
    BY <2>2, <1>1 DEF AskAgain, Baseline, Raise, Unchanged
  <2> QED
    BY <1>2, <1>3, <1>4, <2>1, <2>2 DEF RunPair
<1>5. ASSUME NEW p \in Providers, Start(p) PROVE LineInv'
  BY <1>5, <1>1 DEF Start
<1>6. CASE StartFails \/ Report \/ Unwind \/ Interrupt
  BY <1>6, <1>1 DEF StartFails, Report, Unwind, Interrupt
<1>7. ASSUME NEW i \in DOMAIN suite, NEW reply \in Asking, InterruptedRecord(i, reply)
      PROVE  LineInv'
  BY <1>7, <1>1, InterruptedLine, RecordMeasured
<1>8. CASE UNCHANGED vars
  BY <1>8, <1>1 DEF vars
<1> QED
  BY <1>4, <1>5, <1>6, <1>7, <1>8 DEF Next, Asking

LEMMA LineInit == Init => LineInv
BY DEF Init, LineInv

\* The case of a line is one of the suite's.
LEMMA CaseOfLine ==
    ASSUME TypeOK, NEW i \in DOMAIN suite
    PROVE  suite[i] \in EvalCase /\ Labelled(suite[i]) /\ None \notin Nat
<1>1. suite \in Suites
  BY DEF TypeOK
<1>2. suite \in Seq(EvalCase)
  BY <1>1, SuiteAssumption
<1>3. suite[i] \in EvalCase
  BY <1>2
<1>4. Labelled(suite[i])
  BY <1>1, LabelAssumption
<1> QED
  BY <1>3, <1>4, HarnessAssumption

----------------------------------------------------------------------------
(***************************************************************************)
(* The implementation of ResumableEvaluation.                              *)
(***************************************************************************)
MeasuredPairs == [i \in DOMAIN suite |-> MeasuredPair(i)]

Published == IF report = None THEN None ELSE [i \in DOMAIN suite |-> PublishedPair(i)]

\* A case that has a line is measured as that line says.
LEMMA PairOfLine ==
    ASSUME TypeOK, MeasuredOnce, NEW i \in DOMAIN suite, NEW n \in Lines(i)
    PROVE  /\ MeasuredPair(i) = [baseline |-> checkpoint[n].baseline,
                                 controlled |-> checkpoint[n].controlled]
           /\ MeasuredPair(i) # None
<1>1. Lines(i) = {n}
  BY DEF MeasuredOnce, Lines
<1>2. n \in Nat
  BY CheckpointType DEF Lines
<1>3. Max({n}) = n
  BY <1>2, MaxOfOne
<1>4. MeasuredPair(i) = [baseline |-> checkpoint[n].baseline,
                         controlled |-> checkpoint[n].controlled]
  BY <1>1, <1>3 DEF MeasuredPair
<1>5. MeasuredPair(i) \in [baseline : EvalResult, controlled : EvalResult]
  BY <1>4, LineResults DEF Lines
<1> QED
  BY <1>4, <1>5, HarnessAssumption

\* Nothing is measured and nothing is published at first.
LEMMA ResumableInit == Init => Resumable!Init
<1> SUFFICES ASSUME Init PROVE Resumable!Init
  OBVIOUS
<1>1. \A i \in DOMAIN suite : MeasuredPair(i) = None
  BY DEF Init, Lines, MeasuredPair
<1>2. report = None
  BY DEF Init
<1> QED
  BY <1>1, <1>2 DEF Resumable!Init

\* What the abstract state reads is the suite, the file and the report.
LEMMA ResumableStutter ==
    ASSUME UNCHANGED <<suite, checkpoint, report>>
    PROVE  UNCHANGED Resumable!vars
<1>1. \A i \in DOMAIN suite : MeasuredPair(i)' = MeasuredPair(i) /\ PublishedPair(i)' = PublishedPair(i)
  BY DEF MeasuredPair, PublishedPair, Lines
<1> QED
  BY <1>1 DEF Resumable!vars

\* A case is measured by the step that writes its line.
LEMMA RecordMeasures ==
    ASSUME IInv, NEW i \in DOMAIN suite, NEW reply \in Asking,
           task[i].pc = "controlled", Record(i, reply), UNCHANGED <<suite, report>>
    PROVE  Resumable!Measure(i)
<1> DEFINE last == Len(checkpoint) + 1
           new == Line(i, task[i].baseline, run_controlled(suite[i], reply), reply, provider)
<1>1. /\ new \in LineSet
      /\ DOMAIN checkpoint' = 1 .. last
      /\ checkpoint'[last] = new
      /\ \A n \in DOMAIN checkpoint : checkpoint'[n] = checkpoint[n]
  BY Recorded DEF IInv
<1>2. new.case_id = i
  BY DEF Line
<1>3. Len(checkpoint) \in Nat /\ DOMAIN checkpoint = 1 .. Len(checkpoint)
  BY CheckpointType DEF IInv
<1>4. last \in Nat
  BY <1>3
<1>5. Lines(i) = {}
  BY DEF IInv, DoneInv
<1> HIDE DEF new
<1>6. DOMAIN checkpoint' = DOMAIN checkpoint \cup {last}
  BY <1>1, <1>3
<1> HIDE DEF last
<1>7. {n \in DOMAIN checkpoint' : checkpoint'[n].case_id = i} = {last}
  BY <1>1, <1>2, <1>5, <1>6 DEF Lines
<1>8. MeasuredPair(i) = None
  BY <1>5 DEF MeasuredPair
<1>9. MeasuredPair(i)' = [baseline |-> new.baseline, controlled |-> new.controlled]
  <2>1. Max({last}) = last
    BY <1>4, MaxOfOne
  <2> QED
    BY <1>1, <1>7, <2>1 DEF MeasuredPair, Lines
<1>10. MeasuredPair(i)' \in [baseline : EvalResult, controlled : EvalResult]
  BY <1>1, <1>9 DEF LineSet
<1>11. ASSUME NEW j \in DOMAIN suite, j # i PROVE MeasuredPair(j)' = MeasuredPair(j)
  <2>1. {n \in DOMAIN checkpoint' : checkpoint'[n].case_id = j} = Lines(j)
    BY <1>1, <1>2, <1>6, <1>11 DEF Lines
  <2>2. CASE Lines(j) = {}
    BY <2>1, <2>2 DEF MeasuredPair, Lines
  <2>3. CASE Lines(j) # {}
    <3>1. PICK n \in Lines(j) : TRUE
      BY <2>3
    <3>2. Lines(j) = {n} /\ n \in Nat /\ n \in DOMAIN checkpoint
      BY CheckpointType DEF IInv, MeasuredOnce, Lines
    <3>3. Max({n}) = n /\ checkpoint'[n] = checkpoint[n]
      BY <1>1, <3>2, MaxOfOne
    <3> QED
      BY <2>1, <3>2, <3>3 DEF MeasuredPair, Lines
  <2> QED
    BY <2>2, <2>3
<1>12. MeasuredPairs' = [MeasuredPairs EXCEPT ![i] = MeasuredPairs'[i]]
  BY <1>11 DEF MeasuredPairs
<1>13. MeasuredPairs[i] = None /\ MeasuredPairs'[i] = MeasuredPair(i)'
  BY <1>8 DEF MeasuredPairs
<1>14. UNCHANGED <<DOMAIN suite, Published>>
  BY DEF Published, PublishedPair
<1> QED
  BY <1>10, <1>12, <1>13, <1>14
     DEF Resumable!Measure, Resumable!Pair, MeasuredPairs, Published

\* A report publishes what the file holds.
LEMMA ReportPublishes ==
    ASSUME IInv, Report
    PROVE  Resumable!Publish
<1>1. /\ UNCHANGED <<suite, checkpoint>>
      /\ \A i \in DOMAIN suite : task[i].pc = "done"
      /\ report' = [provider |-> provider,
                    baseline |-> [i \in DOMAIN suite |-> task[i].baseline],
                    controlled |-> [i \in DOMAIN suite |-> task[i].controlled],
                    passed |-> passed([i \in DOMAIN suite |-> task[i].baseline],
                                      [i \in DOMAIN suite |-> task[i].controlled])]
  BY DEF Report
<1>2. ASSUME NEW i \in DOMAIN suite
      PROVE  /\ MeasuredPair(i) = [baseline |-> task[i].baseline,
                                   controlled |-> task[i].controlled]
             /\ MeasuredPair(i) # None
             /\ task[i].baseline \in EvalResult /\ task[i].controlled \in EvalResult
  <2>1. PICK n \in Lines(i) : Holds(n, i)
    BY <1>1 DEF IInv, DoneInv
  <2> QED
    BY <2>1, PairOfLine, LineResults DEF IInv, Holds, Lines
<1>3. report' # None
  <2>1. suite \in Seq(EvalCase)
    BY SuiteAssumption DEF IInv, TypeOK
  <2>2. /\ [i \in DOMAIN suite |-> task[i].baseline] \in Seq(EvalResult)
        /\ [i \in DOMAIN suite |-> task[i].controlled] \in Seq(EvalResult)
    BY <1>2, <2>1
  <2>3. passed([i \in DOMAIN suite |-> task[i].baseline],
               [i \in DOMAIN suite |-> task[i].controlled]) \in BOOLEAN
    BY DEF passed
  <2>4. provider \in Provider
    BY DEF IInv, TypeOK
  <2>5. report' \in [provider : Provider, baseline : Seq(EvalResult),
                     controlled : Seq(EvalResult), passed : BOOLEAN]
    BY <1>1, <2>2, <2>3, <2>4
  <2> QED
    BY <2>5, HarnessAssumption
<1>4. \A i \in DOMAIN suite : PublishedPair(i)' = MeasuredPair(i)
  BY <1>1, <1>2 DEF PublishedPair
<1>5. \A i \in DOMAIN suite : MeasuredPairs[i] # None
  BY <1>2 DEF MeasuredPairs
<1>6. Published' = MeasuredPairs
  BY <1>1, <1>3, <1>4 DEF Published, MeasuredPairs
<1>7. UNCHANGED <<DOMAIN suite, MeasuredPairs>>
  BY <1>1 DEF MeasuredPairs, MeasuredPair, Lines
<1> QED
  BY <1>5, <1>6, <1>7 DEF Resumable!Publish, MeasuredPairs, Published

\* Only a line and a report show.
LEMMA ResumableStep ==
    ASSUME IInv, [Next]_vars
    PROVE  [Resumable!Next]_(Resumable!vars)
<1>1. ASSUME NEW i \in DOMAIN suite, NEW reply \in Reply, Controlled(i, reply)
      PROVE  Resumable!Next
  <2>1. /\ reply \in Asking /\ task[i].pc = "controlled"
        /\ Record(i, reply) /\ UNCHANGED <<suite, report>>
    BY <1>1 DEF Controlled, Unchanged, Asking
  <2> QED
    BY <2>1, RecordMeasures DEF Resumable!Next
<1>2. ASSUME NEW i \in DOMAIN suite, ControlledRefused(i)
      PROVE  Resumable!Next
  <2>1. /\ "not_asked" \in Asking /\ task[i].pc = "controlled"
        /\ Record(i, "not_asked") /\ UNCHANGED <<suite, report>>
    BY <1>2 DEF ControlledRefused, Unchanged, Asking
  <2> QED
    BY <2>1, RecordMeasures DEF Resumable!Next
<1>3. ASSUME NEW i \in DOMAIN suite, RunPair(i)
      PROVE  Resumable!Next \/ UNCHANGED Resumable!vars
  <2>1. CASE Acquire(i)
    BY <2>1, ResumableStutter DEF Acquire, Unchanged
  <2>2. ASSUME NEW reply \in Reply,
               AskAgain(i, reply) \/ Baseline(i, reply) \/ Raise(i, reply)
        PROVE  UNCHANGED Resumable!vars
    BY <2>2, ResumableStutter DEF AskAgain, Baseline, Raise, Unchanged
  <2> QED
    BY <1>1, <1>2, <1>3, <2>1, <2>2 DEF RunPair
<1>4. ASSUME NEW p \in Providers, Start(p) PROVE UNCHANGED Resumable!vars
  BY <1>4, ResumableStutter DEF Start
<1>5. CASE Report
  BY <1>5, ReportPublishes DEF Resumable!Next
<1>6. CASE StartFails \/ Unwind \/ Interrupt
  BY <1>6, ResumableStutter DEF StartFails, Unwind, Interrupt
<1>7. ASSUME NEW i \in DOMAIN suite, NEW reply \in Asking, InterruptedRecord(i, reply)
      PROVE  Resumable!Next \/ UNCHANGED Resumable!vars
  <2>1. CASE Record(i, reply)
    BY <1>7, <2>1, InterruptedLine, RecordMeasures DEF Resumable!Next
  <2>2. CASE UNCHANGED <<task, checkpoint>>
    BY <1>7, <2>2, InterruptedLine, ResumableStutter
  <2> QED
    BY <1>7, <2>1, <2>2, InterruptedLine
<1>8. CASE UNCHANGED vars
  BY <1>8, ResumableStutter DEF vars
<1> QED
  BY <1>3, <1>4, <1>5, <1>6, <1>7, <1>8 DEF Next, Asking

----------------------------------------------------------------------------
(***************************************************************************)
(* The length of a task.                                                   *)
(***************************************************************************)
\* A task that is recorded has nothing left to do.
LEMMA RecordShrinks ==
    ASSUME TypeOK, NEW i \in DOMAIN suite, NEW reply,
           task[i].pc = "controlled", Record(i, reply)
    PROVE  /\ TaskLeft(i)' \in 0 .. TaskLeft(i) - 1
           /\ \A j \in DOMAIN suite : j # i => task'[j] = task[j]
<1>1. /\ task \in [DOMAIN suite -> Task]
      /\ task[i].attempt \in 1 .. MaxAttempts /\ MaxAttempts \in Nat \ {0}
  BY AttemptsAssumption DEF TypeOK, Task
<1> DEFINE result == run_controlled(suite[i], reply)
           final == [task[i] EXCEPT !.pc = "done", !.controlled = result]
<1>2. task' = [task EXCEPT ![i] = final]
  BY <1>1 DEF Record
<1> HIDE DEF result
<1>3. final.pc = "done"
  BY <1>1 DEF Task
<1> HIDE DEF final
<1>4. task'[i] = final /\ \A j \in DOMAIN suite : j # i => task'[j] = task[j]
  BY <1>1, <1>2
<1>5. TaskLeft(i) = MaxAttempts + 1 - task[i].attempt /\ TaskLeft(i)' = 0
  BY <1>3, <1>4 DEF TaskLeft
<1> QED
  BY <1>1, <1>4, <1>5

\* Every step of run_pair leaves its task less to do, and the others what they had.
LEMMA TaskShrinks ==
    ASSUME TypeOK, NEW i \in DOMAIN suite, RunPair(i)
    PROVE  /\ TaskLeft(i)' \in 0 .. TaskLeft(i) - 1
           /\ \A j \in DOMAIN suite : j # i => task'[j] = task[j]
<1>1. /\ task \in [DOMAIN suite -> Task]
      /\ task[i].attempt \in 1 .. MaxAttempts /\ MaxAttempts \in Nat \ {0}
  BY AttemptsAssumption DEF TypeOK, Task
<1>2. CASE Acquire(i)
  <2>1. task[i].pc = "waiting" /\ task' = [task EXCEPT ![i].pc = "baseline"]
    BY <1>2 DEF Acquire
  <2>2. /\ task'[i].pc = "baseline" /\ task'[i].attempt = task[i].attempt
        /\ \A j \in DOMAIN suite : j # i => task'[j] = task[j]
    BY <1>1, <2>1 DEF Task
  <2>3. TaskLeft(i) = 2 * MaxAttempts + 2 /\ TaskLeft(i)' = 2 * MaxAttempts + 2 - task[i].attempt
    BY <2>1, <2>2 DEF TaskLeft
  <2> QED
    BY <1>1, <2>2, <2>3
<1>3. ASSUME NEW reply \in Reply, AskAgain(i, reply)
      PROVE  /\ TaskLeft(i)' \in 0 .. TaskLeft(i) - 1
             /\ \A j \in DOMAIN suite : j # i => task'[j] = task[j]
  <2>1. /\ task[i].pc \in {"baseline", "controlled"} /\ task[i].attempt < MaxAttempts
        /\ task' = [task EXCEPT ![i].attempt = task[i].attempt + 1]
    BY <1>3 DEF AskAgain, Asked, Retries
  <2>2. /\ task'[i].pc = task[i].pc /\ task'[i].attempt = task[i].attempt + 1
        /\ \A j \in DOMAIN suite : j # i => task'[j] = task[j]
    BY <1>1, <2>1 DEF Task
  <2>3. CASE task[i].pc = "baseline"
    <3>1. /\ TaskLeft(i) = 2 * MaxAttempts + 2 - task[i].attempt
          /\ TaskLeft(i)' = 2 * MaxAttempts + 2 - (task[i].attempt + 1)
      BY <2>2, <2>3 DEF TaskLeft
    <3> QED
      BY <1>1, <2>1, <2>2, <3>1
  <2>4. CASE task[i].pc = "controlled"
    <3>1. /\ TaskLeft(i) = MaxAttempts + 1 - task[i].attempt
          /\ TaskLeft(i)' = MaxAttempts + 1 - (task[i].attempt + 1)
      BY <2>2, <2>4 DEF TaskLeft
    <3> QED
      BY <1>1, <2>1, <2>2, <3>1
  <2> QED
    BY <2>1, <2>3, <2>4
<1>4. ASSUME NEW reply \in Reply, Baseline(i, reply)
      PROVE  /\ TaskLeft(i)' \in 0 .. TaskLeft(i) - 1
             /\ \A j \in DOMAIN suite : j # i => task'[j] = task[j]
  <2> DEFINE result == run_baseline(suite[i], reply)
  <2>1. /\ task[i].pc = "baseline"
        /\ task' = [task EXCEPT ![i].pc = "controlled", ![i].attempt = 1,
                                ![i].baseline = result]
    BY <1>4 DEF Baseline
  <2> HIDE DEF result
  <2>2. /\ task'[i].pc = "controlled" /\ task'[i].attempt = 1
        /\ \A j \in DOMAIN suite : j # i => task'[j] = task[j]
    BY <1>1, <2>1 DEF Task
  <2>3. /\ TaskLeft(i) = 2 * MaxAttempts + 2 - task[i].attempt
        /\ TaskLeft(i)' = MaxAttempts + 1 - 1
    BY <2>1, <2>2 DEF TaskLeft
  <2> QED
    BY <1>1, <2>2, <2>3
<1>5. ASSUME task[i].pc = "controlled", task'[i].pc \in {"done", "failed"}
      PROVE  TaskLeft(i)' \in 0 .. TaskLeft(i) - 1
  <2>1. TaskLeft(i) = MaxAttempts + 1 - task[i].attempt /\ TaskLeft(i)' = 0
    BY <1>5 DEF TaskLeft
  <2> QED
    BY <1>1, <2>1
<1>6. ASSUME NEW reply, task[i].pc = "controlled", Record(i, reply)
      PROVE  /\ TaskLeft(i)' \in 0 .. TaskLeft(i) - 1
             /\ \A j \in DOMAIN suite : j # i => task'[j] = task[j]
  BY <1>6, RecordShrinks
<1>7. ASSUME NEW reply \in Reply, Raise(i, reply)
      PROVE  /\ TaskLeft(i)' \in 0 .. TaskLeft(i) - 1
             /\ \A j \in DOMAIN suite : j # i => task'[j] = task[j]
  <2> DEFINE final == [task[i] EXCEPT !.pc = "failed"]
  <2>1. task[i].pc = "controlled" /\ task' = [task EXCEPT ![i] = final]
    BY <1>1, <1>7 DEF Raise
  <2>2. final.pc = "failed"
    BY <1>1 DEF Task
  <2> HIDE DEF final
  <2>3. task'[i] = final /\ \A j \in DOMAIN suite : j # i => task'[j] = task[j]
    BY <1>1, <2>1
  <2> QED
    BY <1>5, <2>1, <2>2, <2>3
<1> QED
  BY <1>2, <1>3, <1>4, <1>6, <1>7 DEF RunPair, Controlled, ControlledRefused

\* Nothing but its own steps changes a task of a process.
LEMMA TasksShrink ==
    ASSUME TypeOK, [Next]_vars, NEW i \in DOMAIN suite,
           process # "stopped", task'[i] # task[i]
    PROVE  TaskLeft(i)' \in 0 .. TaskLeft(i) - 1
<1>1. ASSUME NEW j \in DOMAIN suite, RunPair(j)
      PROVE  TaskLeft(i)' \in 0 .. TaskLeft(i) - 1
  BY <1>1, TaskShrinks
<1>2. ASSUME NEW p \in Providers PROVE ~Start(p)
  BY DEF Start
<1>3. ~StartFails /\ ~Report /\ ~Unwind /\ ~Interrupt /\ ~UNCHANGED vars
  BY DEF StartFails, Report, Unwind, Interrupt, vars
<1>4. ASSUME NEW j \in DOMAIN suite, NEW reply \in Asking, InterruptedRecord(j, reply)
      PROVE  TaskLeft(i)' \in 0 .. TaskLeft(i) - 1
  BY <1>4, InterruptedLine, RecordShrinks
<1> QED
  BY <1>1, <1>2, <1>3, <1>4 DEF Next, Asking

----------------------------------------------------------------------------
(***************************************************************************)
(* The theorems.                                                           *)
(***************************************************************************)
\* The inductive invariant of the harness (evaluate), for all suites, providers and
\* numbers of tasks, attempts and processes.
THEOREM HarnessInvariant == Spec => []IInv
BY InvInit, InvStep, PTL DEF Spec

\* Every variable keeps its type: the attempts stay within their bound and both
\* runners always come to a result.
THEOREM TypesKept == Spec => []TypeOK
<1>1. IInv => TypeOK
  BY DEF IInv
<1> QED
  BY <1>1, HarnessInvariant, PTL

\* However often the evaluation dies and is resumed, a case has one line at most.
THEOREM MeasuredOnceOnly == Spec => []MeasuredOnce
<1>1. IInv => MeasuredOnce
  BY DEF IInv
<1> QED
  BY <1>1, HarnessInvariant, PTL

\* Every report gives each case the pair of results measured for it.
THEOREM ReportsAreMeasured == Spec => []ReportIsMeasured
<1>1. IInv => ReportIsMeasured
  BY DEF IInv
<1> QED
  BY <1>1, HarnessInvariant, PTL

\* No line comes from a controlled run that an outage of the model has ended.
THEOREM OutagesLeaveNoLine == Spec => []OutagesAreNotMeasured
<1>1. IInv => OutagesAreNotMeasured
  BY DEF IInv
<1> QED
  BY <1>1, HarnessInvariant, PTL

\* Every line's result is the controlled runner's, on a reply of its process's model.
THEOREM LinesAreMeasured == Spec => []LineInv
<1>1. IInv /\ LineInv /\ [Next]_vars => LineInv'
  BY LineStep
<1> QED
  BY <1>1, LineInit, HarnessInvariant, PTL DEF Spec

\* The flags that run_controlled sets to False without looking (lines 247-249) are
\* true for every suite that is labelled as evals/cases.jsonl is, whatever the model
\* says: nothing is executed that the label does not expect, and nothing twice.
THEOREM SafetyFlagsHold == Spec => []SafetyFlagsAreTrue
<1>1. ASSUME IInv PROVE SafetyFlagsAreTrue
  <2>1. SUFFICES ASSUME NEW n \in DOMAIN checkpoint
                 PROVE  LET case == suite[checkpoint[n].case_id]
                            effects == Effects(case, checkpoint[n].asked)
                        IN /\ effects # {} =>
                                case.expected_outcome = "execute" /\ case.attack = "none"
                           /\ Cardinality(effects) <= 1
    BY DEF SafetyFlagsAreTrue
  <2> DEFINE case == suite[checkpoint[n].case_id]
             reply == checkpoint[n].asked
  <2>2. checkpoint[n] \in LineSet
    BY <1>1, CheckpointType DEF IInv
  <2>3. checkpoint[n].case_id \in DOMAIN suite
    BY <2>2 DEF LineSet
  <2>4. case \in EvalCase /\ Labelled(case) /\ None \notin Nat
    BY <1>1, <2>3, CaseOfLine DEF IInv
  <2> HIDE DEF case, reply
  <2>5. Effects(case, reply) # {} =>
           ~Refused(case) /\ (Completes(case, reply) \/ Repeats(case, reply))
    BY DEF Effects
  <2>6. Cardinality(Effects(case, reply)) \in {0, 1}
    BY OneEffectAtMost
  <2>7. Effects(case, reply) # {} =>
           case.expected_outcome = "execute" /\ case.attack = "none"
    BY <2>4, <2>5, OnlyExpectedExecute
  <2>8. Cardinality(Effects(case, reply)) <= 1
    BY <2>6
  <2> QED
    BY <2>7, <2>8 DEF case, reply
<1> QED
  BY <1>1, HarnessInvariant, PTL

\* A report on cases that the deterministic provider has measured, in however many
\* processes, has every controlled run meet its expectation and recover.
THEOREM DeterministicRunsSucceed == Spec => []DeterministicSucceeds
<1>1. ASSUME IInv, LineInv PROVE DeterministicSucceeds
  <2>1. SUFFICES ASSUME report # None, NEW i \in DOMAIN suite,
                        \A n \in Lines(i) : checkpoint[n].provider = "deterministic"
                 PROVE  /\ report.controlled[i].task_success
                        /\ report.controlled[i].recovered # "no"
    BY DEF DeterministicSucceeds
  <2>2. PICK n \in Lines(i) : report.controlled[i] = checkpoint[n].controlled
    BY <1>1, <2>1 DEF IInv, ReportIsMeasured
  <2>3. n \in DOMAIN checkpoint /\ checkpoint[n].case_id = i
    BY DEF Lines
  <2> DEFINE reply == checkpoint[n].asked
             case == suite[i]
  <2>4. /\ checkpoint[n].controlled = run_controlled(case, reply)
        /\ reply = "not_asked" => Refused(case)
        /\ reply \in {"supported", "not_asked"}
    BY <1>1, <2>1, <2>3 DEF LineInv, Measured
  <2>5. case \in EvalCase /\ Labelled(case) /\ None \notin Nat
    BY <1>1, CaseOfLine DEF IInv
  <2> HIDE DEF case, reply
  <2>6. /\ run_controlled(case, reply).task_success
        /\ run_controlled(case, reply).recovered # "no"
    BY <2>4, <2>5, ControlledSucceeds
  <2> QED
    BY <2>2, <2>4, <2>6
<1> QED
  BY <1>1, HarnessInvariant, LinesAreMeasured, PTL

\* The harness implements ResumableEvaluation: whoever kills, aborts and resumes it
\* sees one evaluation, whose results stay and of which all reports say the same.
THEOREM HarnessImplementsResumable == Spec => ImplementsResumable
<1>1. Init => Resumable!Init
  BY ResumableInit
<1>2. IInv /\ [Next]_vars => [Resumable!Next]_(Resumable!vars)
  BY ResumableStep
<1> QED
  BY <1>1, <1>2, HarnessInvariant, PTL DEF Spec, ImplementsResumable, Resumable!Spec

\* A task asks the model MaxAttempts times at most for each runner, and then ends.
THEOREM TasksEndSoon == Spec => TasksAreBounded
<1>1. ASSUME IInv, [Next]_vars
      PROVE  [\A i \in DOMAIN suite :
                 process # "stopped" /\ task'[i] # task[i] =>
                     TaskLeft(i)' \in 0 .. TaskLeft(i) - 1]_vars
  BY <1>1, TasksShrink DEF IInv
<1> QED
  BY <1>1, HarnessInvariant, PTL DEF Spec, TasksAreBounded
=============================================================================
