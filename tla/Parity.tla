------------------------------- MODULE Parity -------------------------------
(***************************************************************************)
(* One event log fed to both implementations of replay: the accumulator of *)
(* the TypeScript loop (src/state.ts) and of the Python one (state.py).    *)
(* The log is raw, any typed events in any order and of any job: nothing   *)
(* validated it.                                                           *)
(***************************************************************************)
EXTENDS StatePy, Corpus

CONSTANT MaxLog  \* bound on the length of the log

VARIABLES log,    \* the events consumed so far
          tsJob,  \* job in replay() of state.ts, Illegal once it threw
          pyJob   \* job in replay() of state.py, Illegal once it raised

vars == <<log, tsJob, pyJob>>

Init == log = <<>> /\ tsJob = NoJob /\ pyJob = NoJob

StepPy(event) ==
  [job \in Outcome |-> IF job = Illegal THEN Illegal ELSE ApplyEventPy(job, event)]

\* Both loops take the next event.  Once both have thrown, both have ended.
Consume(event) ==
  /\ Len(log) < MaxLog
  /\ tsJob # Illegal \/ pyJob # Illegal
  /\ log' = Append(log, event)
  /\ tsJob' = Step(event)[tsJob]
  /\ pyJob' = StepPy(event)[pyJob]

Next == \E event \in ArsEvent : Consume(event)
Spec == Init /\ [][Next]_vars

\* What replay returns when the log ends here: no job is an error in both.
Result(job) == IF job = NoJob THEN Illegal ELSE job

-----------------------------------------------------------------------------
\* The three variables keep their shape.
TypeOK ==
  /\ log \in Seq(ArsEvent)
  /\ tsJob \in Job \cup {NoJob, Illegal}
  /\ pyJob \in Job \cup {NoJob, Illegal}

\* Both sides replay the same log to the same Job, or both throw
\* (state.py, "should produce an identical Job").
ReplaysAgree == Result(tsJob) = Result(pyJob)

\* replay accepts exactly the logs of the lifecycle grammar: it throws on
\* every other order of events, and on no legal one.
AcceptsExactlyLegalLogs == Result(tsJob) # Illegal <=> LegalLog(log)

\* conformance.py, "behavioural corpus", on both folds: a log of the corpus
\* gives the job the corpus expects, or fails where it must.
CorpusReplaysAsExpected ==
  /\ \A v \in STATE_VECTORS :
       log = v.log =>
         \A job \in {Result(tsJob), Result(pyJob)} :
           /\ job \in Job
           /\ job.state = v.expected_state
           /\ job.releasedAtomic = v.expected_released_atomic
  /\ log \in ILLEGAL_VECTORS => Result(tsJob) = Illegal /\ Result(pyJob) = Illegal
=============================================================================
