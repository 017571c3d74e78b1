------------------------------ MODULE StatePy ------------------------------
(***************************************************************************)
(* apply_event and replay of python/src/telaro_ars/state.py, guard by      *)
(* guard in the order of that file, to be compared with ApplyEvent and     *)
(* Replay, which follow src/state.ts.  A guard that raises is a disjunct   *)
(* of Raises, read with the ones above it already passed.                  *)
(***************************************************************************)
EXTENDS ArsState

\* is_terminal, over _TERMINAL
IsTerminalPy(state) == state \in {"REJECTED", "CLOSED"}

\* raise ARSTransitionError(...)
RaisesPy(job, event) ==
  IF event.type = "JobOpened" THEN job # NoJob
  ELSE \/ job = NoJob
       \/ job.jobId # event.jobId
       \/ IsTerminalPy(job.state)
       \/ event.type = "UnderwritingStarted" /\ job.state # "AWAIT_UNDERWRITING"
       \/ event.type = "UnderwritingDecided" /\ job.state # "UNDERWRITING"
       \/ event.type = "PrincipalReleased"
            /\ job.state \notin {"RELEASABLE", "EXECUTING"}
       \/ event.type = "EvidenceSubmitted" /\ job.state # "EXECUTING"
       \/ event.type = "Disputed" /\ job.state # "EVIDENCE_SUBMITTED"
       \/ event.type = "Closed"
            /\ job.state \notin {"EVIDENCE_SUBMITTED", "DISPUTED"}
       \/ event.type \notin ArsEventTypes

\* return Job(...)
OpenedJobPy(event) ==
  [jobId |-> event.jobId, terms |-> event.terms, state |-> "AWAIT_UNDERWRITING",
   releasedAtomic |-> 0, lastEventAt |-> event.at]

\* _to(state, **patch)
ToPyUnpatched(job, event, state, released) ==
  [job EXCEPT !.state = state, !.lastEventAt = event.at]
ToPy(job, event, state, released) ==
  [job EXCEPT !.state = state, !.releasedAtomic = released,
              !.lastEventAt = event.at]

ApplyEventPy(job, event) ==
  IF RaisesPy(job, event) THEN Illegal
  ELSE CASE event.type = "JobOpened" -> OpenedJobPy(event)
         [] event.type = "UnderwritingStarted" ->
              ToPy(job, event, "UNDERWRITING", job.releasedAtomic)
         [] event.type = "UnderwritingDecided" /\ event.passed ->
              ToPy(job, event, "RELEASABLE", job.releasedAtomic)
         [] event.type = "UnderwritingDecided" /\ ~ event.passed ->
              ToPy(job, event, "REJECTED", job.releasedAtomic)
         [] event.type = "PrincipalReleased" ->
              ToPy(job, event, "EXECUTING",
                   job.releasedAtomic + event.amountAtomic)
         [] event.type = "EvidenceSubmitted" ->
              ToPy(job, event, "EVIDENCE_SUBMITTED", job.releasedAtomic)
         [] event.type = "Disputed" ->
              ToPy(job, event, "DISPUTED", job.releasedAtomic)
         [] event.type = "Closed" ->
              ToPy(job, event, "CLOSED", job.releasedAtomic)
=============================================================================
