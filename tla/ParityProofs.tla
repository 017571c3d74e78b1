---------------------------- MODULE ParityProofs ----------------------------
(***************************************************************************)
(* The two implementations of replay agree on every log of typed events,   *)
(* of any length and over any jobs.                                        *)
(***************************************************************************)
EXTENDS Parity, ArsStateProofs

\* On a job that the loop can hold, applyEvent yields a job or throws.
LEMMA ApplyIsOutcome ==
  ASSUME NEW job \in Job \cup {NoJob}, NEW event \in ArsEvent
  PROVE  ApplyEvent(job, event) \in Job \cup {Illegal}
PROOF
  <1>1. CASE job = NoJob  BY <1>1, ApplyFirst
  <1>2. CASE job \in Job
    <2>1. CASE /\ event.type # "JobOpened" /\ job.jobId = event.jobId
               /\ ~ IsTerminal(job.state) /\ job.state \in AllowedIn[event.type]
      BY <1>2, <2>1, ApplyAccepted
    <2>2. CASE event.type = "JobOpened"
      BY <1>2, <2>2, NoJobAssumption DEF ApplyEvent
    <2>3. CASE /\ event.type # "JobOpened"
               /\ ~ (job.jobId = event.jobId /\ ~ IsTerminal(job.state)
                       /\ job.state \in AllowedIn[event.type])
      <3>1. event.type \in DOMAIN AllowedIn
        BY <2>3, EventTypes DEF AllowedIn, ArsEventTypes
      <3>. QED  BY <1>2, <2>3, <3>1 DEF ApplyEvent, Addressed
    <2>. QED  BY <2>1, <2>2, <2>3
  <1>. QED  BY <1>1, <1>2

\* The guards of apply_event, in its own order, raise exactly when those of
\* applyEvent do.
LEMMA SameGuards ==
  ASSUME NEW job \in Job \cup {NoJob}, NEW event \in ArsEvent
  PROVE  RaisesPy(job, event) <=>
           IF event.type = "JobOpened" THEN job # NoJob
           ELSE ~ (Addressed(job, event) /\ job.state \in AllowedIn[event.type])
PROOF
  BY EventTypes
     DEF RaisesPy, IsTerminalPy, IsTerminal, Addressed, AllowedIn, DrawStates,
         CloseStates, ArsEventTypes

\* One typed event takes both to the same job.
LEMMA SameStep ==
  ASSUME NEW job \in Job \cup {NoJob}, NEW event \in ArsEvent
  PROVE  ApplyEventPy(job, event) = ApplyEvent(job, event)
PROOF
  <1>1. CASE event.type = "JobOpened"
    BY <1>1, SameGuards DEF ApplyEventPy, ApplyEvent, OpenedJobPy, OpenedJob
  <1>2. CASE event.type # "JobOpened"
    <2>1. event.type \in DOMAIN AllowedIn
      BY <1>2, EventTypes DEF AllowedIn, ArsEventTypes
    <2>2. CASE ~ (Addressed(job, event) /\ job.state \in AllowedIn[event.type])
      <3>1. ApplyEventPy(job, event) = Illegal
        BY <1>2, <2>2, SameGuards DEF ApplyEventPy
      <3>2. ApplyEvent(job, event) = Illegal
        BY <1>2, <2>1, <2>2 DEF ApplyEvent
      <3>. QED  BY <3>1, <3>2
    <2>3. CASE Addressed(job, event) /\ job.state \in AllowedIn[event.type]
      <3>1. job \in Job  BY <2>3 DEF Addressed
      <3>2. ApplyEvent(job, event) = ToPy(job, event, Target(event), ReleasedWith(job, event))
        BY <1>2, <2>1, <2>3 DEF ApplyEvent, ToPy
      <3>3. ~ RaisesPy(job, event)  BY <1>2, <2>3, SameGuards
      <3>4. job.releasedAtomic + 0 = job.releasedAtomic  BY <3>1 DEF Job
      <3>5. ApplyEventPy(job, event) = ToPy(job, event, Target(event), ReleasedWith(job, event))
        BY <1>2, <3>3, <3>4, EventTypes
           DEF ApplyEventPy, Target, ReleasedWith, AmountOf, ArsEventTypes
      <3>. QED  BY <3>2, <3>5
    <2>. QED  BY <2>2, <2>3
  <1>. QED  BY <1>1, <1>2

-----------------------------------------------------------------------------
(***************************************************************************)
(* The inductive invariant: both accumulators are the fold over the log.   *)
(***************************************************************************)
IInv ==
  /\ log \in Seq(ArsEvent)
  /\ tsJob \in Outcome
  /\ tsJob = Fold(log)[Len(log)]
  /\ pyJob = tsJob

LEMMA NextIInv == IInv /\ [Next]_vars => IInv'
PROOF
  <1>. SUFFICES ASSUME IInv, [Next]_vars PROVE IInv'
    OBVIOUS
  <1>1. ASSUME NEW event \in ArsEvent, Consume(event) PROVE IInv'
    <2>1. /\ log' = Append(log, event)
          /\ tsJob' = Step(event)[tsJob] /\ pyJob' = StepPy(event)[pyJob]
      BY <1>1 DEF Consume
    <2>2. log' \in Seq(ArsEvent) /\ Len(log') = Len(log) + 1
      BY <2>1 DEF IInv
    <2>3. tsJob' = Fold(log')[Len(log')]
      BY <2>1, <2>2, FoldAppend DEF IInv
    <2>4. CASE tsJob = Illegal
      BY <2>1, <2>2, <2>3, <2>4 DEF IInv, Step, StepPy, Outcome
    <2>5. CASE tsJob \in Job \cup {NoJob}
      <3>1. tsJob' = ApplyEvent(tsJob, event)
        BY <2>1, <2>5, StepApplies
      <3>2. pyJob' = ApplyEventPy(tsJob, event)
        BY <2>1, <2>5, NoJobAssumption DEF IInv, StepPy, Outcome
      <3>3. tsJob' \in Outcome
        BY <2>5, <3>1, ApplyIsOutcome DEF Outcome
      <3>4. pyJob' = tsJob'
        BY <2>5, <3>1, <3>2, SameStep
      <3>. QED  BY <2>2, <2>3, <3>3, <3>4 DEF IInv
    <2>. QED  BY <2>4, <2>5 DEF IInv, Outcome
  <1>2. ASSUME UNCHANGED vars PROVE IInv'
    BY <1>2 DEF vars, IInv
  <1>. QED  BY <1>1, <1>2 DEF Next

LEMMA SpecIInv == Spec => []IInv
PROOF
  <1>1. Init => IInv
    <2>. SUFFICES ASSUME Init PROVE IInv
      OBVIOUS
    <2>1. log = <<>> /\ tsJob = NoJob /\ pyJob = NoJob  BY DEF Init
    <2>2. log \in Seq(ArsEvent) /\ Len(log) = 0  BY <2>1
    <2>3. Fold(log)[0] = NoJob  BY <2>2, FoldSteps
    <2>. QED  BY <2>1, <2>2, <2>3 DEF IInv, Outcome
  <1>. QED  BY <1>1, NextIInv, PTL DEF Spec

\* The variables keep their shape.
THEOREM SpecTypeOK == Spec => []TypeOK
PROOF
  <1>1. IInv => TypeOK  BY DEF IInv, TypeOK, Outcome
  <1>. QED  BY <1>1, SpecIInv, PTL

\* Both sides replay every typed log to the same job, or both throw.
THEOREM SpecReplaysAgree == Spec => []ReplaysAgree
PROOF
  <1>1. IInv => ReplaysAgree  BY DEF IInv, ReplaysAgree
  <1>. QED  BY <1>1, SpecIInv, PTL

\* Both accept exactly the logs of the lifecycle grammar.
THEOREM SpecAcceptsExactlyLegalLogs == Spec => []AcceptsExactlyLegalLogs
PROOF
  <1>1. IInv => AcceptsExactlyLegalLogs
    <2>. SUFFICES ASSUME IInv PROVE Result(tsJob) # Illegal <=> LegalLog(log)
      BY DEF AcceptsExactlyLegalLogs
    <2>1. Result(tsJob) = Replay(log)
      BY DEF IInv, Result, Replay
    <2>. QED  BY <2>1, ReplayAcceptsLegalLogs DEF IInv
  <1>. QED  BY <1>1, SpecIInv, PTL
-----------------------------------------------------------------------------
(***************************************************************************)
(* The corpus of conformance.py, replayed by proof.                        *)
(***************************************************************************)
\* replay ends such a log on the corpus's job, in this state, with this much
\* released.
ReplaysTo(events, state, released) ==
  /\ events \in Seq(ArsEvent)
  /\ LET job == Fold(events)[Len(events)]
     IN  job \in Job /\ job.jobId = j1 /\ job.state = state /\ job.releasedAtomic = released

\* Every event of the corpus is a typed event.
LEMMA CorpusEvents ==
  /\ \A terms \in {large, small} : Opened(terms) \in ArsEvent
  /\ \A j \in {j1, ghost} : Plain("UnderwritingStarted", j) \in ArsEvent
  /\ \A passed \in BOOLEAN : Decided(passed) \in ArsEvent
  /\ \A amount \in {1, 2} : Release(amount) \in ArsEvent
  /\ \A outcome \in {"success", "failed"} : Evidence(outcome) \in ArsEvent
  /\ Dispute \in ArsEvent
  /\ \A resolution \in Resolutions : Closing(resolution) \in ArsEvent
PROOF
  BY CorpusAssumption
     DEF Opened, Plain, Decided, Release, Evidence, Dispute, Closing, ArsEvent,
         JobOpened, UnderwritingStarted, UnderwritingDecided, PrincipalReleased,
         EvidenceSubmitted, Disputed, Closed, Of

\* The opening event alone opens the job.
LEMMA OpeningReplays ==
  ASSUME NEW terms \in {large, small}
  PROVE  ReplaysTo(<<Opened(terms)>>, "AWAIT_UNDERWRITING", 0)
PROOF
  <1>1. Opened(terms) \in ArsEvent  BY CorpusEvents
  <1>2. <<Opened(terms)>> \in Seq(ArsEvent) /\ Len(<<Opened(terms)>>) = 1
    BY <1>1
  <1>3. Fold(<<Opened(terms)>>)[1] = Step(Opened(terms))[NoJob]
    <2>. DEFINE first == <<Opened(terms)>>
    <2>1. first[1] = Opened(terms) /\ 1 \in 1 .. Len(first)  BY <1>2
    <2>. HIDE DEF first
    <2>2. first \in Seq(ArsEvent)  BY <1>2 DEF first
    <2>3. /\ Fold(first)[0] = NoJob
          /\ \A n \in 1 .. Len(first) : Fold(first)[n] = Step(first[n])[Fold(first)[n - 1]]
      BY <2>2, FoldSteps
    <2>4. Fold(first)[1] = Step(first[1])[Fold(first)[1 - 1]]  BY <2>1, <2>3
    <2>. QED  BY <2>1, <2>3, <2>4 DEF first
  <1>4. Fold(<<Opened(terms)>>)[1] = OpenedJob(Opened(terms))
    BY <1>1, <1>3, StepApplies, ApplyFirst DEF Opened
  <1>5. /\ OpenedJob(Opened(terms)) \in Job
        /\ OpenedJob(Opened(terms)).jobId = j1
        /\ OpenedJob(Opened(terms)).state = "AWAIT_UNDERWRITING"
        /\ OpenedJob(Opened(terms)).releasedAtomic = 0
    <2>1. OpenedJob(Opened(terms)) \in Job
      BY <1>1, ApplyFirst DEF Opened
    <2>. QED  BY <2>1 DEF OpenedJob, Opened
  <1>. QED  BY <1>2, <1>4, <1>5 DEF ReplaysTo

\* A legal event of the corpus's job takes the replay on.
LEMMA EventReplays ==
  ASSUME NEW events, NEW state, NEW released, ReplaysTo(events, state, released),
         NEW event \in ArsEvent, event.type # "JobOpened", event.jobId = j1,
         ~ IsTerminal(state), state \in AllowedIn[event.type]
  PROVE  ReplaysTo(Append(events, event), Target(event), released + AmountOf(event))
PROOF
  <1>. DEFINE job == Fold(events)[Len(events)]
              longer == Append(events, event)
  <1>1. events \in Seq(ArsEvent) /\ job \in Job /\ job.jobId = j1
          /\ job.state = state /\ job.releasedAtomic = released
    BY DEF ReplaysTo
  <1>2. longer \in Seq(ArsEvent) /\ Len(longer) = Len(events) + 1
    BY <1>1
  <1>3. Fold(longer)[Len(longer)] = ApplyEvent(job, event)
    BY <1>1, <1>2, FoldAppend, StepApplies
  <1>4. /\ ApplyEvent(job, event) \in Job
        /\ ApplyEvent(job, event).jobId = j1
        /\ ApplyEvent(job, event).state = Target(event)
        /\ ApplyEvent(job, event).releasedAtomic = released + AmountOf(event)
    BY <1>1, ApplyAccepted DEF ReplaysTo, ReleasedWith
  <1>. QED  BY <1>2, <1>3, <1>4 DEF ReplaysTo

\* The three events of underwriting, whatever the decision.
LEMMA UnderwritingReplays ==
  ASSUME NEW passed \in BOOLEAN
  PROVE  ReplaysTo(Underwritten(large, passed),
                   IF passed THEN "RELEASABLE" ELSE "REJECTED", 0)
PROOF
  <1>. DEFINE started == Plain("UnderwritingStarted", j1)
              first == <<Opened(large)>>
              second == Append(first, started)
  <1>1. ReplaysTo(second, "UNDERWRITING", 0)
    <2>1. /\ started \in ArsEvent /\ started.type = "UnderwritingStarted"
          /\ started.jobId = j1
      BY CorpusEvents DEF Plain
    <2>2. Target(started) = "UNDERWRITING" /\ AmountOf(started) = 0
      BY <2>1 DEF Target, AmountOf
    <2>3. ~ IsTerminal("AWAIT_UNDERWRITING")
            /\ "AWAIT_UNDERWRITING" \in AllowedIn[started.type]
      BY <2>1 DEF IsTerminal, AllowedIn
    <2>4. ReplaysTo(second, Target(started), 0 + AmountOf(started))
      <3>. HIDE DEF started
      <3>. QED  BY <2>1, <2>3, OpeningReplays, EventReplays
    <2>. QED  BY <2>2, <2>4
  <1>2. ReplaysTo(Append(second, Decided(passed)),
                  IF passed THEN "RELEASABLE" ELSE "REJECTED", 0)
    <2>1. /\ Decided(passed) \in ArsEvent /\ Decided(passed).type = "UnderwritingDecided"
          /\ Decided(passed).jobId = j1 /\ Decided(passed).passed = passed
      BY CorpusEvents DEF Decided
    <2>2. /\ Target(Decided(passed)) = IF passed THEN "RELEASABLE" ELSE "REJECTED"
          /\ AmountOf(Decided(passed)) = 0
      BY <2>1 DEF Target, AmountOf
    <2>3. ~ IsTerminal("UNDERWRITING")
            /\ "UNDERWRITING" \in AllowedIn[Decided(passed).type]
      BY <2>1 DEF IsTerminal, AllowedIn
    <2>4. ReplaysTo(Append(second, Decided(passed)),
                    Target(Decided(passed)), 0 + AmountOf(Decided(passed)))
      <3>. HIDE DEF second
      <3>. QED  BY <1>1, <2>1, <2>3, EventReplays
    <2>. QED  BY <2>2, <2>4
  <1>3. Underwritten(large, passed) = Append(second, Decided(passed))
    BY DEF Underwritten
  <1>. QED  BY <1>2, <1>3

\* Adding a list of events adds them one by one.
LEMMA ConcatAsAppends ==
  ASSUME NEW S, NEW s \in Seq(S), NEW a \in S, NEW b \in S, NEW c \in S, NEW d \in S
  PROVE  /\ s \o <<a, b, c>> = Append(Append(Append(s, a), b), c)
         /\ s \o <<a, b, c, d>> = Append(Append(Append(Append(s, a), b), c), d)
PROOF
  OBVIOUS

\* One legal event after another.
LEMMA DrawReplays ==
  ASSUME NEW events, NEW state \in DrawStates, NEW released \in Nat,
         ReplaysTo(events, state, released), NEW amount \in {1, 2},
         NEW total, total = released + amount
  PROVE  ReplaysTo(Append(events, Release(amount)), "EXECUTING", total)
PROOF
  <1>1. /\ Release(amount) \in ArsEvent /\ Release(amount).type = "PrincipalReleased"
        /\ Release(amount).jobId = j1 /\ Release(amount).amountAtomic = amount
    BY CorpusEvents DEF Release
  <1>2. Target(Release(amount)) = "EXECUTING" /\ AmountOf(Release(amount)) = amount
    BY <1>1 DEF Target, AmountOf
  <1>3. ~ IsTerminal(state) /\ state \in AllowedIn[Release(amount).type]
    BY <1>1 DEF IsTerminal, AllowedIn, DrawStates
  <1>4. ReplaysTo(Append(events, Release(amount)), Target(Release(amount)),
                  released + AmountOf(Release(amount)))
    BY <1>1, <1>3, EventReplays
  <1>. QED  BY <1>2, <1>4

LEMMA EvidenceReplays ==
  ASSUME NEW events, NEW released \in Nat, ReplaysTo(events, "EXECUTING", released),
         NEW outcome \in {"success", "failed"}
  PROVE  ReplaysTo(Append(events, Evidence(outcome)), "EVIDENCE_SUBMITTED", released)
PROOF
  <1>1. /\ Evidence(outcome) \in ArsEvent /\ Evidence(outcome).type = "EvidenceSubmitted"
        /\ Evidence(outcome).jobId = j1
    BY CorpusEvents DEF Evidence
  <1>2. Target(Evidence(outcome)) = "EVIDENCE_SUBMITTED" /\ AmountOf(Evidence(outcome)) = 0
    BY <1>1 DEF Target, AmountOf
  <1>3. ~ IsTerminal("EXECUTING") /\ "EXECUTING" \in AllowedIn[Evidence(outcome).type]
    BY <1>1 DEF IsTerminal, AllowedIn
  <1>4. ReplaysTo(Append(events, Evidence(outcome)), Target(Evidence(outcome)),
                  released + AmountOf(Evidence(outcome)))
    BY <1>1, <1>3, EventReplays
  <1>. QED  BY <1>2, <1>4

LEMMA DisputeReplays ==
  ASSUME NEW events, NEW released \in Nat,
         ReplaysTo(events, "EVIDENCE_SUBMITTED", released)
  PROVE  ReplaysTo(Append(events, Dispute), "DISPUTED", released)
PROOF
  <1>1. Dispute \in ArsEvent /\ Dispute.type = "Disputed" /\ Dispute.jobId = j1
    BY CorpusEvents DEF Dispute
  <1>2. Target(Dispute) = "DISPUTED" /\ AmountOf(Dispute) = 0
    BY <1>1 DEF Target, AmountOf
  <1>3. /\ ~ IsTerminal("EVIDENCE_SUBMITTED")
        /\ "EVIDENCE_SUBMITTED" \in AllowedIn[Dispute.type]
    BY <1>1 DEF IsTerminal, AllowedIn
  <1>4. ReplaysTo(Append(events, Dispute), Target(Dispute), released + AmountOf(Dispute))
    BY <1>1, <1>3, EventReplays
  <1>. QED  BY <1>2, <1>4

LEMMA ClosingReplays ==
  ASSUME NEW events, NEW state \in CloseStates, NEW released \in Nat,
         ReplaysTo(events, state, released), NEW resolution \in Resolutions
  PROVE  ReplaysTo(Append(events, Closing(resolution)), "CLOSED", released)
PROOF
  <1>1. /\ Closing(resolution) \in ArsEvent /\ Closing(resolution).type = "Closed"
        /\ Closing(resolution).jobId = j1
    BY CorpusEvents DEF Closing
  <1>2. Target(Closing(resolution)) = "CLOSED" /\ AmountOf(Closing(resolution)) = 0
    BY <1>1 DEF Target, AmountOf
  <1>3. ~ IsTerminal(state) /\ state \in AllowedIn[Closing(resolution).type]
    BY <1>1 DEF IsTerminal, AllowedIn, CloseStates
  <1>4. ReplaysTo(Append(events, Closing(resolution)), Target(Closing(resolution)),
                  released + AmountOf(Closing(resolution)))
    BY <1>1, <1>3, EventReplays
  <1>. QED  BY <1>2, <1>4

\* Every state vector of the corpus replays to the job it expects.
LEMMA StateVectorsReplay ==
  \A v \in STATE_VECTORS :
    ReplaysTo(v.log, v.expected_state, v.expected_released_atomic)
PROOF
  <1>. DEFINE passed == Underwritten(large, TRUE)
              drawn == Append(passed, Release(2))
              done == Append(drawn, Evidence("success"))
              failed == Append(drawn, Evidence("failed"))
              disputed == Append(failed, Dispute)
  <1>1. ReplaysTo(<<Opened(large)>>, "AWAIT_UNDERWRITING", 0)
    BY OpeningReplays
  <1>2. ReplaysTo(Underwritten(large, FALSE), "REJECTED", 0)
    BY UnderwritingReplays
  <1>3. ReplaysTo(passed, "RELEASABLE", 0)
    BY UnderwritingReplays
  <1>4. ReplaysTo(Append(passed, Release(1)), "EXECUTING", 1)
    <2>. HIDE DEF passed
    <2>1. 1 = 0 + 1  OBVIOUS
    <2>. QED  BY <1>3, <2>1, DrawReplays DEF DrawStates
  <1>5. ReplaysTo(drawn, "EXECUTING", 2)
    <2>. HIDE DEF passed
    <2>1. 2 = 0 + 2  OBVIOUS
    <2>. QED  BY <1>3, <2>1, DrawReplays DEF DrawStates
  <1>. HIDE DEF passed, drawn
  <1>6. ReplaysTo(Append(done, Closing("no_dispute")), "CLOSED", 2)
    <2>1. ReplaysTo(done, "EVIDENCE_SUBMITTED", 2)
      BY <1>5, EvidenceReplays
    <2>. HIDE DEF done
    <2>. QED  BY <2>1, ClosingReplays DEF CloseStates, Resolutions
  <1>7. ReplaysTo(Append(disputed, Closing("dispute_upheld")), "CLOSED", 2)
    <2>1. ReplaysTo(failed, "EVIDENCE_SUBMITTED", 2)
      BY <1>5, EvidenceReplays
    <2>2. ReplaysTo(disputed, "DISPUTED", 2)
      <3>. HIDE DEF failed
      <3>. QED  BY <2>1, DisputeReplays
    <2>. HIDE DEF disputed
    <2>. QED  BY <2>2, ClosingReplays DEF CloseStates, Resolutions
  <1>8. /\ passed \o <<Release(2), Evidence("success"), Closing("no_dispute")>>
             = Append(done, Closing("no_dispute"))
        /\ passed \o <<Release(2), Evidence("failed"), Dispute, Closing("dispute_upheld")>>
             = Append(disputed, Closing("dispute_upheld"))
    <2>1. passed \in Seq(ArsEvent)  BY <1>3 DEF ReplaysTo
    <2>2. /\ Release(2) \in ArsEvent /\ Evidence("success") \in ArsEvent
          /\ Evidence("failed") \in ArsEvent /\ Dispute \in ArsEvent
          /\ Closing("no_dispute") \in ArsEvent /\ Closing("dispute_upheld") \in ArsEvent
      BY CorpusEvents DEF Resolutions
    <2>. QED  BY <2>1, <2>2, ConcatAsAppends DEF drawn
  <1>. DEFINE Good(v) == ReplaysTo(v.log, v.expected_state, v.expected_released_atomic)
  <1>9. \A events, state, released :
          ReplaysTo(events, state, released) => Good(Vector(events, state, released))
    BY DEF Vector
  <1>. HIDE DEF Good
  <1>10. \A v \in STATE_VECTORS : Good(v)
    BY <1>1, <1>2, <1>4, <1>6, <1>7, <1>8, <1>9 DEF STATE_VECTORS, passed
  <1>. QED  BY <1>10 DEF Good

\* No illegal vector of the corpus is a legal log.
LEMMA IllegalVectorsAreIllegal == \A events \in ILLEGAL_VECTORS : ~ LegalLog(events)
PROOF
  <1>1. ~ LegalLog(<<Opened(small), Release(1)>>)
    <2>. DEFINE events == <<Opened(small), Release(1)>>
    <2>1. /\ Len(events) = 2 /\ events[1].type = "JobOpened"
          /\ events[2].type = "PrincipalReleased"
      BY DEF Opened, Release
    <2>2. ~ MayFollow(events[2 - 1], events[2])
      BY <2>1 DEF MayFollow
    <2>. QED  BY <2>1, <2>2 DEF LegalLog
  <1>2. ~ LegalLog(<<Plain("UnderwritingStarted", ghost)>>)
    BY DEF LegalLog, Plain
  <1>3. ~ LegalLog(Append(Underwritten(small, FALSE), Plain("UnderwritingStarted", j1)))
    <2>. DEFINE events == Append(Underwritten(small, FALSE), Plain("UnderwritingStarted", j1))
    <2>1. /\ Len(events) = 4 /\ events[3].type = "UnderwritingDecided"
          /\ events[4].type = "UnderwritingStarted"
      BY DEF Underwritten, Opened, Plain, Decided
    <2>. HIDE DEF events
    <2>2. ~ MayFollow(events[4 - 1], events[4])
      BY <2>1 DEF MayFollow
    <2>3. ~ LegalLog(events)  BY <2>1, <2>2 DEF LegalLog
    <2>. QED  BY <2>3 DEF events
  <1>. QED  BY <1>1, <1>2, <1>3 DEF ILLEGAL_VECTORS

\* The corpus's logs give both sides the job the corpus expects, or fail.
THEOREM SpecCorpusReplaysAsExpected == Spec => []CorpusReplaysAsExpected
PROOF
  <1>1. IInv => CorpusReplaysAsExpected
    <2>. SUFFICES ASSUME IInv PROVE CorpusReplaysAsExpected
      OBVIOUS
    <2>1. Result(tsJob) = Replay(log) /\ Result(pyJob) = Replay(log)
      BY DEF IInv, Result, Replay
    <2>2. ASSUME NEW v \in STATE_VECTORS, log = v.log
          PROVE  /\ Replay(log) \in Job
                 /\ Replay(log).state = v.expected_state
                 /\ Replay(log).releasedAtomic = v.expected_released_atomic
      <3>1. ReplaysTo(log, v.expected_state, v.expected_released_atomic)
        BY <2>2, StateVectorsReplay
      <3>. QED  BY <3>1, NoJobAssumption DEF ReplaysTo, Replay
    <2>3. log \in ILLEGAL_VECTORS => Replay(log) = Illegal
      BY IllegalVectorsAreIllegal, ReplayAcceptsLegalLogs DEF IInv
    <2>. QED  BY <2>1, <2>2, <2>3 DEF CorpusReplaysAsExpected
  <1>. QED  BY <1>1, SpecIInv, PTL
=============================================================================
