--------------------------- MODULE ArsStateProofs ---------------------------
(***************************************************************************)
(* What replay computes, for every log: Fold is the loop of replay, it     *)
(* extends with the log, and it accepts exactly the legal logs.            *)
(***************************************************************************)
EXTENDS ArsState, InductionLemmas, SequenceTheorems

(***************************************************************************)
(* Fold(log) satisfies the equation that defines it.                       *)
(***************************************************************************)
LEMMA FoldDef ==
  ASSUME NEW S, NEW log \in Seq(S)
  PROVE  Fold(log) = [n \in 0 .. Len(log) |->
                        IF n = 0 THEN NoJob ELSE Step(log[n])[Fold(log)[n - 1]]]
PROOF
  <1>. DEFINE Eq(g, m) ==
                g = [n \in 0 .. m |-> IF n = 0 THEN NoJob ELSE Step(log[n])[g[n - 1]]]
              Good == {m \in Nat : \E g : Eq(g, m)}
  <1>1. 0 \in Good
    <2>1. Eq([n \in 0 .. 0 |-> NoJob], 0)
      OBVIOUS
    <2>. QED  BY <2>1
  <1>2. ASSUME NEW m \in Nat, m \in Good
        PROVE  m + 1 \in Good
    <2>1. PICK g : Eq(g, m)  BY <1>2
    <2>. DEFINE h == [n \in 0 .. m + 1 |->
                        IF n = m + 1 THEN Step(log[m + 1])[g[m]] ELSE g[n]]
    <2>2. \A n \in 0 .. m + 1 :
            h[n] = IF n = 0 THEN NoJob ELSE Step(log[n])[h[n - 1]]
      <3>. TAKE n \in 0 .. m + 1
      <3>1. CASE n = 0  BY <2>1, <3>1
      <3>2. CASE n = m + 1
        <4>1. h[n] = Step(log[n])[g[m]]  BY <3>2
        <4>2. h[n - 1] = g[m]  BY <3>2
        <4>. QED  BY <4>1, <4>2, <3>2
      <3>3. CASE n \in 1 .. m
        <4>1. h[n] = g[n] /\ h[n - 1] = g[n - 1]  BY <3>3
        <4>2. g[n] = Step(log[n])[g[n - 1]]
          <5>. HIDE DEF h
          <5>. QED BY <2>1, <3>3
        <4>. HIDE DEF h
        <4>. QED  BY <4>1, <4>2, <3>3
      <3>. QED  BY <3>1, <3>2, <3>3
    <2>3. Eq(h, m + 1)  BY <2>2
    <2>. HIDE DEF h, Eq
    <2>4. \E f : Eq(f, m + 1)  BY <2>3
    <2>. QED  BY <2>4
  <1>3. Nat \subseteq Good
    <2>. HIDE DEF Good
    <2>. QED  BY <1>1, <1>2, SetInduction
  <1>4. \E g : Eq(g, Len(log))
    BY <1>3, LenProperties
  <1>. QED  BY <1>4 DEF Fold

(***************************************************************************)
(* One event applied to one job.                                           *)
(***************************************************************************)
\* Every event of the union has one of the seven types.
LEMMA EventTypes ==
  ASSUME NEW event \in ArsEvent
  PROVE  /\ event.type \in ArsEventTypes
         /\ event.jobId \in JobIds /\ event.at \in Times
         /\ event.type = "JobOpened" => event.terms \in Terms
         /\ event.type = "UnderwritingDecided" => event.passed \in BOOLEAN
         /\ event.type = "PrincipalReleased" => event.amountAtomic \in Nat
PROOF
  BY AmountsAssumption
     DEF ArsEvent, ArsEventTypes, JobOpened, UnderwritingStarted,
         UnderwritingDecided, PrincipalReleased, EvidenceSubmitted, Disputed,
         Closed, Of

\* The state the job is in once an accepted event was applied.
StateAfter(event) ==
  IF event.type = "JobOpened" THEN "AWAIT_UNDERWRITING" ELSE Target(event)

\* An accepted event yields a job of the same id and terms, in the state the
\* event leads to.
LEMMA ApplyAccepted ==
  ASSUME NEW job \in Job, NEW event \in ArsEvent, event.type # "JobOpened",
         job.jobId = event.jobId, ~ IsTerminal(job.state),
         job.state \in AllowedIn[event.type]
  PROVE  /\ ApplyEvent(job, event) =
              [job EXCEPT !.state = Target(event),
                          !.releasedAtomic = ReleasedWith(job, event),
                          !.lastEventAt = event.at]
         /\ ApplyEvent(job, event) \in Job
         /\ ApplyEvent(job, event).jobId = job.jobId
         /\ ApplyEvent(job, event).state = Target(event)
         /\ ApplyEvent(job, event).releasedAtomic = ReleasedWith(job, event)
PROOF
  <1>. DEFINE next == [job EXCEPT !.state = Target(event),
                                  !.releasedAtomic = ReleasedWith(job, event),
                                  !.lastEventAt = event.at]
  <1>1. event.type \in DOMAIN AllowedIn
    BY EventTypes DEF AllowedIn, ArsEventTypes
  <1>2. ApplyEvent(job, event) = next
    BY <1>1, NoJobAssumption DEF ApplyEvent, Addressed
  <1>3. Target(event) \in PrincipalStates
    BY EventTypes DEF Target, PrincipalStates, ArsEventTypes
  <1>4. AmountOf(event) \in Nat
    BY EventTypes DEF AmountOf
  <1>5. /\ next \in Job /\ next.jobId = job.jobId /\ next.state = Target(event)
        /\ next.releasedAtomic = ReleasedWith(job, event)
    <2>. DEFINE s == Target(event)
                r == ReleasedWith(job, event)
                t == event.at
    <2>1. s \in PrincipalStates /\ r \in Nat /\ t \in Times
      BY <1>3, <1>4, EventTypes DEF Job, ReleasedWith
    <2>. HIDE DEF s, r, t
    <2>2. LET j == [job EXCEPT !.state = s, !.releasedAtomic = r, !.lastEventAt = t]
          IN  j \in Job /\ j.jobId = job.jobId /\ j.state = s /\ j.releasedAtomic = r
      BY <2>1 DEF Job
    <2>. QED  BY <2>2 DEF s, r, t
  <1>. QED  BY <1>2, <1>5

\* On the null job only the opening event is legal.
LEMMA ApplyFirst ==
  ASSUME NEW event \in ArsEvent
  PROVE  /\ event.type = "JobOpened" =>
              /\ ApplyEvent(NoJob, event) = OpenedJob(event)
              /\ OpenedJob(event) \in Job
              /\ OpenedJob(event).jobId = event.jobId
              /\ OpenedJob(event).state = StateAfter(event)
         /\ event.type # "JobOpened" => ApplyEvent(NoJob, event) = Illegal
PROOF
  BY EventTypes DEF ApplyEvent, Addressed, OpenedJob, Job, PrincipalStates, StateAfter

\* On an existing job the guards of applyEvent are those of the grammar.
LEMMA ApplyNext ==
  ASSUME NEW job \in Job, NEW previous \in ArsEvent, NEW event \in ArsEvent,
         job.state = StateAfter(previous)
  PROVE  \/ /\ MayFollow(previous, event) /\ job.jobId = event.jobId
            /\ event.type # "JobOpened"
            /\ ~ IsTerminal(job.state) /\ job.state \in AllowedIn[event.type]
         \/ /\ ~ (MayFollow(previous, event) /\ job.jobId = event.jobId)
            /\ ApplyEvent(job, event) = Illegal
PROOF
  <1>1. CASE event.type = "JobOpened"
    <2>1. ~ MayFollow(previous, event)  BY <1>1 DEF MayFollow
    <2>2. ApplyEvent(job, event) = Illegal  BY <1>1, NoJobAssumption DEF ApplyEvent
    <2>. QED  BY <2>1, <2>2
  <1>2. CASE event.type # "JobOpened"
    <2>1. MayFollow(previous, event)
            <=> ~ IsTerminal(job.state) /\ job.state \in AllowedIn[event.type]
      BY <1>2, EventTypes
         DEF MayFollow, StateAfter, Target, IsTerminal, AllowedIn, ArsEventTypes,
             DrawStates, CloseStates
    <2>2. event.type \in DOMAIN AllowedIn
      BY <1>2, EventTypes DEF AllowedIn, ArsEventTypes
    <2>3. ~ (job.jobId = event.jobId /\ ~ IsTerminal(job.state)
               /\ job.state \in AllowedIn[event.type])
            => ApplyEvent(job, event) = Illegal
      BY <1>2, <2>2, NoJobAssumption DEF ApplyEvent, Addressed
    <2>. QED  BY <1>2, <2>1, <2>3
  <1>. QED  BY <1>1, <1>2

(***************************************************************************)
(* The fold, event by event.                                               *)
(***************************************************************************)
\* The two equations of the loop.
LEMMA FoldSteps ==
  ASSUME NEW S, NEW log \in Seq(S)
  PROVE  /\ Fold(log)[0] = NoJob
         /\ \A n \in 1 .. Len(log) : Fold(log)[n] = Step(log[n])[Fold(log)[n - 1]]
PROOF
  <1>. DEFINE f == Fold(log)
  <1>1. f = [n \in 0 .. Len(log) |->
               IF n = 0 THEN NoJob ELSE Step(log[n])[f[n - 1]]]
    BY FoldDef
  <1>2. Len(log) \in Nat  BY LenProperties
  <1>. HIDE DEF f
  <1>3. f[0] = NoJob /\ \A n \in 1 .. Len(log) : f[n] = Step(log[n])[f[n - 1]]
    BY <1>1, <1>2
  <1>. QED  BY <1>3 DEF f

\* Step on the outcomes replay can be in.
LEMMA StepApplies ==
  ASSUME NEW event
  PROVE  /\ Step(event)[Illegal] = Illegal
         /\ Step(event)[NoJob] = ApplyEvent(NoJob, event)
         /\ \A job \in Job : Step(event)[job] = ApplyEvent(job, event)
PROOF
  BY NoJobAssumption DEF Step, Outcome

\* The first n events of a log are in a legal order.
LegalUpTo(log, n) ==
  /\ log[1].type = "JobOpened"
  /\ \A k \in 1 .. n : log[k].jobId = log[1].jobId
  /\ \A k \in 2 .. n : MayFollow(log[k - 1], log[k])

\* What the loop variable is after n events: a job of the log's id in the
\* state its last event leads to, if these were in order, and an error if not.
FoldedWell(log, n) ==
  IF LegalUpTo(log, n)
  THEN /\ Fold(log)[n] \in Job
       /\ Fold(log)[n].jobId = log[1].jobId
       /\ Fold(log)[n].state = StateAfter(log[n])
  ELSE Fold(log)[n] = Illegal

\* The loop invariant of replay, for every log of typed events.
LEMMA FoldIsGrammar ==
  ASSUME NEW log \in Seq(ArsEvent), log # <<>>
  PROVE  \A n \in 1 .. Len(log) : FoldedWell(log, n)
PROOF
  <1>1. Len(log) \in Nat \ {0} /\ \A n \in 1 .. Len(log) : log[n] \in ArsEvent
    BY ElementOfSeq, EmptySeq, LenProperties
  <1>. DEFINE Good == {m \in Nat : m + 1 <= Len(log) => FoldedWell(log, m + 1)}
  <1>2. 0 \in Good
    <2>1. Fold(log)[1] = ApplyEvent(NoJob, log[1])
      BY <1>1, FoldSteps, StepApplies
    <2>2. LegalUpTo(log, 1) <=> log[1].type = "JobOpened"
      BY DEF LegalUpTo
    <2>3. FoldedWell(log, 1)
      BY <1>1, <2>1, <2>2, ApplyFirst DEF FoldedWell
    <2>. QED  BY <2>3
  <1>3. ASSUME NEW m \in Nat, m \in Good
        PROVE  m + 1 \in Good
    <2>. SUFFICES ASSUME m + 2 <= Len(log)
                  PROVE  FoldedWell(log, m + 2)
      OBVIOUS
    <2>. DEFINE previous == log[m + 1]
                event == log[m + 2]
                job == Fold(log)[m + 1]
    <2>1. FoldedWell(log, m + 1)  BY <1>1, <1>3
    <2>2. previous \in ArsEvent /\ event \in ArsEvent  BY <1>1
    <2>3. Fold(log)[m + 2] = Step(event)[job]
      <3>1. m + 2 \in 1 .. Len(log) /\ (m + 2) - 1 = m + 1  BY <1>1
      <3>. QED  BY <3>1, FoldSteps
    <2>4. LegalUpTo(log, m + 2) <=>
            /\ LegalUpTo(log, m + 1)
            /\ MayFollow(previous, event) /\ event.jobId = log[1].jobId
      <3>1. 1 .. m + 2 = (1 .. m + 1) \cup {m + 2}
             /\ 2 .. m + 2 = (2 .. m + 1) \cup {m + 2} /\ (m + 2) - 1 = m + 1
        OBVIOUS
      <3>. QED  BY <3>1 DEF LegalUpTo
    <2>5. CASE LegalUpTo(log, m + 1)
      <3>1. job \in Job /\ job.jobId = log[1].jobId /\ job.state = StateAfter(previous)
        BY <2>1, <2>5 DEF FoldedWell
      <3>2. Fold(log)[m + 2] = ApplyEvent(job, event)
        BY <2>3, <3>1, StepApplies
      <3>. HIDE DEF job, previous, event
      <3>3. CASE /\ MayFollow(previous, event) /\ job.jobId = event.jobId
                 /\ event.type # "JobOpened"
                 /\ ~ IsTerminal(job.state) /\ job.state \in AllowedIn[event.type]
        <4>1. /\ ApplyEvent(job, event) \in Job
              /\ ApplyEvent(job, event).jobId = job.jobId
              /\ ApplyEvent(job, event).state = Target(event)
          BY <2>2, <3>1, <3>3, ApplyAccepted
        <4>2. StateAfter(event) = Target(event)  BY <3>3 DEF StateAfter
        <4>3. LegalUpTo(log, m + 2)  BY <2>4, <2>5, <3>1, <3>3
        <4>. QED  BY <3>1, <3>2, <4>1, <4>2, <4>3 DEF FoldedWell, event
      <3>4. CASE /\ ~ (MayFollow(previous, event) /\ job.jobId = event.jobId)
                 /\ ApplyEvent(job, event) = Illegal
        <4>1. ~ LegalUpTo(log, m + 2)  BY <2>4, <3>1, <3>4
        <4>. QED  BY <3>2, <3>4, <4>1 DEF FoldedWell
      <3>. QED  BY <2>2, <3>1, <3>3, <3>4, ApplyNext
    <2>6. CASE ~ LegalUpTo(log, m + 1)
      <3>1. job = Illegal  BY <2>1, <2>6 DEF FoldedWell
      <3>2. Fold(log)[m + 2] = Illegal  BY <2>3, <3>1, StepApplies
      <3>. QED  BY <2>4, <2>6, <3>2 DEF FoldedWell
    <2>. QED  BY <2>5, <2>6
  <1>4. Nat \subseteq Good
    <2>. HIDE DEF Good
    <2>. QED  BY <1>2, <1>3, SetInduction
  <1>. QED
    <2>. TAKE n \in 1 .. Len(log)
    <2>1. n - 1 \in Good /\ (n - 1) + 1 = n  BY <1>1, <1>4
    <2>. QED  BY <2>1, <1>1

(***************************************************************************)
(* What append relies on: the loop over a longer log starts as the loop    *)
(* over the shorter one, so the stored log's replay is one step short.     *)
(***************************************************************************)
LEMMA FoldAppend ==
  ASSUME NEW S, NEW log \in Seq(S), NEW event \in S
  PROVE  /\ Fold(Append(log, event))[Len(log)] = Fold(log)[Len(log)]
         /\ Fold(Append(log, event))[Len(log) + 1] =
              Step(event)[Fold(log)[Len(log)]]
PROOF
  <1>. DEFINE longer == Append(log, event)
  <1>1. /\ longer \in Seq(S) /\ Len(log) \in Nat /\ Len(longer) = Len(log) + 1
        /\ longer[Len(log) + 1] = event
        /\ \A n \in 1 .. Len(log) : longer[n] = log[n]
    OBVIOUS
  <1>. HIDE DEF longer
  <1>. DEFINE Good == {n \in Nat : n <= Len(log) => Fold(longer)[n] = Fold(log)[n]}
  <1>2. 0 \in Good  BY <1>1, FoldSteps
  <1>3. ASSUME NEW n \in Nat, n \in Good
        PROVE  n + 1 \in Good
    <2>. SUFFICES ASSUME n + 1 <= Len(log)
                  PROVE  Fold(longer)[n + 1] = Fold(log)[n + 1]
      OBVIOUS
    <2>1. Fold(longer)[n] = Fold(log)[n]  BY <1>1, <1>3
    <2>2. n + 1 \in 1 .. Len(log) /\ n + 1 \in 1 .. Len(longer) /\ (n + 1) - 1 = n
      BY <1>1
    <2>3. Fold(longer)[n + 1] = Step(longer[n + 1])[Fold(longer)[n]]
      BY <1>1, <2>2, FoldSteps
    <2>4. Fold(log)[n + 1] = Step(log[n + 1])[Fold(log)[n]]
      BY <2>2, FoldSteps
    <2>. QED  BY <1>1, <2>1, <2>2, <2>3, <2>4
  <1>4. Nat \subseteq Good
    <2>. HIDE DEF Good
    <2>. QED  BY <1>2, <1>3, SetInduction
  <1>5. Fold(longer)[Len(log)] = Fold(log)[Len(log)]
    BY <1>1, <1>4
  <1>6. Fold(longer)[Len(log) + 1] = Step(event)[Fold(log)[Len(log)]]
    <2>1. Len(log) + 1 \in 1 .. Len(longer) /\ (Len(log) + 1) - 1 = Len(log)
      BY <1>1
    <2>. QED  BY <1>1, <1>5, <2>1, FoldSteps
  <1>. QED  BY <1>5, <1>6 DEF longer

(***************************************************************************)
(* replay accepts exactly the logs of the lifecycle grammar: for every log *)
(* of ArsEvents it throws if and only if the log is not legal, and a legal *)
(* log yields a job of the log's id in the state its last event leads to.  *)
(***************************************************************************)
THEOREM ReplayAcceptsLegalLogs ==
  ASSUME NEW log \in Seq(ArsEvent)
  PROVE  /\ Replay(log) # Illegal <=> LegalLog(log)
         /\ LegalLog(log) =>
              /\ Replay(log) \in Job
              /\ Replay(log).jobId = log[1].jobId
              /\ Replay(log).state = StateAfter(log[Len(log)])
PROOF
  <1>1. CASE log = <<>>
    <2>1. Replay(log) = Illegal
      <3>1. Len(log) = 0  BY <1>1
      <3>2. Fold(log)[Len(log)] = NoJob  BY <3>1, FoldSteps
      <3>. QED  BY <3>2 DEF Replay
    <2>. QED  BY <1>1, <2>1 DEF LegalLog
  <1>2. CASE log # <<>>
    <2>1. Len(log) \in 1 .. Len(log)
      BY <1>2, EmptySeq, LenProperties
    <2>2. FoldedWell(log, Len(log))  BY <1>2, <2>1, FoldIsGrammar
    <2>3. LegalLog(log) <=> LegalUpTo(log, Len(log))
      BY <1>2 DEF LegalLog, LegalUpTo
    <2>4. Replay(log) = Fold(log)[Len(log)]
      BY <2>2, NoJobAssumption DEF Replay, FoldedWell
    <2>. QED  BY <2>2, <2>3, <2>4, NoJobAssumption DEF FoldedWell
  <1>. QED  BY <1>1, <1>2

(***************************************************************************)
(* One more event.  A log that is legal, or empty, is extended by exactly  *)
(* the events the grammar allows next, and replaying the longer log is     *)
(* applying the event to the job the log stands for.                       *)
(***************************************************************************)
LEMMA LegalAppend ==
  ASSUME NEW log \in Seq(ArsEvent), NEW event \in ArsEvent, NEW job,
         job = IF log = <<>> THEN NoJob ELSE Replay(log),
         log # <<>> => LegalLog(log) /\ log[1].jobId = event.jobId,
         Step(event)[job] # Illegal
  PROVE  LET longer == Append(log, event)
         IN  /\ LegalLog(longer) /\ longer[1].jobId = event.jobId
             /\ Replay(longer) = ApplyEvent(job, event)
             /\ Replay(longer) \in Job
PROOF
  <1>. DEFINE longer == Append(log, event)
  <1>1. /\ longer \in Seq(ArsEvent) /\ longer # <<>>
        /\ Len(log) \in Nat /\ Len(longer) = Len(log) + 1
        /\ \A n \in 1 .. Len(log) : longer[n] = log[n]
        /\ longer[Len(log) + 1] = event
    <2>1. /\ longer \in Seq(ArsEvent) /\ Len(log) \in Nat
          /\ Len(longer) = Len(log) + 1
          /\ \A n \in 1 .. Len(log) : longer[n] = log[n]
          /\ longer[Len(log) + 1] = event
      OBVIOUS
    <2>. HIDE DEF longer
    <2>. QED  BY <2>1
  <1>2. job \in Job \cup {NoJob} /\ (log = <<>> <=> job = NoJob)
    BY ReplayAcceptsLegalLogs, NoJobAssumption
  <1>3. Step(event)[job] = ApplyEvent(job, event)
    BY <1>2, StepApplies
  <1>4. LegalLog(longer) /\ longer[1].jobId = event.jobId
    <2>1. CASE log = <<>>
      <3>1. event.type = "JobOpened"
        BY <1>3, <2>1, ApplyFirst
      <3>. QED  BY <1>1, <2>1, <3>1 DEF LegalLog
    <2>2. CASE log # <<>>
      <3>. DEFINE previous == log[Len(log)]
      <3>1. Len(log) >= 1 /\ previous \in ArsEvent
        BY <1>1, <2>2
      <3>2. job \in Job /\ job.state = StateAfter(previous)
        BY <2>2, ReplayAcceptsLegalLogs
      <3>3. MayFollow(previous, event)
        <4>. HIDE DEF previous
        <4>. QED  BY <1>3, <3>1, <3>2, ApplyNext
      <3>4. longer[1] = log[1]
        BY <1>1, <3>1
      <3>. HIDE DEF longer
      <3>5. \A n \in 1 .. Len(longer) : longer[n].jobId = longer[1].jobId
        <4>. TAKE n \in 1 .. Len(longer)
        <4>1. CASE n \in 1 .. Len(log)
          BY <1>1, <2>2, <3>4, <4>1 DEF LegalLog
        <4>2. CASE n = Len(log) + 1
          BY <1>1, <2>2, <3>4, <4>2
        <4>. QED  BY <1>1, <4>1, <4>2
      <3>6. \A n \in 2 .. Len(longer) : MayFollow(longer[n - 1], longer[n])
        <4>. TAKE n \in 2 .. Len(longer)
        <4>1. CASE n \in 2 .. Len(log)
          <5>1. longer[n - 1] = log[n - 1] /\ longer[n] = log[n]
            BY <1>1, <4>1
          <5>. QED  BY <2>2, <4>1, <5>1 DEF LegalLog
        <4>2. CASE n = Len(log) + 1
          <5>1. longer[n - 1] = previous /\ longer[n] = event
            BY <1>1, <3>1, <4>2
          <5>. QED  BY <3>3, <5>1
        <4>. QED  BY <1>1, <4>1, <4>2
      <3>. QED  BY <1>1, <2>2, <3>4, <3>5, <3>6 DEF LegalLog
    <2>. QED  BY <2>1, <2>2
  <1>5. Replay(longer) \in Job /\ Replay(longer) = Fold(longer)[Len(longer)]
    BY <1>1, <1>4, ReplayAcceptsLegalLogs, NoJobAssumption DEF Replay
  <1>6. Fold(log)[Len(log)] = job
    <2>1. CASE log = <<>>
      BY <2>1, FoldSteps
    <2>2. CASE log # <<>>
      BY <2>2, ReplayAcceptsLegalLogs, NoJobAssumption DEF Replay
    <2>. QED  BY <2>1, <2>2
  <1>7. Replay(longer) = ApplyEvent(job, event)
    BY <1>1, <1>3, <1>5, <1>6, FoldAppend
  <1>. QED  BY <1>4, <1>5, <1>7
=============================================================================
