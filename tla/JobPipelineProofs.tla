------------------------- MODULE JobPipelineProofs -------------------------
(***************************************************************************)
(* The safety of a job's pipeline, for any number of jobs, claims and      *)
(* draws: what holds however the indexer behaves, and what holds once it   *)
(* delivers in ledger order and resolves every job id.                     *)
(***************************************************************************)
EXTENDS JobPipeline, ArsStateProofs

(***************************************************************************)
(* The inductive invariant, whatever the indexer does.                     *)
(***************************************************************************)
LedgerEntry == [jobId : Jobs, payload : Payload, paid : BOOLEAN]

Shapes ==
  /\ logs \in [JobIds -> Seq(ArsEvent)]
  /\ seen \in [{"settlement"} -> Job \cup {NoJob}]
  /\ ledger \in Seq(LedgerEntry)
  /\ delivered \in Seq(0 .. MaxDeliveries) /\ Len(delivered) = Len(ledger)
  /\ refused \subseteq {n \in 1 .. Len(ledger) : delivered[n] > 0}
  /\ expired \subseteq Jobs

LogsAreLegal ==
  \A j \in JobIds : logs[j] # <<>> => LegalLog(logs[j]) /\ logs[j][1].jobId = j

\* What an entry says of the job and the bond is what happened to them.
EntryIsTrue(e) ==
  /\ e.payload.name = "ActionRecorded" => e.jobId = Hex(e.payload.actionHash)
  /\ e.payload.name = "ClaimResolved" => (e.paid <=> e.payload.status \notin {3, 7})
  /\ e.payload.name = "ArbiterRuled" => (e.paid <=> e.payload.ruling # 1)

\* The entry of the same job that must come before an entry.
Cause ==
  [ClaimSubmitted |-> "ActionRecorded", ClaimResolved |-> "ClaimSubmitted",
   ArbiterRuled |-> "ClaimSubmitted"]

Caused(e, n) ==
  e.payload.name \in DOMAIN Cause =>
    \E m \in Entries(e.jobId, Cause[e.payload.name]) : m < n

LedgerIsTrue ==
  \A n \in 1 .. Len(ledger) : EntryIsTrue(ledger[n]) /\ Caused(ledger[n], n)

\* A job has one action.
ActedOnce ==
  \A n \in 1 .. Len(ledger) :
    ledger[n].payload.name = "ActionRecorded" =>
      IsFirst(n, Entries(ledger[n].jobId, "ActionRecorded"))

\* The stages an underwritten job never leaves again.
Passed == {"RELEASABLE"} \cup Executed

\* The state of a job, read off its log's last event.
Stage(j) ==
  IF logs[j] = <<>> THEN "NONE" ELSE StateAfter(logs[j][Len(logs[j])])

\* Settlement's read may be old, but the job has passed underwriting since,
\* and so has every job that was drawn on.
SeenHasPassed ==
  LET job == seen["settlement"]
  IN  job # NoJob /\ job.state \in {"RELEASABLE", "EXECUTING"} =>
        Stage(job.jobId) \in Passed

DrawnHasPassed ==
  \A n \in 1 .. Len(ledger) :
    ledger[n].payload.name = "CreditDrawn" => Stage(ledger[n].jobId) \in Passed

IInv ==
  /\ Shapes
  /\ LogsAreLegal
  /\ LedgerIsTrue
  /\ ActedOnce
  /\ SeenHasPassed
  /\ DrawnHasPassed

(***************************************************************************)
(* What delivery in ledger order adds.  A draw finds its job releasable or *)
(* executing unless evidence came first, so the evidence of an action that *)
(* was recorded after a draw is never refused, and neither is the first    *)
(* claim against it.                                                       *)
(***************************************************************************)
Ordered == InOrder /\ ~ MayMissJobId

\* Entry n comes no earlier than an action that was recorded after a draw.
InTime(n) ==
  \E a \in Entries(ledger[n].jobId, "ActionRecorded") :
    a <= n /\ \E d \in Entries(ledger[n].jobId, "CreditDrawn") : d < a

Due(n) == ledger[n].payload.name = "CreditDrawn" \/ InTime(n)

DeliveredInOrder ==
  \A n \in 1 .. Len(ledger), m \in 1 .. Len(ledger) :
    m < n /\ delivered[n] > 0 => delivered[m] > 0

Reaches ==
  [CreditDrawn |-> Executed, ActionRecorded |-> Evidenced,
   ClaimSubmitted |-> Disputable, ClaimResolved |-> {"CLOSED"},
   ArbiterRuled |-> {"CLOSED"}]

DeliveredHasReached ==
  \A n \in 1 .. Len(ledger) :
    delivered[n] > 0 /\ ledger[n].payload.name \in DOMAIN Reaches /\ Due(n) =>
      Stage(ledger[n].jobId) \in Reaches[ledger[n].payload.name]

OrderedInv ==
  DeliveredInOrder /\ DeliveredHasReached

-----------------------------------------------------------------------------
(***************************************************************************)
(* The store of the pipeline computes with the state machine of ArsState.  *)
(***************************************************************************)
LEMMA StoreTypes ==
  Store!Job = Job /\ Store!ArsEvent = ArsEvent
PROOF
  BY DEF Store!Job, Job, Store!PrincipalStates, PrincipalStates, Store!ArsEvent,
         ArsEvent, Store!JobOpened, JobOpened, Store!UnderwritingStarted,
         UnderwritingStarted, Store!UnderwritingDecided, UnderwritingDecided,
         Store!PrincipalReleased, PrincipalReleased, Store!EvidenceSubmitted,
         EvidenceSubmitted, Store!Disputed, Disputed, Store!Closed, Closed,
         Store!Of, Of, Store!Resolutions, Resolutions

LEMMA StoreSteps ==
  ASSUME NEW event
  PROVE  Store!Step(event) = Step(event)
PROOF
  BY DEF Store!Step, Step, Store!Outcome, Outcome, Store!Job, Job,
         Store!PrincipalStates, PrincipalStates, Store!ApplyEvent, ApplyEvent,
         Store!Addressed, Addressed, Store!IsTerminal, IsTerminal, Store!OpenedJob,
         OpenedJob, Store!AllowedIn, AllowedIn, Store!DrawStates, DrawStates,
         Store!CloseStates, CloseStates, Store!Target, Target,
         Store!ReleasedWith, ReleasedWith, Store!AmountOf, AmountOf

LEMMA StoreReplays ==
  ASSUME NEW log
  PROVE  Store!Replay(log) = Replay(log)
PROOF
  BY DEF Store!Replay, Replay, Store!Fold, Fold, Store!Step, Step,
         Store!Outcome, Outcome, Store!Job, Job,
         Store!PrincipalStates, PrincipalStates, Store!ApplyEvent, ApplyEvent,
         Store!Addressed, Addressed, Store!IsTerminal, IsTerminal, Store!OpenedJob,
         OpenedJob, Store!AllowedIn, AllowedIn, Store!DrawStates, DrawStates,
         Store!CloseStates, CloseStates, Store!Target, Target,
         Store!ReleasedWith, ReleasedWith, Store!AmountOf, AmountOf

LEMMA StoreCurrent ==
  ASSUME NEW j
  PROVE  Store!Current(j) = IF logs[j] = <<>> THEN NoJob ELSE Replay(logs[j])
PROOF
  BY StoreReplays DEF Store!Current, Store!JobOf

(***************************************************************************)
(* Jobs and their logs.                                                    *)
(***************************************************************************)
LEMMA CurrentJob ==
  ASSUME Shapes, LogsAreLegal, NEW j \in JobIds
  PROVE  /\ logs[j] \in Seq(ArsEvent)
         /\ logs[j] = <<>> => Store!Current(j) = NoJob
         /\ logs[j] # <<>> =>
              /\ Store!Current(j) = Replay(logs[j])
              /\ Store!Current(j) \in Job
              /\ Store!Current(j).jobId = j
              /\ Store!Current(j).state = Stage(j)
              /\ logs[j][Len(logs[j])] \in ArsEvent
         /\ Released(j) \in Nat
PROOF
  <1>1. logs[j] \in Seq(ArsEvent)
    BY DEF Shapes
  <1>2. CASE logs[j] = <<>>
    BY <1>1, <1>2, StoreCurrent DEF Released, Store!ReleasedOf
  <1>3. CASE logs[j] # <<>>
    <2>1. LegalLog(logs[j]) /\ logs[j][1].jobId = j
      BY <1>3 DEF LogsAreLegal
    <2>2. /\ Store!Current(j) = Replay(logs[j])
          /\ Store!Current(j) \in Job
          /\ Store!Current(j).jobId = j
          /\ Store!Current(j).state = Stage(j)
      BY <1>1, <1>3, <2>1, StoreCurrent, ReplayAcceptsLegalLogs DEF Stage
    <2>3. logs[j][Len(logs[j])] \in ArsEvent
      BY <1>1, <1>3, EmptySeq, LenProperties, ElementOfSeq
    <2>4. Released(j) \in Nat
      <3>. DEFINE job == Store!Current(j)
      <3>1. job \in Job
        BY <2>2
      <3>2. Released(j) = IF job = NoJob THEN 0 ELSE job.releasedAtomic
        BY DEF Released, Store!ReleasedOf
      <3>. HIDE DEF job
      <3>. QED  BY <3>1, <3>2 DEF Job
    <2>. QED  BY <1>1, <1>3, <2>2, <2>3, <2>4
  <1>. QED  BY <1>2, <1>3

LEMMA StateIsStage ==
  ASSUME Shapes, LogsAreLegal, NEW j \in JobIds
  PROVE  StateOf(j) = Stage(j)
PROOF
  <1>1. CASE logs[j] = <<>>
    BY <1>1, CurrentJob DEF StateOf, Store!StageOf, Stage
  <1>2. CASE logs[j] # <<>>
    BY <1>2, CurrentJob, NoJobAssumption DEF StateOf, Store!StageOf
  <1>. QED  BY <1>1, <1>2

\* An accepted event comes next in its job's lifecycle, and no other job
\* notices.
LEMMA Appended ==
  ASSUME Shapes, LogsAreLegal, NEW event \in ArsEvent, Store!AppendEvent(event)
  PROVE  /\ event.jobId \in JobIds
         /\ seen' = seen
         /\ logs' = [logs EXCEPT ![event.jobId] = Append(logs[event.jobId], event)]
         /\ logs' \in [JobIds -> Seq(ArsEvent)]
         /\ LogsAreLegal'
         /\ Stage(event.jobId)' = StateAfter(event)
         /\ IF logs[event.jobId] = <<>>
            THEN event.type = "JobOpened"
            ELSE event.type # "JobOpened" /\ Stage(event.jobId) \in AllowedIn[event.type]
         /\ Released(event.jobId)' = Released(event.jobId) + AmountOf(event)
PROOF
  <1>. DEFINE id == event.jobId
              old == logs[id]
              new == Append(old, event)
              job == Store!Current(id)
  <1>1. id \in JobIds
    BY EventTypes
  <1>2. old \in Seq(ArsEvent)
    BY <1>1, CurrentJob
  <1>3. seen' = seen /\ logs' = [logs EXCEPT ![id] = new]
    BY DEF Store!AppendEvent
  <1>4. job = IF old = <<>> THEN NoJob ELSE Replay(old)
    BY StoreCurrent
  <1>5. old # <<>> => LegalLog(old) /\ old[1].jobId = id
    BY <1>1 DEF LogsAreLegal
  <1>6. Step(event)[job] # Illegal
    BY StoreSteps DEF Store!AppendEvent, Store!Accepts
  <1>7. /\ LegalLog(new) /\ new[1].jobId = id
        /\ Replay(new) = ApplyEvent(job, event)
        /\ Replay(new) \in Job
    <2>. HIDE DEF old, job
    <2>. QED  BY <1>2, <1>4, <1>5, <1>6, LegalAppend
  <1>8. /\ new \in Seq(ArsEvent) /\ new # <<>>
        /\ new[Len(new)] = event
    <2>1. /\ new \in Seq(ArsEvent) /\ Len(new) = Len(old) + 1 /\ Len(old) \in Nat
          /\ new[Len(old) + 1] = event
      <3>. HIDE DEF old
      <3>. QED  BY <1>2
    <2>. HIDE DEF new
    <2>. QED  BY <2>1
  <1>. HIDE DEF new
  <1>9. logs' \in [JobIds -> Seq(ArsEvent)]
    BY <1>1, <1>3, <1>8 DEF Shapes
  <1>10. logs'[id] = new /\ \A j \in JobIds : j # id => logs'[j] = logs[j]
    BY <1>1, <1>3 DEF Shapes
  <1>11. LogsAreLegal'
    BY <1>7, <1>10 DEF LogsAreLegal
  <1>12. Stage(id)' = StateAfter(event)
    BY <1>8, <1>10 DEF Stage
  <1>13. Store!Current(id)' = ApplyEvent(job, event)
    <2>1. Store!Current(id)' = IF logs'[id] = <<>> THEN NoJob ELSE Replay(logs'[id])
      BY StoreReplays DEF Store!Current, Store!JobOf
    <2>. QED  BY <1>7, <1>8, <1>10, <2>1
  <1>14. /\ ApplyEvent(job, event) \in Job
         /\ Released(id)' = ApplyEvent(job, event).releasedAtomic
    BY <1>7, <1>13, NoJobAssumption DEF Released, Store!ReleasedOf
  <1>15. CASE old = <<>>
    <2>1. job = NoJob
      BY <1>4, <1>15
    <2>2. event.type = "JobOpened" /\ ApplyEvent(job, event) = OpenedJob(event)
      BY <1>14, <2>1, ApplyFirst, NoJobAssumption
    <2>3. Released(id) = 0 /\ Released(id)' = 0 /\ AmountOf(event) = 0
      BY <1>14, <2>1, <2>2 DEF Released, Store!ReleasedOf, OpenedJob, AmountOf
    <2>. QED  BY <1>1, <1>3, <1>9, <1>11, <1>12, <1>15, <2>2, <2>3 DEF new
  <1>16. CASE old # <<>>
    <2>. DEFINE previous == old[Len(old)]
    <2>1. /\ job \in Job /\ job.state = Stage(id) /\ previous \in ArsEvent
          /\ job.state = StateAfter(previous)
      BY <1>1, <1>16, CurrentJob DEF Stage
    <2>2. /\ event.type # "JobOpened" /\ job.jobId = id /\ ~ IsTerminal(job.state)
          /\ job.state \in AllowedIn[event.type]
      <3>. HIDE DEF previous, job
      <3>. QED  BY <1>14, <2>1, ApplyNext, NoJobAssumption
    <2>3. ApplyEvent(job, event).releasedAtomic = ReleasedWith(job, event)
      <3>. HIDE DEF job
      <3>. QED  BY <2>1, <2>2, ApplyAccepted
    <2>4. Released(id) = job.releasedAtomic
      BY <2>1, NoJobAssumption DEF Released, Store!ReleasedOf
    <2>. QED
      BY <1>1, <1>3, <1>9, <1>11, <1>12, <1>14, <1>16, <2>1, <2>2, <2>3, <2>4
         DEF new, ReleasedWith
  <1>. QED  BY <1>15, <1>16

\* An event that is refused could not come next.
LEMMA Rejected ==
  ASSUME Shapes, LogsAreLegal, NEW event \in ArsEvent, ~ Store!Accepts(event),
         logs[event.jobId] # <<>>, event.type # "JobOpened"
  PROVE  Stage(event.jobId) \notin AllowedIn[event.type]
PROOF
  <1>. DEFINE id == event.jobId
              job == Store!Current(id)
  <1>1. id \in JobIds
    BY EventTypes
  <1>2. job \in Job /\ job.jobId = id /\ job.state = Stage(id)
    BY <1>1, CurrentJob
  <1>3. Step(event)[job] = Illegal
    BY StoreSteps DEF Store!Accepts
  <1>4. ApplyEvent(job, event) = Illegal
    BY <1>2, <1>3, StepApplies
  <1>. HIDE DEF job
  <1>5. job.state \in AllowedIn[event.type] => ~ IsTerminal(job.state)
    BY EventTypes DEF AllowedIn, DrawStates, CloseStates, IsTerminal, ArsEventTypes
  <1>. QED  BY <1>2, <1>4, <1>5, ApplyAccepted, NoJobAssumption

\* An append to one job leaves the others alone, and takes no job back.
LEMMA Onwards ==
  ASSUME Shapes, LogsAreLegal, NEW event \in ArsEvent, Store!AppendEvent(event),
         NEW j \in JobIds
  PROVE  /\ j # event.jobId =>
              logs'[j] = logs[j] /\ Stage(j)' = Stage(j) /\ Released(j)' = Released(j)
         /\ Stage(j) \in Passed => Stage(j)' \in Passed
         /\ Stage(j) \in Executed => Stage(j)' \in Executed
         /\ Stage(j) \in Evidenced => Stage(j)' \in Evidenced
         /\ Stage(j) \in Disputable => Stage(j)' \in Disputable
         /\ Stage(j) = "CLOSED" => Stage(j)' = "CLOSED"
PROOF
  <1>1. CASE j # event.jobId
    <2>1. logs'[j] = logs[j]
      BY <1>1, Appended DEF Shapes
    <2>2. Stage(j)' = Stage(j)
      BY <2>1 DEF Stage
    <2>3. Released(j)' = Released(j)
      BY <2>1, StoreReplays DEF Released, Store!Current, Store!JobOf
    <2>. QED  BY <1>1, <2>1, <2>2, <2>3
  <1>2. CASE j = event.jobId
    <2>. DEFINE stage == Stage(j)
    <2>1. Stage(j)' = StateAfter(event)
      BY <1>2, Appended
    <2>2. CASE logs[j] = <<>>
      <3>1. stage = "NONE"
        BY <2>2 DEF Stage
      <3>. QED  BY <1>2, <3>1 DEF Passed, Executed, Evidenced, Disputable
    <2>3. CASE logs[j] # <<>>
      <3>1. event.type # "JobOpened" /\ stage \in AllowedIn[event.type]
        BY <1>2, <2>3, Appended
      <3>. HIDE DEF stage
      <3>2. /\ stage \in Passed => StateAfter(event) \in Passed
            /\ stage \in Executed => StateAfter(event) \in Executed
            /\ stage \in Evidenced => StateAfter(event) \in Evidenced
            /\ stage \in Disputable => StateAfter(event) \in Disputable
            /\ stage # "CLOSED"
        BY <3>1, EventTypes
           DEF Passed, Executed, Evidenced, Disputable, StateAfter, Target,
               AllowedIn, DrawStates, CloseStates, ArsEventTypes
      <3>. QED  BY <1>2, <2>1, <3>2 DEF stage
    <2>. QED  BY <2>2, <2>3
  <1>. QED  BY <1>1, <1>2

-----------------------------------------------------------------------------
(***************************************************************************)
(* The steps of the pipeline, by what they do.                             *)
(***************************************************************************)
\* The program emits entries that are true and whose causes it has emitted,
\* and records an action once.
Permitted(e) ==
  /\ e.payload.name \in DOMAIN Cause => Entries(e.jobId, Cause[e.payload.name]) # {}
  /\ e.payload.name = "ActionRecorded" => Entries(e.jobId, "ActionRecorded") = {}
  /\ e.payload.name = "CreditDrawn" => Stage(e.jobId) \in Passed

\* Two entries it emits at once are the two events of one ruling.
OneRuling(d, e) ==
  /\ d.jobId = e.jobId /\ d.paid = e.paid
  /\ {d.payload.name, e.payload.name} \subseteq {"ClaimResolved", "ArbiterRuled"}

Emits(entries) ==
  /\ \A n \in 1 .. Len(entries) : EntryIsTrue(entries[n]) /\ Permitted(entries[n])
  /\ \A m, n \in 1 .. Len(entries) : m # n => OneRuling(entries[m], entries[n])
  /\ Emit(entries)
  /\ UNCHANGED <<logs, seen, expired>>

\* The event toArsEvent makes of entry n.
Brought(n, event) ==
  LET e == ledger[n]
  IN  /\ event.jobId = e.jobId
      /\ \/ /\ e.payload.name = "ActionRecorded"
            /\ event.type = "EvidenceSubmitted"
            /\ (e.payload.outcome = 0) <=> (event.outcome = "success")
         \/ /\ e.payload.name = "ClaimSubmitted"
            /\ event.type = "Disputed" /\ event.claim = e.payload.claim
         \/ /\ e.payload.name \in {"ClaimResolved", "ArbiterRuled"}
            /\ event.type = "Closed" /\ event.resolution \in Verdicts
            /\ e.paid <=> (event.resolution = "dispute_upheld")
         \/ /\ e.payload.name = "CreditDrawn"
            /\ event.type = "PrincipalReleased"
            /\ event.amountAtomic = e.payload.amount

\* The indexer delivers entry n: to nowhere, to a log, or in vain.
Counts(n) ==
  /\ Deliverable(n)
  /\ delivered' = [delivered EXCEPT ![n] = @ + 1]
  /\ UNCHANGED <<ledger, expired>>

Skips(n) ==
  /\ Counts(n)
  /\ ~ MayMissJobId => ledger[n].payload.name \in OtherNames
  /\ UNCHANGED <<logs, seen, refused>>

Lands(n, event) ==
  Counts(n) /\ Brought(n, event) /\ Store!AppendEvent(event) /\ UNCHANGED refused

Bounces(n, event) ==
  /\ Counts(n) /\ Brought(n, event) /\ ~ Store!Accepts(event)
  /\ refused' = refused \cup {n}
  /\ UNCHANGED <<logs, seen>>

\* The settlement layer appends an event of its own.
OffChain(event) ==
  /\ \/ event.type \in {"JobOpened", "UnderwritingStarted", "UnderwritingDecided"}
     \/ event.type = "Closed" /\ event.resolution = "no_dispute"
  /\ Store!AppendEvent(event)
  /\ UNCHANGED <<chainVars, expired>>

\* The settlement layer reads, or a window closes.
Looks ==
  /\ seen' \in [{"settlement"} -> Job \cup {NoJob}] /\ SeenHasPassed'
  /\ expired' \subseteq Jobs
  /\ UNCHANGED <<logs, chainVars>>

LEMMA JobsAreIds == Jobs \subseteq JobIds
PROOF
  BY HexAssumption DEF Jobs

LEMMA LedgerShape ==
  ASSUME Shapes, NEW n \in 1 .. Len(ledger)
  PROVE  /\ ledger[n] \in LedgerEntry
         /\ ledger[n].jobId \in Jobs /\ ledger[n].jobId \in JobIds
         /\ ledger[n].payload \in Payload /\ ledger[n].paid \in BOOLEAN
         /\ delivered[n] \in 0 .. MaxDeliveries /\ delivered[n] \in Nat
PROOF
  <1>1. ledger[n] \in LedgerEntry
    BY ElementOfSeq DEF Shapes
  <1>2. delivered[n] \in 0 .. MaxDeliveries
    BY ElementOfSeq DEF Shapes
  <1>. QED  BY <1>1, <1>2, JobsAreIds, PolicyAssumption DEF LedgerEntry

\* The fields of a payload, by its name.
LEMMA PayloadFields ==
  ASSUME NEW p \in Payload
  PROVE  /\ p.name = "ActionRecorded" => p.actionHash \in ActionHashes
         /\ p.name = "ClaimSubmitted" => p.claim \in Claims
         /\ p.name = "CreditDrawn" => p.amount \in Amounts
         /\ p.name \in {"ActionRecorded", "ClaimSubmitted", "ClaimResolved",
                        "ArbiterRuled", "CreditDrawn"} \cup OtherNames
PROOF
  BY OtherNamesAssumption DEF Payload

LEMMA IngestedEvent ==
  ASSUME Shapes, LedgerIsTrue, NEW n \in 1 .. Len(ledger), NEW id \in ResolvedIds(n)
  PROVE  /\ Ingested(n, id) # NoEvent =>
              Ingested(n, id) \in ArsEvent /\ Brought(n, Ingested(n, id))
         /\ ~ MayMissJobId /\ Ingested(n, id) = NoEvent =>
              ledger[n].payload.name \in OtherNames
PROOF
  <1>. DEFINE e == ledger[n]
              p == e.payload
              at == CHOOSE t \in Times : TRUE
              ctx == [at |-> at, jobId |-> id]
              event == Ingested(n, id)
  <1>1. at \in Times
    BY DecodedAssumption
  <1>2. /\ p \in Payload /\ e.jobId \in JobIds /\ e.paid \in BOOLEAN
        /\ id = e.jobId \/ id = NoId
        /\ ~ MayMissJobId => id = e.jobId
        /\ NoId \notin JobIds
    BY LedgerShape, NullAssumption DEF ResolvedIds
  <1>3. EntryIsTrue(e)
    BY DEF LedgerIsTrue
  <1>4. event = ToArsEvent(p, ctx)
    BY DEF Ingested
  <1>5. p.name \in {"ActionRecorded", "ClaimSubmitted", "ClaimResolved",
                    "ArbiterRuled", "CreditDrawn"} \cup OtherNames
    BY <1>2, PayloadFields
  <1>. HIDE DEF at
  <1>6. CASE p.name = "ActionRecorded"
    <2>1. event = [type |-> "EvidenceSubmitted", jobId |-> Hex(p.actionHash), at |-> at,
                   outcome |-> IF p.outcome = 0 THEN "success" ELSE "failed"]
      BY <1>4, <1>6 DEF ToArsEvent, FromAction
    <2>2. Hex(p.actionHash) = e.jobId
      BY <1>3, <1>6 DEF EntryIsTrue
    <2>. HIDE DEF e, event
    <2>3. event \in EvidenceSubmitted
      BY <1>1, <1>2, <2>1, <2>2 DEF EvidenceSubmitted
    <2>4. /\ event.jobId = e.jobId /\ event.type = "EvidenceSubmitted"
          /\ (p.outcome = 0) <=> (event.outcome = "success")
      BY <2>1, <2>2
    <2>5. event \in ArsEvent /\ event # NoEvent
      BY <2>3, NullAssumption DEF ArsEvent
    <2>. QED  BY <1>6, <2>4, <2>5 DEF Brought, e, event
  <1>7. CASE p.name \in {"ClaimSubmitted", "ClaimResolved", "ArbiterRuled", "CreditDrawn"}
    <2>1. CASE id = NoId
      <3>1. event = NoEvent
        BY <1>4, <1>7, <2>1 DEF ToArsEvent
      <3>. QED  BY <1>2, <2>1, <3>1
    <2>2. CASE id = e.jobId
      <3>1. event = FromClaimOrCredit(p, ctx)
        <4>1. event = IF ctx.jobId = NoId THEN NoEvent ELSE FromClaimOrCredit(p, ctx)
          BY <1>4, <1>7 DEF ToArsEvent
        <4>. QED  BY <1>2, <2>2, <4>1
      <3>2. CASE p.name = "ClaimSubmitted"
        <4>1. event = [type |-> "Disputed", jobId |-> id, at |-> at, claim |-> p.claim]
          BY <3>1, <3>2 DEF FromClaimOrCredit
        <4>2. p.claim \in Claims
          BY <1>2, <3>2, PayloadFields
        <4>. HIDE DEF e, event
        <4>3. /\ event \in Disputed /\ event.jobId = e.jobId
              /\ event.type = "Disputed" /\ event.claim = p.claim
          BY <1>1, <1>2, <2>2, <4>1, <4>2 DEF Disputed
        <4>4. event \in ArsEvent /\ event # NoEvent
          BY <4>3, NullAssumption DEF ArsEvent
        <4>. QED  BY <3>2, <4>3, <4>4 DEF Brought, e, event
      <3>3. CASE p.name \in {"ClaimResolved", "ArbiterRuled"}
        <4>. DEFINE verdict == IF p.name = "ClaimResolved"
                               THEN ClaimStatusResolution(p.status)
                               ELSE RulingResolution(p.ruling)
        <4>1. event = [type |-> "Closed", jobId |-> id, at |-> at, resolution |-> verdict]
          BY <3>1, <3>3 DEF FromClaimOrCredit
        <4>2. /\ verdict \in Verdicts
              /\ e.paid <=> (verdict = "dispute_upheld")
          BY <1>2, <1>3, <3>3
             DEF EntryIsTrue, ClaimStatusResolution, RulingResolution, Verdicts
        <4>. HIDE DEF e, event, verdict
        <4>3. /\ event \in Closed /\ event.jobId = e.jobId /\ event.type = "Closed"
              /\ event.resolution = verdict
          BY <1>1, <1>2, <2>2, <4>1, <4>2 DEF Closed, Verdicts, Resolutions
        <4>4. event \in ArsEvent /\ event # NoEvent
          BY <4>3, NullAssumption DEF ArsEvent
        <4>. QED  BY <3>3, <4>2, <4>3, <4>4 DEF Brought, e, event
      <3>4. CASE p.name = "CreditDrawn"
        <4>1. event = [type |-> "PrincipalReleased", jobId |-> id, at |-> at,
                       amountAtomic |-> p.amount]
          BY <3>1, <3>4 DEF FromClaimOrCredit
        <4>2. p.amount \in Amounts
          BY <1>2, <3>4, PayloadFields
        <4>. HIDE DEF e, event
        <4>3. /\ event \in PrincipalReleased /\ event.jobId = e.jobId
              /\ event.type = "PrincipalReleased" /\ event.amountAtomic = p.amount
          BY <1>1, <1>2, <2>2, <4>1, <4>2 DEF PrincipalReleased
        <4>4. event \in ArsEvent /\ event # NoEvent
          BY <4>3, NullAssumption DEF ArsEvent
        <4>. QED  BY <3>4, <4>3, <4>4 DEF Brought, e, event
      <3>. QED  BY <1>7, <3>2, <3>3, <3>4
    <2>. QED  BY <1>2, <2>1, <2>2
  <1>8. CASE p.name \in OtherNames
    <2>1. event = NoEvent
      BY <1>4, <1>8, OtherNamesAssumption DEF ToArsEvent
    <2>. QED  BY <1>8, <2>1
  <1>. QED  BY <1>5, <1>6, <1>7, <1>8

LEMMA OneEmitted ==
  ASSUME NEW e, EntryIsTrue(e), Permitted(e), Emit(<<e>>), e \in LedgerEntry,
         UNCHANGED <<logs, seen, expired>>
  PROVE  \E entries \in Seq(LedgerEntry) : Emits(entries)
PROOF
  <1>1. /\ <<e>> \in Seq(LedgerEntry)
        /\ \A n \in 1 .. Len(<<e>>) : n = 1 /\ <<e>>[n] = e
    OBVIOUS
  <1>2. Emits(<<e>>)
    BY <1>1 DEF Emits
  <1>. QED  BY <1>1, <1>2

LEMMA TwoEmitted ==
  ASSUME NEW d, NEW e, Emit(<<d, e>>), d \in LedgerEntry, e \in LedgerEntry,
         EntryIsTrue(d), Permitted(d), EntryIsTrue(e), Permitted(e), OneRuling(d, e),
         UNCHANGED <<logs, seen, expired>>
  PROVE  \E entries \in Seq(LedgerEntry) : Emits(entries)
PROOF
  <1>1. <<d, e>> \in Seq(LedgerEntry)
    OBVIOUS
  <1>2. \A n \in 1 .. Len(<<d, e>>) :
          (n = 1 /\ <<d, e>>[n] = d) \/ (n = 2 /\ <<d, e>>[n] = e)
    OBVIOUS
  <1>3. OneRuling(e, d)
    BY DEF OneRuling
  <1>4. Emits(<<d, e>>)
    BY <1>2, <1>3 DEF Emits
  <1>. QED  BY <1>1, <1>4

\* The claims of the two ruling events, and of a builder's answer, are open.
LEMMA OpenWasSubmitted ==
  ASSUME NEW j, NEW c, Open(j, c)
  PROVE  Entries(j, "ClaimSubmitted") # {}
PROOF
  BY DEF Open

LEMMA ProgramEmits ==
  ASSUME IInv, Program
  PROVE  \E entries \in Seq(LedgerEntry) : Emits(entries)
PROOF
  <1>1. ASSUME NEW j \in Jobs, NEW amount \in Amounts, Draw(j, amount)
        PROVE  \E entries \in Seq(LedgerEntry) : Emits(entries)
    <2>. DEFINE p == [name |-> "CreditDrawn", amount |-> amount]
                e == Entry(j, p, FALSE)
    <2>1. p \in Payload /\ p.name = "CreditDrawn"
      BY DEF Payload
    <2>2. e \in LedgerEntry /\ e.jobId = j /\ e.payload = p
      <3>. HIDE DEF p
      <3>. QED  BY <2>1 DEF Entry, LedgerEntry
    <2>3. Stage(j) \in Passed
      BY <1>1 DEF Draw, IInv, SeenHasPassed
    <2>4. Emit(<<e>>) /\ UNCHANGED <<logs, seen, expired>>
      BY <1>1 DEF Draw
    <2>. HIDE DEF p, e
    <2>5. EntryIsTrue(e) /\ Permitted(e)
      BY <2>1, <2>2, <2>3 DEF EntryIsTrue, Permitted, Cause
    <2>. QED  BY <2>2, <2>4, <2>5, OneEmitted
  <1>2. ASSUME NEW hash \in ActionHashes, NEW outcome \in Outcomes,
               RecordAction(hash, outcome)
        PROVE  \E entries \in Seq(LedgerEntry) : Emits(entries)
    <2>. DEFINE p == [name |-> "ActionRecorded", actionHash |-> hash,
                      outcome |-> outcome]
                e == Entry(Hex(hash), p, FALSE)
    <2>1. p \in Payload /\ p.name = "ActionRecorded" /\ p.actionHash = hash
      BY DEF Payload
    <2>2. Hex(hash) \in Jobs
      BY DEF Jobs
    <2>3. e \in LedgerEntry /\ e.jobId = Hex(hash) /\ e.payload = p
      <3>. HIDE DEF p
      <3>. QED  BY <2>1, <2>2 DEF Entry, LedgerEntry
    <2>4. Emit(<<e>>) /\ UNCHANGED <<logs, seen, expired>>
      BY <1>2 DEF RecordAction
    <2>5. Entries(Hex(hash), "ActionRecorded") = {}
      BY <1>2 DEF RecordAction
    <2>. HIDE DEF p, e
    <2>6. EntryIsTrue(e) /\ Permitted(e)
      BY <2>1, <2>3, <2>5 DEF EntryIsTrue, Permitted, Cause
    <2>. QED  BY <2>3, <2>4, <2>6, OneEmitted
  <1>3. ASSUME NEW j \in Jobs, NEW c \in Claims, SubmitClaim(j, c)
        PROVE  \E entries \in Seq(LedgerEntry) : Emits(entries)
    <2>. DEFINE p == [name |-> "ClaimSubmitted", claim |-> c]
                e == Entry(j, p, FALSE)
    <2>1. p \in Payload /\ p.name = "ClaimSubmitted"
      BY DEF Payload
    <2>2. e \in LedgerEntry /\ e.jobId = j /\ e.payload = p
      <3>. HIDE DEF p
      <3>. QED  BY <2>1 DEF Entry, LedgerEntry
    <2>3. /\ Emit(<<e>>) /\ UNCHANGED <<logs, seen, expired>>
          /\ Entries(j, "ActionRecorded") # {}
      BY <1>3 DEF SubmitClaim
    <2>. HIDE DEF p, e
    <2>4. EntryIsTrue(e) /\ Permitted(e)
      BY <2>1, <2>2, <2>3 DEF EntryIsTrue, Permitted, Cause
    <2>. QED  BY <2>2, <2>3, <2>4, OneEmitted
  <1>4. ASSUME NEW j \in Jobs, NEW c \in Claims, NEW status \in ClaimStatuses,
               NEW paid \in BOOLEAN, paid <=> status \notin {3, 7},
               Entries(j, "ClaimSubmitted") # {}
        PROVE  LET e == Resolved(j, c, status, paid)
               IN  e \in LedgerEntry /\ EntryIsTrue(e) /\ Permitted(e)
    <2>. DEFINE p == [name |-> "ClaimResolved", claim |-> c, status |-> status]
                e == Resolved(j, c, status, paid)
    <2>1. p \in Payload /\ p.name = "ClaimResolved" /\ p.status = status
      BY DEF Payload
    <2>2. e \in LedgerEntry /\ e.jobId = j /\ e.payload = p /\ e.paid = paid
      <3>1. e = [jobId |-> j, payload |-> p, paid |-> paid]
        BY DEF Resolved, Entry
      <3>. HIDE DEF p, e
      <3>. QED  BY <2>1, <3>1 DEF LedgerEntry
    <2>. HIDE DEF p, e
    <2>3. EntryIsTrue(e) /\ Permitted(e)
      BY <1>4, <2>1, <2>2 DEF EntryIsTrue, Permitted, Cause
    <2>. QED  BY <2>2, <2>3 DEF e
  <1>5. ASSUME NEW j \in Jobs, NEW c \in Claims, NEW accept \in BOOLEAN,
               ResolveClaim(j, c, accept)
        PROVE  \E entries \in Seq(LedgerEntry) : Emits(entries)
    <2>. DEFINE status == IF accept THEN 1 ELSE 3
                e == Resolved(j, c, status, accept)
    <2>1. status \in ClaimStatuses /\ (accept <=> status \notin {3, 7})
      BY DecodedAssumption
    <2>2. Entries(j, "ClaimSubmitted") # {}
      BY <1>5, OpenWasSubmitted DEF ResolveClaim
    <2>3. Emit(<<e>>) /\ UNCHANGED <<logs, seen, expired>>
      BY <1>5 DEF ResolveClaim
    <2>. HIDE DEF status
    <2>4. e \in LedgerEntry /\ EntryIsTrue(e) /\ Permitted(e)
      BY <1>4, <2>1, <2>2
    <2>. HIDE DEF e
    <2>. QED  BY <2>3, <2>4, OneEmitted
  <1>6. ASSUME NEW j \in Jobs, NEW c \in Claims, NEW ruling \in Rulings,
               Arbitrate(j, c, ruling)
        PROVE  \E entries \in Seq(LedgerEntry) : Emits(entries)
    <2>. DEFINE forUser == ruling # 1
                status == IF forUser THEN 4 ELSE 7
                p == [name |-> "ArbiterRuled", claim |-> c, ruling |-> ruling]
                ruled == Entry(j, p, forUser)
                resolved == Resolved(j, c, status, forUser)
    <2>1. /\ status \in ClaimStatuses /\ forUser \in BOOLEAN
          /\ forUser <=> status \notin {3, 7}
      BY DecodedAssumption
    <2>2. Entries(j, "ClaimSubmitted") # {}
      BY <1>6, OpenWasSubmitted DEF Arbitrate
    <2>3. /\ Emit(<<ruled, resolved>>) \/ Emit(<<resolved, ruled>>)
          /\ UNCHANGED <<logs, seen, expired>>
      BY <1>6 DEF Arbitrate
    <2>4. /\ resolved \in LedgerEntry /\ EntryIsTrue(resolved) /\ Permitted(resolved)
          /\ resolved.jobId = j /\ resolved.paid = forUser
          /\ resolved.payload.name = "ClaimResolved"
      <3>. HIDE DEF forUser, status
      <3>. QED  BY <1>4, <2>1, <2>2 DEF Resolved, Entry
    <2>5. p \in Payload /\ p.name = "ArbiterRuled" /\ p.ruling = ruling
      BY DEF Payload
    <2>6. /\ ruled \in LedgerEntry /\ ruled.jobId = j /\ ruled.payload = p
          /\ ruled.paid = forUser
      <3>. HIDE DEF p, forUser
      <3>. QED  BY <2>1, <2>5 DEF Entry, LedgerEntry
    <2>. HIDE DEF p, ruled, resolved, status
    <2>7. forUser <=> p.ruling # 1
      BY <2>5
    <2>. HIDE DEF forUser
    <2>8. EntryIsTrue(ruled) /\ Permitted(ruled)
      <3>1. ruled.payload.name = "ArbiterRuled" /\ (ruled.paid <=> ruled.payload.ruling # 1)
        BY <2>5, <2>6, <2>7
      <3>. QED  BY <2>2, <2>6, <3>1 DEF EntryIsTrue, Permitted, Cause
    <2>9. OneRuling(ruled, resolved) /\ OneRuling(resolved, ruled)
      BY <2>4, <2>5, <2>6 DEF OneRuling
    <2>. QED  BY <2>3, <2>4, <2>6, <2>8, <2>9, TwoEmitted
  <1>7. \A hash \in ActionHashes : Hex(hash) \in Jobs
    BY DEF Jobs
  <1>. QED  BY <1>1, <1>2, <1>3, <1>5, <1>6, <1>7 DEF Program

\* A delivery skips, lands or bounces.
LEMMA DeliverCases ==
  ASSUME IInv, NEW n \in 1 .. Len(ledger), Deliver(n)
  PROVE  \/ Skips(n)
         \/ \E event \in ArsEvent : Lands(n, event) \/ Bounces(n, event)
PROOF
  <1>1. Counts(n)
    BY DEF Deliver, Counts
  <1>2. PICK id \in ResolvedIds(n) :
          LET event == Ingested(n, id)
          IN  \/ event = NoEvent /\ UNCHANGED <<logs, seen, refused>>
              \/ event # NoEvent /\ Store!AppendEvent(event) /\ UNCHANGED refused
              \/ event # NoEvent /\ Store!RejectEvent(event) /\ refused' = refused \cup {n}
    BY DEF Deliver
  <1>3. PICK event : event = Ingested(n, id)
    OBVIOUS
  <1>4. \/ event = NoEvent /\ UNCHANGED <<logs, seen, refused>>
        \/ event # NoEvent /\ Store!AppendEvent(event) /\ UNCHANGED refused
        \/ event # NoEvent /\ Store!RejectEvent(event) /\ refused' = refused \cup {n}
    BY <1>2, <1>3 DEF Store!AppendEvent, Store!RejectEvent, Store!Accepts, Store!vars
  <1>5. /\ event # NoEvent => event \in ArsEvent /\ Brought(n, event)
        /\ ~ MayMissJobId /\ event = NoEvent => ledger[n].payload.name \in OtherNames
    BY <1>3, IngestedEvent DEF IInv
  <1>. QED
    BY <1>1, <1>4, <1>5
       DEF Skips, Lands, Bounces, Store!RejectEvent, Store!vars

LEMMA SettlementCases ==
  ASSUME IInv, Settlement
  PROVE  Looks \/ \E event \in ArsEvent : OffChain(event)
PROOF
  <1>1. ASSUME NEW event \in JobOpened \cup UnderwritingStarted \cup UnderwritingDecided,
               Underwrite(event)
        PROVE  \E e \in ArsEvent : OffChain(e)
    <2>1. /\ event \in ArsEvent
          /\ event.type \in {"JobOpened", "UnderwritingStarted", "UnderwritingDecided"}
      BY DEF ArsEvent, JobOpened, UnderwritingStarted, UnderwritingDecided, Of
    <2>. QED  BY <1>1, <2>1 DEF Underwrite, OffChain
  <1>2. ASSUME NEW j \in Jobs, ReadJob(j) PROVE Looks
    <2>. DEFINE job == Store!Current(j)
    <2>1. /\ seen' = [seen EXCEPT !["settlement"] = job] /\ logs' = logs
          /\ UNCHANGED chainVars /\ expired' = expired
      BY <1>2 DEF ReadJob, Store!ReadJob
    <2>2. j \in JobIds
      BY JobsAreIds
    <2>3. /\ job \in Job \cup {NoJob}
          /\ job # NoJob => job.jobId = j /\ job.state = Stage(j)
      BY <2>2, CurrentJob DEF IInv
    <2>. HIDE DEF job
    <2>4. /\ seen' \in [{"settlement"} -> Job \cup {NoJob}]
          /\ seen'["settlement"] = job
      BY <2>1, <2>3 DEF IInv, Shapes
    <2>5. \A i : Stage(i)' = Stage(i)
      BY <2>1 DEF Stage
    <2>6. SeenHasPassed'
      BY <2>3, <2>4, <2>5 DEF SeenHasPassed, Passed, Executed
    <2>. QED  BY <2>1, <2>4, <2>6 DEF Looks, IInv, Shapes
  <1>3. ASSUME NEW j \in Jobs, ExpireWindow(j) PROVE Looks
    <2>1. /\ seen' = [seen EXCEPT !["settlement"] = NoJob] /\ logs' = logs
          /\ UNCHANGED chainVars /\ expired' = expired \cup {j}
      BY <1>3 DEF ExpireWindow
    <2>2. /\ seen' \in [{"settlement"} -> Job \cup {NoJob}]
          /\ seen'["settlement"] = NoJob
      BY <2>1 DEF IInv, Shapes
    <2>. QED  BY <2>1, <2>2 DEF Looks, SeenHasPassed, IInv, Shapes
  <1>4. ASSUME NEW j \in Jobs, CloseClean(j)
        PROVE  \E event \in ArsEvent : OffChain(event)
    <2>1. PICK event \in Closed :
            event.resolution = "no_dispute" /\ Store!AppendEvent(event)
      BY <1>4 DEF CloseClean
    <2>2. event \in ArsEvent /\ event.type = "Closed"
      BY DEF ArsEvent, Closed
    <2>. QED  BY <1>4, <2>1, <2>2 DEF CloseClean, OffChain
  <1>. QED  BY <1>1, <1>2, <1>3, <1>4 DEF Settlement

LEMMA NextCases ==
  ASSUME IInv, Next
  PROVE  \/ \E entries \in Seq(LedgerEntry) : Emits(entries)
         \/ \E n \in 1 .. Len(ledger) :
              \/ Skips(n)
              \/ \E event \in ArsEvent : Lands(n, event) \/ Bounces(n, event)
         \/ Looks \/ \E event \in ArsEvent : OffChain(event)
PROOF
  BY ProgramEmits, DeliverCases, SettlementCases DEF Next, Indexer

-----------------------------------------------------------------------------
(***************************************************************************)
(* The invariant is inductive.                                             *)
(***************************************************************************)
LEMMA Extended ==
  ASSUME NEW S, NEW s \in Seq(S), NEW t \in Seq(S)
  PROVE  /\ s \o t \in Seq(S) /\ Len(s \o t) = Len(s) + Len(t)
         /\ \A n \in 1 .. Len(s) : (s \o t)[n] = s[n]
         /\ \A n \in 1 .. Len(s \o t) : n > Len(s) => (s \o t)[n] = t[n - Len(s)]
PROOF
  OBVIOUS

\* An emission extends the ledger by undelivered entries.
LEMMA Grown ==
  ASSUME Shapes, NEW entries \in Seq(LedgerEntry), Emits(entries)
  PROVE  /\ Shapes'
         /\ logs' = logs /\ seen' = seen /\ refused' = refused
         /\ Len(ledger) \in Nat /\ Len(ledger) <= Len(ledger') /\ Len(ledger') \in Nat
         /\ \A n \in 1 .. Len(ledger) :
              ledger'[n] = ledger[n] /\ delivered'[n] = delivered[n]
         /\ \A n \in 1 .. Len(ledger') :
              n \notin 1 .. Len(ledger) =>
                /\ n > Len(ledger) /\ delivered'[n] = 0
                /\ \E e \in LedgerEntry :
                     ledger'[n] = e /\ EntryIsTrue(e) /\ Permitted(e)
         /\ \A m, n \in 1 .. Len(ledger') :
              m > Len(ledger) /\ n > Len(ledger) /\ m # n =>
                OneRuling(ledger'[m], ledger'[n])
PROOF
  <1>. DEFINE zeros == [n \in 1 .. Len(entries) |-> 0]
  <1>1. /\ ledger' = ledger \o entries /\ delivered' = delivered \o zeros
        /\ refused' = refused /\ logs' = logs /\ seen' = seen /\ expired' = expired
    BY DEF Emits, Emit
  <1>2. /\ ledger \in Seq(LedgerEntry) /\ delivered \in Seq(0 .. MaxDeliveries)
        /\ Len(delivered) = Len(ledger)
        /\ Len(ledger) \in Nat /\ Len(entries) \in Nat
    BY LenProperties DEF Shapes
  <1>3. zeros \in Seq(0 .. MaxDeliveries) /\ Len(zeros) = Len(entries)
    BY <1>2, PolicyAssumption
  <1>4. \A n \in 1 .. Len(entries) : zeros[n] = 0
    OBVIOUS
  <1>. HIDE DEF zeros
  <1>5. /\ ledger' \in Seq(LedgerEntry) /\ Len(ledger') = Len(ledger) + Len(entries)
        /\ \A n \in 1 .. Len(ledger) : ledger'[n] = ledger[n]
        /\ \A n \in 1 .. Len(ledger') :
             n > Len(ledger) => ledger'[n] = entries[n - Len(ledger)]
    BY <1>1, <1>2, Extended
  <1>6. /\ delivered' \in Seq(0 .. MaxDeliveries)
        /\ Len(delivered') = Len(ledger) + Len(entries)
        /\ \A n \in 1 .. Len(ledger) : delivered'[n] = delivered[n]
        /\ \A n \in 1 .. Len(delivered') :
             n > Len(ledger) => delivered'[n] = zeros[n - Len(ledger)]
    <2>. DEFINE S == 0 .. MaxDeliveries
                both == delivered \o zeros
    <2>1. delivered \in Seq(S) /\ zeros \in Seq(S)
      BY <1>2, <1>3
    <2>. HIDE DEF S
    <2>2. /\ both \in Seq(S) /\ Len(both) = Len(delivered) + Len(zeros)
          /\ \A n \in 1 .. Len(delivered) : both[n] = delivered[n]
          /\ \A n \in 1 .. Len(both) :
               n > Len(delivered) => both[n] = zeros[n - Len(delivered)]
      BY <2>1, Extended
    <2>3. delivered' = both
      BY <1>1
    <2>. HIDE DEF both
    <2>. QED  BY <1>2, <1>3, <2>2, <2>3 DEF S
  <1>7. \A n \in 1 .. Len(ledger') :
          n \notin 1 .. Len(ledger) =>
            /\ n > Len(ledger) /\ delivered'[n] = 0
            /\ \E e \in LedgerEntry :
                 ledger'[n] = e /\ EntryIsTrue(e) /\ Permitted(e)
    <2>. SUFFICES ASSUME NEW n \in 1 .. Len(ledger'), n \notin 1 .. Len(ledger)
                  PROVE  /\ n > Len(ledger) /\ delivered'[n] = 0
                         /\ \E e \in LedgerEntry :
                              ledger'[n] = e /\ EntryIsTrue(e) /\ Permitted(e)
      OBVIOUS
    <2>1. n > Len(ledger) /\ n - Len(ledger) \in 1 .. Len(entries)
      BY <1>2, <1>5
    <2>2. delivered'[n] = 0
      BY <1>4, <1>5, <1>6, <2>1
    <2>3. PICK k \in 1 .. Len(entries) : ledger'[n] = entries[k]
      BY <1>5, <2>1
    <2>4. /\ entries[k] \in LedgerEntry
          /\ EntryIsTrue(entries[k]) /\ Permitted(entries[k])
      BY ElementOfSeq DEF Emits
    <2>. QED  BY <2>1, <2>2, <2>3, <2>4
  <1>8. Shapes'
    BY <1>1, <1>2, <1>5, <1>6 DEF Shapes
  <1>9. ASSUME NEW m \in 1 .. Len(ledger'), NEW n \in 1 .. Len(ledger'),
               m > Len(ledger), n > Len(ledger), m # n
        PROVE  OneRuling(ledger'[m], ledger'[n])
    <2>1. /\ m - Len(ledger) \in 1 .. Len(entries)
          /\ n - Len(ledger) \in 1 .. Len(entries)
          /\ m - Len(ledger) # n - Len(ledger)
      BY <1>2, <1>5, <1>9
    <2>2. OneRuling(entries[m - Len(ledger)], entries[n - Len(ledger)])
      BY <2>1 DEF Emits
    <2>. QED  BY <1>5, <1>9, <2>2
  <1>. QED  BY <1>1, <1>2, <1>5, <1>6, <1>7, <1>8, <1>9

\* A delivery is counted once.
LEMMA Counted ==
  ASSUME Shapes, NEW n \in 1 .. Len(ledger), Counts(n)
  PROVE  /\ ledger' = ledger /\ expired' = expired
         /\ delivered' \in Seq(0 .. MaxDeliveries) /\ Len(delivered') = Len(ledger)
         /\ delivered[n] \in Nat /\ delivered'[n] = delivered[n] + 1
         /\ \A m \in 1 .. Len(ledger) : m # n => delivered'[m] = delivered[m]
         /\ \A m \in 1 .. Len(ledger) : delivered[m] > 0 => delivered'[m] > 0
PROOF
  <1>1. /\ Len(ledger) \in Nat
        /\ delivered \in [1 .. Len(ledger) -> 0 .. MaxDeliveries]
    BY LenProperties DEF Shapes
  <1>2. delivered[n] \in Nat /\ delivered[n] + 1 \in 0 .. MaxDeliveries
    BY <1>1, PolicyAssumption DEF Counts, Deliverable
  <1>3. /\ delivered' = [delivered EXCEPT ![n] = delivered[n] + 1]
        /\ ledger' = ledger /\ expired' = expired
    BY DEF Counts
  <1>4. delivered' \in [1 .. Len(ledger) -> 0 .. MaxDeliveries]
    BY <1>1, <1>2, <1>3
  <1>5. delivered' \in Seq(0 .. MaxDeliveries) /\ Len(delivered') = Len(ledger)
    <2>1. delivered \in Seq(0 .. MaxDeliveries) /\ n \in 1 .. Len(delivered)
      BY DEF Shapes
    <2>2. DOMAIN delivered' = 1 .. Len(ledger)
      BY <1>4
    <2>3. delivered' \in Seq(0 .. MaxDeliveries)
      BY <1>2, <1>3, <2>1, ExceptSeq
    <2>. QED  BY <1>1, <2>2, <2>3, LenProperties
  <1>6. /\ delivered'[n] = delivered[n] + 1
        /\ \A m \in 1 .. Len(ledger) : m # n => delivered'[m] = delivered[m]
    BY <1>1, <1>3
  <1>. QED  BY <1>2, <1>3, <1>5, <1>6

\* What the ledger says does not depend on what was delivered.
LEMMA LedgerStays ==
  ASSUME IInv, ledger' = ledger
  PROVE  /\ LedgerIsTrue' /\ ActedOnce'
         /\ \A j, name : Entries(j, name)' = Entries(j, name)
PROOF
  BY DEF IInv, LedgerIsTrue, ActedOnce, Caused, Entries

LEMMA LogsStay ==
  ASSUME IInv, ledger' = ledger, logs' = logs
  PROVE  LogsAreLegal' /\ DrawnHasPassed' /\ (seen' = seen => SeenHasPassed')
PROOF
  <1>1. \A j : Stage(j)' = Stage(j)
    BY DEF Stage
  <1>. QED
    BY <1>1 DEF IInv, LogsAreLegal, DrawnHasPassed, SeenHasPassed

LEMMA LogsMoveOn ==
  ASSUME IInv, NEW event \in ArsEvent, Store!AppendEvent(event), ledger' = ledger
  PROVE  LogsAreLegal' /\ DrawnHasPassed' /\ SeenHasPassed'
PROOF
  <1>1. \A j \in JobIds : Stage(j) \in Passed => Stage(j)' \in Passed
    BY Onwards DEF IInv
  <1>2. seen' = seen /\ LogsAreLegal'
    BY Appended DEF IInv
  <1>3. DrawnHasPassed'
    <2>. SUFFICES ASSUME NEW n \in 1 .. Len(ledger),
                         ledger[n].payload.name = "CreditDrawn"
                  PROVE  Stage(ledger[n].jobId)' \in Passed
      BY DEF DrawnHasPassed
    <2>1. PICK j \in JobIds : j = ledger[n].jobId
      BY LedgerShape DEF IInv
    <2>2. Stage(j) \in Passed
      BY <2>1 DEF IInv, DrawnHasPassed
    <2>3. Stage(j)' \in Passed
      BY <1>1, <2>2
    <2>4. logs'[j] = logs'[ledger[n].jobId]
      BY <2>1
    <2>. QED  BY <2>3, <2>4 DEF Stage
  <1>4. SeenHasPassed'
    <2>. SUFFICES ASSUME seen["settlement"] # NoJob,
                         seen["settlement"].state \in {"RELEASABLE", "EXECUTING"}
                  PROVE  Stage(seen["settlement"].jobId)' \in Passed
      BY <1>2 DEF SeenHasPassed, Stage
    <2>1. PICK j \in JobIds : j = seen["settlement"].jobId
      BY DEF IInv, Shapes, Job
    <2>2. Stage(j)' \in Passed
      BY <1>1, <2>1 DEF IInv, SeenHasPassed
    <2>3. j = seen'["settlement"].jobId /\ logs'[j] = logs'[seen'["settlement"].jobId]
      BY <1>2, <2>1
    <2>. QED  BY <2>2, <2>3 DEF Stage
  <1>. QED  BY <1>2, <1>3, <1>4

LEMMA InitIInv == Init => IInv
PROOF
  BY DEF Init, Store!Init, IInv, Shapes, LogsAreLegal, LedgerIsTrue, ActedOnce,
         SeenHasPassed, DrawnHasPassed

LEMMA NextIInv == IInv /\ [Next]_vars => IInv'
PROOF
  <1>. SUFFICES ASSUME IInv, [Next]_vars PROVE IInv'
    OBVIOUS
  <1>. USE DEF IInv
  <1>1. ASSUME NEW entries \in Seq(LedgerEntry), Emits(entries) PROVE IInv'
    <2>1. /\ Shapes'
          /\ logs' = logs /\ seen' = seen
          /\ Len(ledger) \in Nat /\ Len(ledger) <= Len(ledger') /\ Len(ledger') \in Nat
          /\ \A n \in 1 .. Len(ledger) : ledger'[n] = ledger[n]
          /\ \A n \in 1 .. Len(ledger') :
               n \notin 1 .. Len(ledger) =>
                 /\ n > Len(ledger)
                 /\ \E e \in LedgerEntry :
                      ledger'[n] = e /\ EntryIsTrue(e) /\ Permitted(e)
          /\ \A m, n \in 1 .. Len(ledger') :
               m > Len(ledger) /\ n > Len(ledger) /\ m # n =>
                 OneRuling(ledger'[m], ledger'[n])
      BY <1>1, Grown
    <2>2. \A j, name : Entries(j, name) \subseteq Entries(j, name)'
      BY <2>1 DEF Entries
    <2>3. \A j : Stage(j)' = Stage(j)
      BY <2>1 DEF Stage
    <2>4. LedgerIsTrue'
      <3>. SUFFICES ASSUME NEW n \in 1 .. Len(ledger')
                    PROVE  EntryIsTrue(ledger'[n]) /\ Caused(ledger[n], n)'
        BY DEF LedgerIsTrue
      <3>1. PICK e : e = ledger'[n]
        OBVIOUS
      <3>2. CASE n \in 1 .. Len(ledger)
        <4>1. e = ledger[n]
          BY <2>1, <3>1, <3>2
        <4>2. EntryIsTrue(e) /\ Caused(e, n)
          BY <3>2, <4>1 DEF LedgerIsTrue
        <4>3. Caused(e, n)'
          BY <2>2, <4>2 DEF Caused
        <4>. QED  BY <3>1, <4>2, <4>3 DEF Caused, Entries
      <3>3. CASE n \notin 1 .. Len(ledger)
        <4>1. n > Len(ledger) /\ EntryIsTrue(e) /\ Permitted(e)
          BY <2>1, <3>1, <3>3
        <4>2. Caused(e, n)'
          <5>. SUFFICES ASSUME e.payload.name \in DOMAIN Cause
                        PROVE  \E m \in Entries(e.jobId, Cause[e.payload.name])' : m < n
            BY DEF Caused
          <5>1. PICK m \in Entries(e.jobId, Cause[e.payload.name]) : TRUE
            BY <4>1 DEF Permitted
          <5>2. m \in 1 .. Len(ledger)
            BY DEF Entries
          <5>3. m < n
            BY <2>1, <4>1, <5>2
          <5>. QED  BY <2>2, <5>1, <5>3
        <4>. QED  BY <3>1, <4>1, <4>2 DEF Caused, Entries
      <3>. QED  BY <3>2, <3>3
    <2>5. DrawnHasPassed'
      <3>. SUFFICES ASSUME NEW n \in 1 .. Len(ledger'),
                           ledger'[n].payload.name = "CreditDrawn"
                    PROVE  Stage(ledger'[n].jobId) \in Passed
        BY <2>1 DEF DrawnHasPassed, Stage
      <3>1. CASE n \in 1 .. Len(ledger)
        BY <2>1, <3>1 DEF DrawnHasPassed
      <3>2. CASE n \notin 1 .. Len(ledger)
        BY <2>1, <3>2 DEF Permitted
      <3>. QED  BY <3>1, <3>2
    <2>6. LogsAreLegal' /\ SeenHasPassed'
      BY <2>1, <2>3 DEF LogsAreLegal, SeenHasPassed
    <2>7. ActedOnce'
      <3>. DEFINE Acts(k) == ledger[k].payload.name = "ActionRecorded"
      <3>. SUFFICES ASSUME NEW n \in 1 .. Len(ledger'), NEW m \in 1 .. Len(ledger'),
                           Acts(n)', Acts(m)', ledger'[m].jobId = ledger'[n].jobId
                    PROVE  n <= m
        BY DEF ActedOnce, IsFirst, Entries
      <3>1. CASE n \in 1 .. Len(ledger) /\ m \in 1 .. Len(ledger)
        <4>1. m \in Entries(ledger[n].jobId, "ActionRecorded")
          BY <2>1, <3>1 DEF Entries
        <4>. QED  BY <2>1, <3>1, <4>1 DEF ActedOnce, IsFirst
      <3>2. CASE n \in 1 .. Len(ledger) /\ m \notin 1 .. Len(ledger)
        BY <2>1, <3>2
      <3>3. CASE n \notin 1 .. Len(ledger) /\ m \in 1 .. Len(ledger)
        <4>1. m \in Entries(ledger'[n].jobId, "ActionRecorded")
          BY <2>1, <3>3 DEF Entries
        <4>. QED  BY <2>1, <3>3, <4>1 DEF Permitted
      <3>4. CASE n \notin 1 .. Len(ledger) /\ m \notin 1 .. Len(ledger)
        <4>1. m = n
          BY <2>1, <3>4 DEF OneRuling
        <4>. QED  BY <4>1
      <3>. QED  BY <3>1, <3>2, <3>3, <3>4
    <2>. QED  BY <2>1, <2>4, <2>5, <2>6, <2>7
  <1>2. ASSUME NEW n \in 1 .. Len(ledger), Skips(n) PROVE IInv'
    <2>1. Counts(n) /\ logs' = logs /\ seen' = seen /\ refused' = refused
      BY <1>2 DEF Skips
    <2>2. Shapes'
      BY <2>1, Counted DEF Shapes
    <2>. QED  BY <2>1, <2>2, Counted, LedgerStays, LogsStay
  <1>3. ASSUME NEW n \in 1 .. Len(ledger), NEW event \in ArsEvent, Lands(n, event)
        PROVE  IInv'
    <2>1. Counts(n) /\ Store!AppendEvent(event) /\ refused' = refused
      BY <1>3 DEF Lands
    <2>2. seen' = seen /\ logs' \in [JobIds -> Seq(ArsEvent)]
      BY <2>1, Appended
    <2>3. Shapes'
      BY <2>1, <2>2, Counted DEF Shapes
    <2>. QED  BY <2>1, <2>3, Counted, LedgerStays, LogsMoveOn
  <1>4. ASSUME NEW n \in 1 .. Len(ledger), NEW event \in ArsEvent, Bounces(n, event)
        PROVE  IInv'
    <2>1. Counts(n) /\ logs' = logs /\ seen' = seen /\ refused' = refused \cup {n}
      BY <1>4 DEF Bounces
    <2>2. delivered'[n] > 0
      BY <2>1, Counted
    <2>3. Shapes'
      BY <2>1, <2>2, Counted DEF Shapes
    <2>. QED  BY <2>1, <2>3, Counted, LedgerStays, LogsStay
  <1>5. ASSUME NEW event \in ArsEvent, OffChain(event) PROVE IInv'
    <2>1. /\ Store!AppendEvent(event) /\ ledger' = ledger /\ delivered' = delivered
          /\ refused' = refused /\ expired' = expired
      BY <1>5 DEF OffChain, chainVars
    <2>2. seen' = seen /\ logs' \in [JobIds -> Seq(ArsEvent)]
      BY <2>1, Appended
    <2>3. Shapes'
      BY <2>1, <2>2 DEF Shapes
    <2>. QED  BY <2>1, <2>3, LedgerStays, LogsMoveOn
  <1>6. ASSUME Looks PROVE IInv'
    <2>1. Shapes' /\ SeenHasPassed' /\ ledger' = ledger /\ logs' = logs
      BY <1>6 DEF Looks, chainVars, Shapes
    <2>. QED  BY <2>1, LedgerStays, LogsStay
  <1>7. ASSUME UNCHANGED vars PROVE IInv'
    <2>1. Shapes' /\ seen' = seen /\ ledger' = ledger /\ logs' = logs
      BY <1>7 DEF vars, Shapes
    <2>. QED  BY <2>1, LedgerStays, LogsStay
  <1>. QED  BY <1>1, <1>2, <1>3, <1>4, <1>5, <1>6, <1>7, NextCases

LEMMA SpecIInv == Spec => []IInv
PROOF
  BY InitIInv, NextIInv, PTL DEF Spec

-----------------------------------------------------------------------------
(***************************************************************************)
(* What holds however the indexer behaves.                                 *)
(***************************************************************************)
\* Every variable keeps its shape: the logs and jobs of the store, the ledger
\* and what was delivered and refused of it.
THEOREM SpecTypeOK == Spec => []TypeOK
PROOF
  <1>1. IInv => TypeOK
    <2>. SUFFICES ASSUME IInv PROVE TypeOK
      OBVIOUS
    <2>1. Store!TypeOK
      BY StoreTypes DEF Store!TypeOK, IInv, Shapes
    <2>. QED  BY <2>1, LedgerShape DEF TypeOK, IInv, Shapes
  <1>. QED  BY <1>1, SpecIInv, PTL

\* The ledger entry that accounts for an event in the log of job j.
EvidenceIsBacked(j, event) ==
  event.type = "EvidenceSubmitted" =>
    \E m \in Entries(j, "ActionRecorded") :
      (ledger[m].payload.outcome = 0) <=> (event.outcome = "success")

VerdictIsBacked(j, event) ==
  event.type = "Closed" /\ event.resolution \in Verdicts =>
    \E m \in VerdictEntries(j) : ledger[m].paid <=> (event.resolution = "dispute_upheld")

LogsAreBacked ==
  \A j \in Jobs : \A n \in 1 .. Len(logs[j]) :
    EvidenceIsBacked(j, logs[j][n]) /\ VerdictIsBacked(j, logs[j][n])

\* An event that is backed when it is appended leaves its log backed.
LEMMA BackedAppend ==
  ASSUME IInv, LogsAreBacked, NEW event \in ArsEvent, Store!AppendEvent(event),
         ledger' = ledger,
         event.jobId \in Jobs =>
           EvidenceIsBacked(event.jobId, event) /\ VerdictIsBacked(event.jobId, event)
  PROVE  LogsAreBacked'
PROOF
  <1>1. \A j, name : Entries(j, name)' = Entries(j, name)
    BY LedgerStays
  <1>2. \A j, e : /\ EvidenceIsBacked(j, e) => EvidenceIsBacked(j, e)'
                  /\ VerdictIsBacked(j, e) => VerdictIsBacked(j, e)'
    BY <1>1 DEF EvidenceIsBacked, VerdictIsBacked, VerdictEntries
  <1>. SUFFICES ASSUME NEW j \in Jobs, NEW n \in 1 .. Len(logs'[j])
                PROVE  (EvidenceIsBacked(j, logs[j][n]) /\ VerdictIsBacked(j, logs[j][n]))'
    BY DEF LogsAreBacked
  <1>3. PICK e : e = logs'[j][n]
    OBVIOUS
  <1>4. j \in JobIds /\ logs[j] \in Seq(ArsEvent)
    BY JobsAreIds DEF IInv, Shapes
  <1>5. EvidenceIsBacked(j, e) /\ VerdictIsBacked(j, e)
    <2>1. CASE j # event.jobId
      BY <1>3, <1>4, <2>1, Onwards DEF IInv, LogsAreBacked
    <2>2. CASE j = event.jobId
      <3>1. logs'[j] = Append(logs[j], event)
        BY <1>4, <2>2, Appended DEF IInv, Shapes
      <3>2. n \in 1 .. Len(logs[j]) \/ logs'[j][n] = event
        BY <1>4, <3>1
      <3>3. n \in 1 .. Len(logs[j]) => logs'[j][n] = logs[j][n]
        BY <1>4, <3>1
      <3>. QED  BY <1>3, <2>2, <3>2, <3>3 DEF LogsAreBacked
    <2>. QED  BY <2>1, <2>2
  <1>6. EvidenceIsBacked(j, e)' /\ VerdictIsBacked(j, e)'
    BY <1>2, <1>5
  <1>. QED  BY <1>3, <1>6 DEF EvidenceIsBacked, VerdictIsBacked

LEMMA NextLogsAreBacked ==
  IInv /\ LogsAreBacked /\ [Next]_vars => LogsAreBacked'
PROOF
  <1>. SUFFICES ASSUME IInv, LogsAreBacked, [Next]_vars PROVE LogsAreBacked'
    OBVIOUS
  <1>1. ASSUME NEW entries \in Seq(LedgerEntry), Emits(entries) PROVE LogsAreBacked'
    <2>1. /\ logs' = logs /\ Len(ledger) \in Nat /\ Len(ledger') \in Nat
          /\ Len(ledger) <= Len(ledger')
          /\ \A n \in 1 .. Len(ledger) : ledger'[n] = ledger[n]
      BY <1>1, Grown DEF IInv
    <2>2. \A j, name : \A m \in Entries(j, name) :
            m \in Entries(j, name)' /\ ledger'[m] = ledger[m]
      BY <2>1 DEF Entries
    <2>3. \A j, e : /\ EvidenceIsBacked(j, e) => EvidenceIsBacked(j, e)'
                    /\ VerdictIsBacked(j, e) => VerdictIsBacked(j, e)'
      BY <2>2 DEF EvidenceIsBacked, VerdictIsBacked, VerdictEntries
    <2>. SUFFICES ASSUME NEW j \in Jobs, NEW n \in 1 .. Len(logs[j])
                  PROVE  (EvidenceIsBacked(j, logs[j][n]) /\ VerdictIsBacked(j, logs[j][n]))'
      BY <2>1 DEF LogsAreBacked
    <2>4. PICK e : e = logs[j][n]
      OBVIOUS
    <2>5. EvidenceIsBacked(j, e)' /\ VerdictIsBacked(j, e)'
      BY <2>3, <2>4 DEF LogsAreBacked
    <2>. QED  BY <2>1, <2>4, <2>5 DEF EvidenceIsBacked, VerdictIsBacked
  <1>2. ASSUME logs' = logs, ledger' = ledger PROVE LogsAreBacked'
    BY <1>2 DEF LogsAreBacked, EvidenceIsBacked, VerdictIsBacked, VerdictEntries, Entries
  <1>3. ASSUME NEW n \in 1 .. Len(ledger), NEW event \in ArsEvent, Lands(n, event)
        PROVE  LogsAreBacked'
    <2>1. /\ Store!AppendEvent(event) /\ ledger' = ledger
          /\ Brought(n, event)
      BY <1>3 DEF Lands, Counts
    <2>2. /\ EvidenceIsBacked(event.jobId, event)
          /\ VerdictIsBacked(event.jobId, event)
      BY <2>1 DEF Brought, EvidenceIsBacked, VerdictIsBacked, VerdictEntries, Entries
    <2>. QED  BY <2>1, <2>2, BackedAppend
  <1>4. ASSUME NEW event \in ArsEvent, OffChain(event) PROVE LogsAreBacked'
    <2>1. Store!AppendEvent(event) /\ ledger' = ledger
      BY <1>4 DEF OffChain, chainVars
    <2>2. /\ EvidenceIsBacked(event.jobId, event)
          /\ VerdictIsBacked(event.jobId, event)
      BY <1>4 DEF OffChain, EvidenceIsBacked, VerdictIsBacked, Verdicts
    <2>. QED  BY <2>1, <2>2, BackedAppend
  <1>. QED
    BY <1>1, <1>2, <1>3, <1>4, NextCases
       DEF Skips, Bounces, Looks, Counts, chainVars, vars

LEMMA SpecLogsAreBacked == Spec => []LogsAreBacked
PROOF
  <1>1. Init => LogsAreBacked
    BY JobsAreIds DEF Init, Store!Init, LogsAreBacked
  <1>. QED  BY <1>1, SpecIInv, NextLogsAreBacked, PTL DEF Spec

\* Evidence in a log was recorded on chain for that job, and says success only
\* of a recorded success, whatever was lost, repeated or reordered on the way.
THEOREM SpecEvidenceIsOnChain == Spec => []EvidenceIsOnChain
PROOF
  <1>1. LogsAreBacked => EvidenceIsOnChain
    BY DEF LogsAreBacked, EvidenceIsBacked, EvidenceIsOnChain, Logged
  <1>. QED  BY <1>1, SpecLogsAreBacked, PTL

\* A job closed as upheld had a claim its bond paid, and one closed as
\* rejected a claim that went unpaid.
THEOREM SpecClosedOnARealVerdict == Spec => []ClosedOnARealVerdict
PROOF
  <1>1. LogsAreBacked => ClosedOnARealVerdict
    BY DEF LogsAreBacked, VerdictIsBacked, ClosedOnARealVerdict, ClosedAs, Logged
  <1>. QED  BY <1>1, SpecLogsAreBacked, PTL

-----------------------------------------------------------------------------
(***************************************************************************)
(* A job's released principal against its delivered draws.                 *)
(***************************************************************************)
Draws(j) == Entries(j, "CreditDrawn")

\* The draws of a job, each as often as it was delivered.
Weighted(j) == [n \in Draws(j) |-> delivered[n] * ledger[n].payload.amount]

LEMMA Products ==
  ASSUME NEW a \in Nat, NEW b \in Nat
  PROVE  a * b \in Nat /\ (a + 1) * b = a * b + b /\ 0 * b = 0 /\ 1 * b = b
PROOF
  OBVIOUS

LEMMA DrawsOf ==
  ASSUME NEW l \in Seq(LedgerEntry), NEW d \in Seq(0 .. MaxDeliveries),
         Len(d) = Len(l), NEW j, NEW D,
         D = {n \in 1 .. Len(l) : l[n].jobId = j /\ l[n].payload.name = "CreditDrawn"}
  PROVE  /\ IsFiniteSet(D)
         /\ \A n \in D : /\ n \in 1 .. Len(l) /\ l[n].payload.amount \in Nat
                         /\ d[n] \in Nat /\ d[n] * l[n].payload.amount \in Nat
PROOF
  <1>1. Len(l) \in Nat /\ D \subseteq 1 .. Len(l)
    BY LenProperties
  <1>2. IsFiniteSet(1 .. Len(l))
    BY <1>1, FS_Interval
  <1>3. IsFiniteSet(D)
    BY <1>1, <1>2, FS_Subset
  <1>4. ASSUME NEW n \in D
        PROVE  n \in 1 .. Len(l) /\ l[n].payload.amount \in Nat /\ d[n] \in Nat
    <2>1. l[n] \in LedgerEntry /\ d[n] \in 0 .. MaxDeliveries
      BY <1>1, ElementOfSeq
    <2>2. l[n].payload \in Payload
      BY <2>1 DEF LedgerEntry
    <2>3. l[n].payload.amount \in Amounts
      BY <2>2, PayloadFields
    <2>4. n \in 1 .. Len(l) /\ l[n].payload.amount \in Nat
      BY <1>1, <2>3, AmountsAssumption
    <2>5. d[n] \in Nat
      BY <2>1, PolicyAssumption
    <2>. QED  BY <2>4, <2>5
  <1>5. ASSUME NEW n \in D PROVE d[n] * l[n].payload.amount \in Nat
    BY <1>4, Products
  <1>. QED  BY <1>3, <1>4, <1>5

LEMMA DrawShape ==
  ASSUME Shapes, NEW j
  PROVE  /\ IsFiniteSet(Draws(j))
         /\ \A n \in Draws(j) :
              /\ n \in 1 .. Len(ledger) /\ ledger[n].payload.amount \in Nat
              /\ delivered[n] \in Nat
              /\ delivered[n] * ledger[n].payload.amount \in Nat
              /\ Weighted(j)[n] = delivered[n] * ledger[n].payload.amount
PROOF
  <1>1. PICK l : l = ledger
    OBVIOUS
  <1>2. PICK d : d = delivered
    OBVIOUS
  <1>3. PICK D : D = Draws(j)
    OBVIOUS
  <1>4. /\ l \in Seq(LedgerEntry) /\ d \in Seq(0 .. MaxDeliveries) /\ Len(d) = Len(l)
        /\ D = {n \in 1 .. Len(l) : l[n].jobId = j /\ l[n].payload.name = "CreditDrawn"}
    BY <1>1, <1>2, <1>3 DEF Shapes, Draws, Entries
  <1>5. /\ IsFiniteSet(D)
        /\ \A n \in D : /\ n \in 1 .. Len(l) /\ l[n].payload.amount \in Nat
                        /\ d[n] \in Nat /\ d[n] * l[n].payload.amount \in Nat
    BY <1>4, DrawsOf
  <1>. QED  BY <1>1, <1>2, <1>3, <1>5 DEF Weighted

\* Emitting draws owes nothing less.
LEMMA OwedAfterEmits ==
  ASSUME Shapes, NEW entries \in Seq(LedgerEntry), Emits(entries), NEW j
  PROVE  /\ SumFunction(Weighted(j)) <= SumFunction(Weighted(j))'
         /\ SumFunction(Weighted(j))' \in Nat
PROOF
  <1>1. PICK before : before = Weighted(j)
    OBVIOUS
  <1>2. PICK after : after = Weighted(j)'
    OBVIOUS
  <1>3. PICK old : old = Draws(j)
    OBVIOUS
  <1>4. PICK new : new = Draws(j)'
    OBVIOUS
  <1>5. /\ Shapes' /\ Len(ledger) \in Nat /\ Len(ledger') \in Nat
        /\ Len(ledger) <= Len(ledger')
        /\ \A n \in 1 .. Len(ledger) :
             ledger'[n] = ledger[n] /\ delivered'[n] = delivered[n]
    BY Grown
  <1>6. old \in SUBSET new
    BY <1>3, <1>4, <1>5 DEF Draws, Entries
  <1>7. /\ IsFiniteSet(old)
        /\ \A n \in old : /\ n \in 1 .. Len(ledger) /\ before[n] \in Nat
                          /\ before[n] = delivered[n] * ledger[n].payload.amount
    BY <1>1, <1>3, DrawShape
  <1>8. /\ IsFiniteSet(new)
        /\ \A n \in new : /\ after[n] \in Nat
                          /\ after[n] = delivered'[n] * ledger'[n].payload.amount
    <2>1. PICK l : l = ledger'
      OBVIOUS
    <2>2. PICK d : d = delivered'
      OBVIOUS
    <2>3. /\ l \in Seq(LedgerEntry) /\ d \in Seq(0 .. MaxDeliveries) /\ Len(d) = Len(l)
          /\ new = {n \in 1 .. Len(l) : l[n].jobId = j /\ l[n].payload.name = "CreditDrawn"}
      BY <1>4, <1>5, <2>1, <2>2 DEF Shapes, Draws, Entries
    <2>4. /\ IsFiniteSet(new)
          /\ \A n \in new : d[n] * l[n].payload.amount \in Nat
      BY <2>3, DrawsOf
    <2>5. after = [n \in new |-> d[n] * l[n].payload.amount]
      BY <1>2, <1>4, <2>1, <2>2 DEF Weighted
    <2>. QED  BY <2>1, <2>2, <2>4, <2>5
  <1>9. \A n \in old : before[n] \in Int /\ before[n] = after[n]
    BY <1>5, <1>6, <1>7, <1>8
  <1>10. SumFunctionOnSet(before, old) = SumFunctionOnSet(after, old)
    BY <1>7, <1>9, SumIsEqual
  <1>11. /\ SumFunctionOnSet(after, old) <= SumFunctionOnSet(after, new)
         /\ SumFunctionOnSet(after, new) \in Nat
    BY <1>6, <1>8, SumOfSubset
  <1>12. DOMAIN before = old /\ DOMAIN after = new
    BY <1>1, <1>2, <1>3, <1>4 DEF Weighted
  <1>. QED  BY <1>1, <1>2, <1>10, <1>11, <1>12 DEF SumFunction

\* Delivering an entry owes its amount once more, if it is a draw.
LEMMA OwedAfterDelivery ==
  ASSUME Shapes, NEW n \in 1 .. Len(ledger), Counts(n), NEW j
  PROVE  /\ SumFunction(Weighted(j)) \in Nat
         /\ SumFunction(Weighted(j))' =
              SumFunction(Weighted(j)) +
                (IF n \in Draws(j) THEN ledger[n].payload.amount ELSE 0)
PROOF
  <1>1. PICK before : before = Weighted(j)
    OBVIOUS
  <1>2. PICK after : after = Weighted(j)'
    OBVIOUS
  <1>3. PICK S : S = Draws(j)
    OBVIOUS
  <1>4. /\ ledger' = ledger /\ delivered'[n] = delivered[n] + 1
        /\ \A m \in 1 .. Len(ledger) : m # n => delivered'[m] = delivered[m]
    BY Counted
  <1>5. S = Draws(j)'
    BY <1>3, <1>4 DEF Draws, Entries
  <1>6. /\ IsFiniteSet(S)
        /\ \A m \in S : /\ m \in 1 .. Len(ledger) /\ before[m] \in Nat
                        /\ delivered[m] \in Nat /\ ledger[m].payload.amount \in Nat
                        /\ before[m] = delivered[m] * ledger[m].payload.amount
    BY <1>1, <1>3, DrawShape
  <1>7. \A m \in S : after[m] = delivered'[m] * ledger[m].payload.amount
    BY <1>2, <1>4, <1>5 DEF Weighted
  <1>8. \A m \in S : m # n => after[m] = before[m]
    BY <1>4, <1>6, <1>7
  <1>9. n \in S => after[n] = before[n] + ledger[n].payload.amount
    <2>1. PICK a : a = delivered[n]
      OBVIOUS
    <2>2. PICK b : b = ledger[n].payload.amount
      OBVIOUS
    <2>. SUFFICES ASSUME n \in S PROVE after[n] = before[n] + b
      BY <2>2
    <2>3. a \in Nat /\ b \in Nat /\ before[n] = a * b /\ after[n] = (a + 1) * b
      BY <1>4, <1>6, <1>7, <2>1, <2>2
    <2>. QED  BY <2>3, Products
  <1>10. DOMAIN before = S /\ DOMAIN after = S
    BY <1>1, <1>2, <1>3, <1>5 DEF Weighted
  <1>11. SumFunctionOnSet(before, S) \in Nat
    BY <1>6, SumOfSubset
  <1>12. CASE n \in S
    <2>1. \A m \in S : before[m] \in Int /\ after[m] \in Int
      BY <1>6, <1>8, <1>9
    <2>2. SumFunctionOnSet(after, S) =
            SumFunctionOnSet(before, S) + (after[n] - before[n])
      BY <1>6, <1>8, <1>12, <2>1, SumChange
    <2>3. after[n] - before[n] = ledger[n].payload.amount
      BY <1>6, <1>9, <1>12
    <2>. QED  BY <1>1, <1>2, <1>3, <1>10, <1>11, <1>12, <2>2, <2>3 DEF SumFunction
  <1>13. CASE n \notin S
    <2>1. \A m \in S : before[m] \in Int /\ before[m] = after[m]
      BY <1>6, <1>8, <1>13
    <2>2. SumFunctionOnSet(before, S) = SumFunctionOnSet(after, S)
      BY <1>6, <2>1, SumIsEqual
    <2>. QED  BY <1>1, <1>2, <1>3, <1>10, <1>11, <1>13, <2>2 DEF SumFunction
  <1>. QED  BY <1>12, <1>13

\* The principal a job reports depends on its log alone.
LEMMA ReleasedStays ==
  ASSUME NEW j, logs' = logs
  PROVE  Released(j)' = Released(j)
PROOF
  BY DEF Released, Store!Current

LEMMA NextReleasedWithinDeliveries ==
  IInv /\ ReleasedWithinDeliveries /\ [Next]_vars => ReleasedWithinDeliveries'
PROOF
  <1>. DEFINE Owed(j) == SumFunction(Weighted(j))
  <1>1. ReleasedWithinDeliveries <=> \A j \in Jobs : Released(j) <= Owed(j)
    BY DEF ReleasedWithinDeliveries, Weighted, Draws
  <1>2. ReleasedWithinDeliveries' <=> \A j \in Jobs : Released(j)' <= Owed(j)'
    BY DEF ReleasedWithinDeliveries, Weighted, Draws
  <1>. SUFFICES ASSUME IInv, ReleasedWithinDeliveries, [Next]_vars, NEW j \in Jobs
                PROVE  Released(j)' <= Owed(j)'
    BY <1>2
  <1>3. Released(j) <= Owed(j)
    BY <1>1
  <1>4. j \in JobIds /\ Released(j) \in Nat
    BY JobsAreIds, CurrentJob DEF IInv
  <1>5. Owed(j) \in Nat
    <2>1. /\ IsFiniteSet(Draws(j)) /\ \A n \in Draws(j) : Weighted(j)[n] \in Nat
      BY DrawShape DEF IInv
    <2>2. PICK w : w = Weighted(j)
      OBVIOUS
    <2>3. PICK S : S = Draws(j)
      OBVIOUS
    <2>4. SumFunctionOnSet(w, S) \in Nat
      BY <2>1, <2>2, <2>3, SumOfSubset
    <2>5. DOMAIN w = S
      BY <2>2, <2>3 DEF Weighted
    <2>. QED  BY <2>2, <2>4, <2>5 DEF SumFunction
  <1>6. ASSUME NEW entries \in Seq(LedgerEntry), Emits(entries)
        PROVE  Released(j)' <= Owed(j)'
    <2>1. Released(j)' = Released(j)
      BY <1>6, ReleasedStays DEF Emits
    <2>2. Owed(j) <= Owed(j)'
      BY <1>6, OwedAfterEmits DEF IInv
    <2>3. Owed(j)' \in Int
      BY <1>6, OwedAfterEmits DEF IInv
    <2>. HIDE DEF Owed
    <2>. QED  BY <1>3, <1>4, <1>5, <2>1, <2>2, <2>3
  <1>7. ASSUME NEW n \in 1 .. Len(ledger), Counts(n), logs' = logs
        PROVE  Released(j)' <= Owed(j)'
    <2>1. Released(j)' = Released(j)
      BY <1>7, ReleasedStays
    <2>2. Owed(j)' = Owed(j) + (IF n \in Draws(j) THEN ledger[n].payload.amount ELSE 0)
      BY <1>7, OwedAfterDelivery DEF IInv
    <2>3. n \in Draws(j) => ledger[n].payload.amount \in Nat
      BY DrawShape DEF IInv
    <2>. HIDE DEF Owed
    <2>. QED  BY <1>3, <1>4, <1>5, <2>1, <2>2, <2>3
  <1>8. ASSUME NEW n \in 1 .. Len(ledger), NEW event \in ArsEvent, Lands(n, event)
        PROVE  Released(j)' <= Owed(j)'
    <2>1. Counts(n) /\ Brought(n, event) /\ Store!AppendEvent(event)
      BY <1>8 DEF Lands
    <2>2. Owed(j)' = Owed(j) + (IF n \in Draws(j) THEN ledger[n].payload.amount ELSE 0)
      BY <2>1, OwedAfterDelivery DEF IInv
    <2>3. n \in Draws(j) => ledger[n].payload.amount \in Nat
      BY DrawShape DEF IInv
    <2>4. \/ Released(j)' = Released(j)
          \/ j = event.jobId /\ Released(j)' = Released(j) + AmountOf(event)
      BY <1>4, <2>1, Appended, Onwards DEF IInv
    <2>5. j = event.jobId =>
            AmountOf(event) = IF n \in Draws(j) THEN ledger[n].payload.amount ELSE 0
      BY <2>1 DEF Brought, AmountOf, Draws, Entries
    <2>. HIDE DEF Owed
    <2>. QED  BY <1>3, <1>4, <1>5, <2>2, <2>3, <2>4, <2>5
  <1>9. ASSUME NEW event \in ArsEvent, OffChain(event) PROVE Released(j)' <= Owed(j)'
    <2>1. Store!AppendEvent(event) /\ ledger' = ledger /\ delivered' = delivered
      BY <1>9 DEF OffChain, chainVars
    <2>2. AmountOf(event) = 0
      BY <1>9 DEF OffChain, AmountOf
    <2>3. \/ Released(j)' = Released(j)
          \/ Released(j)' = Released(j) + 0
      BY <1>4, <2>1, <2>2, Appended, Onwards DEF IInv
    <2>4. Owed(j)' = Owed(j)
      BY <2>1 DEF Weighted, Draws, Entries
    <2>. HIDE DEF Owed
    <2>. QED  BY <1>3, <1>4, <1>5, <2>3, <2>4
  <1>10. ASSUME logs' = logs, ledger' = ledger, delivered' = delivered
         PROVE  Released(j)' <= Owed(j)'
    <2>1. Released(j)' = Released(j)
      BY <1>10, ReleasedStays
    <2>2. Owed(j)' = Owed(j)
      BY <1>10 DEF Weighted, Draws, Entries
    <2>. HIDE DEF Owed
    <2>. QED  BY <1>3, <2>1, <2>2
  <1>. HIDE DEF Owed
  <1>. QED
    BY <1>6, <1>7, <1>8, <1>9, <1>10, NextCases
       DEF Skips, Bounces, Looks, chainVars, vars

\* A job reports at most the principal drawn for it, each draw counted as
\* often as it was delivered.
THEOREM SpecReleasedWithinDeliveries == Spec => []ReleasedWithinDeliveries
PROOF
  <1>1. Init => ReleasedWithinDeliveries
    <2>. SUFFICES ASSUME Init, NEW j \in Jobs
                  PROVE  Released(j) <= SumFunction(Weighted(j))
      BY DEF ReleasedWithinDeliveries, Weighted, Draws
    <2>1. Draws(j) = {} /\ logs[j] = <<>>
      BY JobsAreIds DEF Init, Store!Init, Draws, Entries
    <2>2. Released(j) = 0
      BY <2>1, StoreCurrent DEF Released, Store!ReleasedOf
    <2>3. DOMAIN Weighted(j) = {}
      BY <2>1 DEF Weighted
    <2>4. PICK w : w = Weighted(j)
      OBVIOUS
    <2>5. SumFunctionOnSet(w, {}) = 0
      BY FS_EmptySet, SumSteps
    <2>. QED  BY <2>2, <2>3, <2>4, <2>5 DEF SumFunction
  <1>. QED  BY <1>1, SpecIInv, NextReleasedWithinDeliveries, PTL DEF Spec

-----------------------------------------------------------------------------
(***************************************************************************)
(* What a job's state tells of its deliveries, whatever the indexer lost,  *)
(* repeated or reordered.                                                  *)
(***************************************************************************)
\* Whatever takes a job to a stage was delivered to it, or closed it clean.
Ruled(j) == WasDelivered(j, "ClaimResolved") \/ WasDelivered(j, "ArbiterRuled")
Clean(j) == ClosedAs(j, {"no_dispute"}) # {}

StageWasDelivered ==
  \A j \in JobIds :
    /\ Stage(j) \in Executed => WasDelivered(j, "CreditDrawn")
    /\ Stage(j) \in Evidenced => WasDelivered(j, "ActionRecorded")
    /\ Stage(j) \in Disputable =>
         WasDelivered(j, "ClaimSubmitted") \/ Ruled(j) \/ Clean(j)
    /\ Stage(j) = "CLOSED" => Ruled(j) \/ Clean(j)
    /\ Clean(j) => Stage(j) = "CLOSED"

\* What was delivered stays delivered.
LEMMA StillDelivered ==
  ASSUME IInv, Next, NEW j, NEW name, WasDelivered(j, name)
  PROVE  WasDelivered(j, name)'
PROOF
  <1>1. PICK m \in Entries(j, name) : delivered[m] > 0
    BY DEF WasDelivered
  <1>2. m \in 1 .. Len(ledger)
    BY <1>1 DEF Entries
  <1>3. Len(ledger) \in Nat
    BY LenProperties DEF IInv, Shapes
  <1>4. ASSUME NEW entries \in Seq(LedgerEntry), Emits(entries)
        PROVE  m \in Entries(j, name)' /\ delivered'[m] > 0
    BY <1>1, <1>2, <1>3, <1>4, Grown DEF IInv, Entries
  <1>5. ASSUME NEW k \in 1 .. Len(ledger), Counts(k)
        PROVE  m \in Entries(j, name)' /\ delivered'[m] > 0
    BY <1>1, <1>2, <1>5, Counted DEF IInv, Entries
  <1>6. ASSUME UNCHANGED chainVars PROVE m \in Entries(j, name)' /\ delivered'[m] > 0
    BY <1>1, <1>6 DEF Entries, chainVars
  <1>7. m \in Entries(j, name)' /\ delivered'[m] > 0
    BY <1>4, <1>5, <1>6, NextCases DEF Skips, Lands, Bounces, OffChain, Looks
  <1>. QED  BY <1>7 DEF WasDelivered

\* A log closes clean with a clean close, and is closed then.
LEMMA CleanAppend ==
  ASSUME IInv, NEW event \in ArsEvent, Store!AppendEvent(event), NEW j \in JobIds
  PROVE  /\ Clean(j) => Clean(j)'
         /\ Clean(j)' => \/ Clean(j)
                         \/ j = event.jobId /\ event.type = "Closed"
         /\ j = event.jobId /\ event.type = "Closed" /\ event.resolution = "no_dispute" =>
              Clean(j)'
PROOF
  <1>1. logs[j] \in Seq(ArsEvent) /\ Len(logs[j]) \in Nat
    BY LenProperties DEF IInv, Shapes
  <1>2. CASE j # event.jobId
    <2>1. logs'[j] = logs[j]
      BY <1>2, Onwards DEF IInv
    <2>. QED  BY <1>2, <2>1 DEF Clean, ClosedAs, Logged
  <1>3. CASE j = event.jobId
    <2>1. logs'[j] = Append(logs[j], event)
      BY <1>1, <1>3, Appended DEF IInv, Shapes
    <2>2. /\ Len(logs'[j]) = Len(logs[j]) + 1
          /\ \A m \in 1 .. Len(logs[j]) : logs'[j][m] = logs[j][m]
          /\ logs'[j][Len(logs[j]) + 1] = event
      BY <1>1, <2>1
    <2>3. ClosedAs(j, {"no_dispute"}) \subseteq ClosedAs(j, {"no_dispute"})'
      BY <1>1, <2>2 DEF ClosedAs, Logged
    <2>4. ASSUME NEW n \in ClosedAs(j, {"no_dispute"})',
                 n \notin ClosedAs(j, {"no_dispute"})
          PROVE  event.type = "Closed"
      <3>1. n \in 1 .. Len(logs'[j]) /\ logs'[j][n].type = "Closed"
        BY DEF ClosedAs, Logged
      <3>2. n \notin 1 .. Len(logs[j])
        BY <2>2, <2>4 DEF ClosedAs, Logged
      <3>3. n = Len(logs[j]) + 1
        BY <1>1, <2>2, <3>1, <3>2
      <3>. QED  BY <2>2, <3>1, <3>3
    <2>5. event.type = "Closed" /\ event.resolution = "no_dispute" =>
            Len(logs[j]) + 1 \in ClosedAs(j, {"no_dispute"})'
      BY <1>1, <2>2 DEF ClosedAs, Logged
    <2>. QED  BY <1>3, <2>3, <2>4, <2>5 DEF Clean
  <1>. QED  BY <1>2, <1>3

\* An append keeps the stages delivered if the event's own entry was.
LEMMA DeliveredAppend ==
  ASSUME IInv, StageWasDelivered, Next, NEW event \in ArsEvent,
         Store!AppendEvent(event), NEW j \in JobIds, j = event.jobId,
         event.type = "PrincipalReleased" => WasDelivered(j, "CreditDrawn")',
         event.type = "EvidenceSubmitted" => WasDelivered(j, "ActionRecorded")',
         event.type = "Disputed" => WasDelivered(j, "ClaimSubmitted")',
         event.type = "Closed" => Ruled(j)' \/ event.resolution = "no_dispute"
  PROVE  StageWasDelivered'
PROOF
  <1>1. \A i, name : WasDelivered(i, name) => WasDelivered(i, name)'
    BY StillDelivered
  <1>2. \A i : Ruled(i) => Ruled(i)'
    BY <1>1 DEF Ruled
  <1>3. ASSUME NEW i \in JobIds
        PROVE  /\ Stage(i)' \in Executed => WasDelivered(i, "CreditDrawn")'
               /\ Stage(i)' \in Evidenced => WasDelivered(i, "ActionRecorded")'
               /\ Stage(i)' \in Disputable =>
                    WasDelivered(i, "ClaimSubmitted")' \/ Ruled(i)' \/ Clean(i)'
               /\ Stage(i)' = "CLOSED" => Ruled(i)' \/ Clean(i)'
               /\ Clean(i)' => Stage(i)' = "CLOSED"
    <2>1. /\ Stage(i) \in Executed => WasDelivered(i, "CreditDrawn")
          /\ Stage(i) \in Evidenced => WasDelivered(i, "ActionRecorded")
          /\ Stage(i) \in Disputable =>
               WasDelivered(i, "ClaimSubmitted") \/ Ruled(i) \/ Clean(i)
          /\ Stage(i) = "CLOSED" => Ruled(i) \/ Clean(i)
          /\ Clean(i) => Stage(i) = "CLOSED"
      BY DEF StageWasDelivered
    <2>2. /\ Clean(i) => Clean(i)'
          /\ Clean(i)' => Clean(i) \/ (i = j /\ event.type = "Closed")
          /\ i = j /\ event.type = "Closed" /\ event.resolution = "no_dispute" =>
               Clean(i)'
      BY CleanAppend
    <2>3. CASE i # j
      <3>1. Stage(i)' = Stage(i)
        BY <2>3, Onwards DEF IInv
      <3>. QED  BY <1>1, <1>2, <2>1, <2>2, <2>3, <3>1
    <2>4. CASE i = j
      <3>. DEFINE stage == Stage(i)
      <3>1. /\ Stage(i)' = StateAfter(event)
            /\ logs[i] = <<>> => event.type = "JobOpened" /\ stage = "NONE"
            /\ logs[i] # <<>> =>
                 event.type # "JobOpened" /\ stage \in AllowedIn[event.type]
        BY <2>4, Appended DEF IInv, Stage
      <3>. HIDE DEF stage
      <3>2. /\ StateAfter(event) \in Executed =>
                 event.type = "PrincipalReleased" \/ stage \in Executed
            /\ StateAfter(event) \in Evidenced =>
                 event.type = "EvidenceSubmitted" \/ stage \in Evidenced
            /\ StateAfter(event) \in Disputable =>
                 event.type \in {"Disputed", "Closed"}
            /\ StateAfter(event) = "CLOSED" <=> event.type = "Closed"
            /\ stage # "CLOSED"
        BY <3>1, EventTypes
           DEF StateAfter, Target, Executed, Evidenced, Disputable, AllowedIn,
               DrawStates, CloseStates, ArsEventTypes
      <3>3. ~ Clean(i)
        BY <2>1, <3>2 DEF stage
      <3>. QED  BY <1>1, <2>1, <2>2, <2>4, <3>1, <3>2, <3>3 DEF stage
    <2>. QED  BY <2>3, <2>4
  <1>. QED  BY <1>3 DEF StageWasDelivered

LEMMA NextStageWasDelivered ==
  ASSUME IInv, StageWasDelivered, Next
  PROVE  StageWasDelivered'
PROOF
  <1>1. ASSUME logs' = logs PROVE StageWasDelivered'
    <2>1. \A j, name : WasDelivered(j, name) => WasDelivered(j, name)'
      BY StillDelivered
    <2>2. \A j : /\ Stage(j)' = Stage(j) /\ (Clean(j)' <=> Clean(j))
                 /\ Ruled(j) => Ruled(j)'
      BY <1>1, <2>1 DEF Stage, Clean, ClosedAs, Logged, Ruled
    <2>. QED  BY <2>1, <2>2 DEF StageWasDelivered
  <1>2. ASSUME NEW k \in 1 .. Len(ledger), NEW event \in ArsEvent, Lands(k, event)
        PROVE  StageWasDelivered'
    <2>1. PICK j \in JobIds : j = ledger[k].jobId
      BY LedgerShape DEF IInv
    <2>. PICK name : name = ledger[k].payload.name
      OBVIOUS
    <2>2. /\ Counts(k) /\ Brought(k, event) /\ Store!AppendEvent(event)
          /\ ledger' = ledger /\ j = event.jobId
      BY <1>2, <2>1 DEF Lands, Counts, Brought
    <2>3. delivered'[k] > 0
      BY <2>2, Counted DEF IInv
    <2>4. WasDelivered(j, name)'
      BY <2>1, <2>2, <2>3 DEF WasDelivered, Entries
    <2>5. /\ event.type = "PrincipalReleased" => name = "CreditDrawn"
          /\ event.type = "EvidenceSubmitted" => name = "ActionRecorded"
          /\ event.type = "Disputed" => name = "ClaimSubmitted"
          /\ event.type = "Closed" => name \in {"ClaimResolved", "ArbiterRuled"}
      BY <2>2 DEF Brought
    <2>6. /\ event.type = "PrincipalReleased" => WasDelivered(j, "CreditDrawn")'
          /\ event.type = "EvidenceSubmitted" => WasDelivered(j, "ActionRecorded")'
          /\ event.type = "Disputed" => WasDelivered(j, "ClaimSubmitted")'
          /\ event.type = "Closed" => Ruled(j)'
      BY <2>4, <2>5 DEF Ruled
    <2>. QED  BY <2>2, <2>6, DeliveredAppend
  <1>3. ASSUME NEW event \in ArsEvent, OffChain(event) PROVE StageWasDelivered'
    <2>1. /\ Store!AppendEvent(event) /\ event.jobId \in JobIds
          /\ event.type \in {"JobOpened", "UnderwritingStarted", "UnderwritingDecided",
                             "Closed"}
          /\ event.type = "Closed" => event.resolution = "no_dispute"
      BY <1>3, EventTypes DEF OffChain
    <2>. QED  BY <2>1, DeliveredAppend
  <1>. QED
    BY <1>1, <1>2, <1>3, NextCases DEF Emits, Skips, Bounces, Looks

LEMMA SpecStageWasDelivered == Spec => []StageWasDelivered
PROOF
  <1>1. Init => StageWasDelivered
    <2>. SUFFICES ASSUME Init, NEW j \in JobIds
                  PROVE  Stage(j) \notin Executed /\ ~ Clean(j)
      BY DEF StageWasDelivered, Executed, Evidenced, Disputable
    <2>1. logs[j] = <<>>
      BY DEF Init, Store!Init
    <2>2. Stage(j) \notin Executed
      BY <2>1 DEF Stage, Executed, Evidenced, Disputable
    <2>3. 1 .. Len(logs[j]) = {}
      BY <2>1
    <2>. QED  BY <2>2, <2>3 DEF Clean, ClosedAs, Logged
  <1>2. IInv /\ StageWasDelivered /\ [Next]_vars => StageWasDelivered'
    <2>. SUFFICES ASSUME IInv, StageWasDelivered, [Next]_vars PROVE StageWasDelivered'
      OBVIOUS
    <2>1. CASE Next
      BY <2>1, NextStageWasDelivered
    <2>2. CASE UNCHANGED vars
      BY <2>2
         DEF vars, StageWasDelivered, WasDelivered, Ruled, Clean, ClosedAs, Logged,
             Stage, Entries
    <2>. QED  BY <2>1, <2>2
  <1>. QED  BY <1>1, <1>2, SpecIInv, PTL DEF Spec

-----------------------------------------------------------------------------
(***************************************************************************)
(* What delivery in ledger order adds.                                     *)
(***************************************************************************)
\* What comes before the entries of a job that drew before it acted.
Before ==
  [ActionRecorded |-> "CreditDrawn", ClaimSubmitted |-> "ActionRecorded",
   ClaimResolved |-> "ClaimSubmitted", ArbiterRuled |-> "ClaimSubmitted"]

\* A job has one action, so all that follows from it is in time or none is.
LEMMA TimelyInTime ==
  ASSUME IInv, NEW n \in 1 .. Len(ledger), Timely(ledger[n].jobId),
         ledger[n].payload.name \in DOMAIN Before
  PROVE  /\ InTime(n)
         /\ \E m \in Entries(ledger[n].jobId, Before[ledger[n].payload.name]) :
              m < n /\ Due(m)
PROOF
  <1>. DEFINE j == ledger[n].jobId
  <1>1. Len(ledger) \in Nat
    BY LenProperties DEF IInv, Shapes
  <1>2. PICK a \in Entries(j, "ActionRecorded"), d \in Entries(j, "CreditDrawn") : d < a
    BY DEF Timely
  <1>3. /\ a \in 1 .. Len(ledger) /\ d \in 1 .. Len(ledger)
        /\ ledger[a].jobId = j /\ ledger[a].payload.name = "ActionRecorded"
        /\ ledger[d].jobId = j /\ ledger[d].payload.name = "CreditDrawn"
    BY <1>2 DEF Entries
  <1>4. \A b \in Entries(j, "ActionRecorded") : b = a
    <2>. SUFFICES ASSUME NEW b \in Entries(j, "ActionRecorded") PROVE b = a
      OBVIOUS
    <2>1. /\ b \in 1 .. Len(ledger) /\ ledger[b].jobId = j
          /\ ledger[b].payload.name = "ActionRecorded"
      BY DEF Entries
    <2>2. a <= b /\ b <= a
      BY <1>2, <1>3, <2>1 DEF IInv, ActedOnce, IsFirst
    <2>. QED  BY <1>1, <1>3, <2>1, <2>2
  <1>5. ASSUME NEW m \in 1 .. Len(ledger), ledger[m].jobId = j, a <= m
        PROVE  InTime(m)
    BY <1>2, <1>5 DEF InTime
  <1>6. ASSUME NEW m \in 1 .. Len(ledger), ledger[m].jobId = j,
               ledger[m].payload.name = "ClaimSubmitted"
        PROVE  a < m /\ InTime(m)
    <2>1. PICK b \in Entries(j, "ActionRecorded") : b < m
      BY <1>6 DEF IInv, LedgerIsTrue, Caused, Cause
    <2>2. a < m
      BY <1>4, <2>1
    <2>. QED  BY <1>3, <1>5, <1>6, <2>2
  <1>7. CASE ledger[n].payload.name = "ActionRecorded"
    <2>1. n = a
      BY <1>4, <1>7 DEF Entries
    <2>. QED  BY <1>2, <1>3, <1>5, <1>7, <2>1 DEF Before, Due
  <1>8. CASE ledger[n].payload.name = "ClaimSubmitted"
    <2>1. a < n /\ InTime(n)
      BY <1>6, <1>8
    <2>2. Due(a)
      BY <1>3, <1>5 DEF Due
    <2>. QED  BY <1>2, <1>8, <2>1, <2>2 DEF Before
  <1>9. CASE ledger[n].payload.name \in {"ClaimResolved", "ArbiterRuled"}
    <2>1. PICK c \in Entries(j, "ClaimSubmitted") : c < n
      BY <1>9 DEF IInv, LedgerIsTrue, Caused, Cause
    <2>2. /\ c \in 1 .. Len(ledger) /\ ledger[c].jobId = j
          /\ ledger[c].payload.name = "ClaimSubmitted"
      BY <2>1 DEF Entries
    <2>3. a < c /\ InTime(c)
      BY <1>6, <2>2
    <2>4. InTime(n)
      BY <1>3, <1>5, <2>1, <2>2, <2>3
    <2>. QED  BY <1>9, <2>1, <2>3, <2>4 DEF Before, Due
  <1>. QED  BY <1>7, <1>8, <1>9 DEF Before

LEMMA InTimeIsTimely ==
  ASSUME NEW n, InTime(n)
  PROVE  Timely(ledger[n].jobId)
PROOF
  BY DEF InTime, Timely

\* When an entry is delivered in order, what comes before it has been.
LEMMA CauseWasDelivered ==
  ASSUME Ordered, IInv, NEW n \in 1 .. Len(ledger), Deliverable(n), InTime(n),
         ledger[n].payload.name \in DOMAIN Before
  PROVE  \E m \in 1 .. Len(ledger) :
           /\ delivered[m] > 0 /\ ledger[m].jobId = ledger[n].jobId
           /\ ledger[m].payload.name = Before[ledger[n].payload.name]
           /\ Due(m)
PROOF
  <1>1. PICK m \in Entries(ledger[n].jobId, Before[ledger[n].payload.name]) :
          m < n /\ Due(m)
    BY InTimeIsTimely, TimelyInTime
  <1>2. m \in 1 .. Len(ledger) /\ m \in 1 .. n - 1
    BY <1>1 DEF Entries
  <1>3. delivered[m] > 0
    BY <1>2 DEF Deliverable, Ordered
  <1>. QED  BY <1>1, <1>2, <1>3 DEF Entries

\* So a draw finds its job underwritten, evidence in time finds it drawn on,
\* and then a claim finds its evidence and a verdict its dispute.
Expects ==
  [CreditDrawn |-> Passed, ActionRecorded |-> Executed,
   ClaimSubmitted |-> Evidenced, ClaimResolved |-> Disputable,
   ArbiterRuled |-> Disputable]

LEMMA DeliveredOnTime ==
  ASSUME Ordered, IInv, OrderedInv, NEW n \in 1 .. Len(ledger), Deliverable(n),
         ledger[n].payload.name \in DOMAIN Expects, Due(n)
  PROVE  Stage(ledger[n].jobId) \in Expects[ledger[n].payload.name]
PROOF
  <1>. DEFINE name == ledger[n].payload.name
  <1>1. CASE name = "CreditDrawn"
    BY <1>1 DEF IInv, DrawnHasPassed, Expects
  <1>2. CASE name # "CreditDrawn"
    <2>1. name \in DOMAIN Before /\ InTime(n)
      BY <1>2 DEF Expects, Before, Due
    <2>2. PICK m \in 1 .. Len(ledger) :
            /\ delivered[m] > 0 /\ ledger[m].jobId = ledger[n].jobId
            /\ ledger[m].payload.name = Before[name] /\ Due(m)
      BY <2>1, CauseWasDelivered
    <2>3. Before[name] \in DOMAIN Reaches /\ Reaches[Before[name]] = Expects[name]
      BY <2>1 DEF Before, Reaches, Expects
    <2>4. Stage(ledger[m].jobId) \in Reaches[ledger[m].payload.name]
      BY <2>2, <2>3 DEF OrderedInv, DeliveredHasReached
    <2>. QED  BY <2>2, <2>3, <2>4
  <1>. QED  BY <1>1, <1>2

\* Whether it lands or bounces, the job is then past it.
LEMMA DeliveredPast ==
  ASSUME Ordered, IInv, OrderedInv, NEW n \in 1 .. Len(ledger),
         ledger[n].payload.name \in DOMAIN Reaches, Due(n), NEW event \in ArsEvent,
         Lands(n, event) \/ Bounces(n, event)
  PROVE  Stage(ledger[n].jobId)' \in Reaches[ledger[n].payload.name]
PROOF
  <1>. DEFINE name == ledger[n].payload.name
  <1>1. PICK j \in JobIds : j = ledger[n].jobId
    BY LedgerShape DEF IInv
  <1>2. Deliverable(n) /\ Brought(n, event) /\ event.jobId = j
    BY <1>1 DEF Lands, Bounces, Counts, Brought
  <1>3. Stage(j) \in Expects[name]
    BY <1>1, <1>2, DeliveredOnTime DEF Reaches, Expects
  <1>4. /\ name = "CreditDrawn" => event.type = "PrincipalReleased"
        /\ name = "ActionRecorded" => event.type = "EvidenceSubmitted"
        /\ name = "ClaimSubmitted" => event.type = "Disputed"
        /\ name \in {"ClaimResolved", "ArbiterRuled"} => event.type = "Closed"
        /\ name \in {"CreditDrawn", "ActionRecorded", "ClaimSubmitted",
                     "ClaimResolved", "ArbiterRuled"}
    BY <1>2 DEF Brought, Reaches
  <1>. HIDE DEF name
  <1>5. CASE Lands(n, event)
    <2>1. Stage(j)' = StateAfter(event)
      BY <1>2, <1>5, Appended DEF IInv, Lands
    <2>2. StateAfter(event) \in Reaches[name]
      BY <1>4 DEF StateAfter, Target, Reaches, Executed, Evidenced, Disputable
    <2>3. logs'[j] = logs'[ledger[n].jobId] /\ ledger' = ledger
      BY <1>1, <1>5 DEF Lands, Counts
    <2>. QED  BY <1>1, <2>1, <2>2, <2>3 DEF Stage, name
  <1>6. CASE Bounces(n, event)
    <2>1. logs' = logs /\ ledger' = ledger /\ ~ Store!Accepts(event)
      BY <1>6 DEF Bounces, Counts
    <2>2. logs[j] # <<>>
      BY <1>3, <1>4
         DEF Stage, Expects, Passed, Executed, Evidenced, Disputable
    <2>3. Stage(j) \notin AllowedIn[event.type]
      BY <1>2, <1>4, <2>1, <2>2, Rejected DEF IInv
    <2>4. Stage(j) \in Reaches[name]
      <3>1. PICK stage : stage = Stage(j)
        OBVIOUS
      <3>2. stage \in Expects[name] /\ stage \notin AllowedIn[event.type]
        BY <1>3, <2>3, <3>1
      <3>3. stage \in Reaches[name]
        BY <1>4, <3>2
           DEF AllowedIn, DrawStates, CloseStates, Expects, Reaches, Passed,
               Executed, Evidenced, Disputable
      <3>. QED  BY <3>1, <3>3
    <2>. QED  BY <1>1, <2>1, <2>4 DEF Stage, name
  <1>. QED  BY <1>5, <1>6

LEMMA NextDeliveredInOrder ==
  ASSUME Ordered, IInv, OrderedInv, Next
  PROVE  DeliveredInOrder'
PROOF
  <1>1. DeliveredInOrder
    BY DEF OrderedInv
  <1>2. ASSUME NEW entries \in Seq(LedgerEntry), Emits(entries)
        PROVE  DeliveredInOrder'
    <2>1. /\ Len(ledger) \in Nat /\ Len(ledger') \in Nat
          /\ \A n \in 1 .. Len(ledger) : delivered'[n] = delivered[n]
          /\ \A n \in 1 .. Len(ledger') :
               n \notin 1 .. Len(ledger) => delivered'[n] = 0
      BY <1>2, Grown DEF IInv
    <2>. SUFFICES ASSUME NEW n \in 1 .. Len(ledger'), NEW m \in 1 .. Len(ledger'),
                         m < n, delivered'[n] > 0
                  PROVE  delivered'[m] > 0
      BY DEF DeliveredInOrder
    <2>2. n \in 1 .. Len(ledger)
      BY <2>1
    <2>3. m \in 1 .. Len(ledger)
      BY <2>1, <2>2
    <2>. QED  BY <1>1, <2>1, <2>2, <2>3 DEF DeliveredInOrder
  <1>3. ASSUME NEW k \in 1 .. Len(ledger), Counts(k) PROVE DeliveredInOrder'
    <2>1. /\ ledger' = ledger
          /\ \A m \in 1 .. Len(ledger) : m # k => delivered'[m] = delivered[m]
          /\ \A m \in 1 .. Len(ledger) : delivered[m] > 0 => delivered'[m] > 0
      BY <1>3, Counted DEF IInv
    <2>2. \A m \in 1 .. k - 1 : delivered[m] > 0
      BY <1>3 DEF Counts, Deliverable, Ordered
    <2>3. Len(ledger) \in Nat
      BY LenProperties DEF IInv, Shapes
    <2>. SUFFICES ASSUME NEW n \in 1 .. Len(ledger), NEW m \in 1 .. Len(ledger),
                         m < n, delivered'[n] > 0
                  PROVE  delivered'[m] > 0
      BY <2>1 DEF DeliveredInOrder
    <2>4. CASE n = k
      <3>1. m \in 1 .. k - 1
        BY <2>3, <2>4
      <3>. QED  BY <2>1, <2>2, <3>1
    <2>5. CASE n # k
      BY <1>1, <2>1, <2>5 DEF DeliveredInOrder
    <2>. QED  BY <2>4, <2>5
  <1>4. ASSUME ledger' = ledger, delivered' = delivered PROVE DeliveredInOrder'
    BY <1>1, <1>4 DEF DeliveredInOrder
  <1>. QED
    BY <1>2, <1>3, <1>4, NextCases DEF Skips, Lands, Bounces, OffChain, Looks, chainVars

\* Entries of the ledger stay in time, or late, whatever follows them.
LEMMA DueStays ==
  ASSUME IInv
  PROVE  /\ ledger' = ledger =>
              \A n : (InTime(n)' <=> InTime(n)) /\ (Due(n)' <=> Due(n))
         /\ \A entries \in Seq(LedgerEntry) : Emits(entries) =>
              \A n \in 1 .. Len(ledger) :
                (InTime(n)' <=> InTime(n)) /\ (Due(n)' <=> Due(n))
PROOF
  <1>1. ledger' = ledger => \A n : (InTime(n)' <=> InTime(n)) /\ (Due(n)' <=> Due(n))
    BY DEF InTime, Due, Entries
  <1>2. ASSUME NEW entries \in Seq(LedgerEntry), Emits(entries),
               NEW n \in 1 .. Len(ledger)
        PROVE  (InTime(n)' <=> InTime(n)) /\ (Due(n)' <=> Due(n))
    <2>1. /\ Len(ledger) \in Nat /\ Len(ledger') \in Nat /\ Len(ledger) <= Len(ledger')
          /\ \A m \in 1 .. Len(ledger) : ledger'[m] = ledger[m]
      BY <1>2, Grown DEF IInv
    <2>2. \A j, name : \A m : m <= n /\ m \in Int =>
            (m \in Entries(j, name)' <=> m \in Entries(j, name))
      BY <2>1 DEF Entries
    <2>3. \A j, name : /\ \A m \in Entries(j, name) : m \in Int
                       /\ \A m \in Entries(j, name)' : m \in Int
      BY DEF Entries
    <2>4. ledger'[n] = ledger[n] /\ n \in Int
      BY <2>1
    <2>5. InTime(n)' <=> InTime(n)
      <3>1. \A j : (\E a \in Entries(j, "ActionRecorded")' :
                      a <= n /\ \E d \in Entries(j, "CreditDrawn")' : d < a) <=>
                   (\E a \in Entries(j, "ActionRecorded") :
                      a <= n /\ \E d \in Entries(j, "CreditDrawn") : d < a)
        BY <2>2, <2>3, <2>4
      <3>. QED  BY <2>4, <3>1 DEF InTime
    <2>. QED  BY <2>4, <2>5 DEF Due
  <1>. QED  BY <1>1, <1>2

LEMMA NextDeliveredHasReached ==
  ASSUME Ordered, IInv, OrderedInv, Next
  PROVE  DeliveredHasReached'
PROOF
  <1>. DEFINE Past(n) ==
                ledger[n].payload.name \in DOMAIN Reaches /\ Due(n) =>
                  Stage(ledger[n].jobId) \in Reaches[ledger[n].payload.name]
  <1>1. \A n \in 1 .. Len(ledger) : delivered[n] > 0 => Past(n)
    BY DEF OrderedInv, DeliveredHasReached
  <1>2. \A n \in 1 .. Len(ledger) :
          ledger' = ledger /\ logs' = logs /\ Past(n) => Past(n)'
    BY DueStays DEF Stage
  <1>3. ASSUME NEW n \in 1 .. Len(ledger), NEW event \in ArsEvent, ledger' = ledger,
               Store!AppendEvent(event), Past(n)
        PROVE  Past(n)'
    <2>. SUFFICES ASSUME ledger[n].payload.name \in DOMAIN Reaches, Due(n)
                  PROVE  Stage(ledger[n].jobId)' \in Reaches[ledger[n].payload.name]
      BY <1>3, DueStays DEF Stage
    <2>1. PICK j \in JobIds : j = ledger[n].jobId
      BY LedgerShape DEF IInv
    <2>2. PICK name : name = ledger[n].payload.name
      OBVIOUS
    <2>3. Stage(j) \in Reaches[name] /\ name \in DOMAIN Reaches
      BY <1>3, <2>1, <2>2
    <2>4. Stage(j)' \in Reaches[name]
      BY <1>3, <2>3, Onwards DEF IInv, Reaches
    <2>5. logs'[j] = logs'[ledger[n].jobId]
      BY <2>1
    <2>. QED  BY <1>3, <2>1, <2>2, <2>4, <2>5 DEF Stage
  <1>4. ASSUME NEW entries \in Seq(LedgerEntry), Emits(entries)
        PROVE  DeliveredHasReached'
    <2>1. /\ logs' = logs
          /\ \A n \in 1 .. Len(ledger) :
               ledger'[n] = ledger[n] /\ delivered'[n] = delivered[n]
          /\ \A n \in 1 .. Len(ledger') :
               n \notin 1 .. Len(ledger) => delivered'[n] = 0
      BY <1>4, Grown DEF IInv
    <2>. SUFFICES ASSUME NEW n \in 1 .. Len(ledger'), delivered'[n] > 0,
                         ledger'[n].payload.name \in DOMAIN Reaches, Due(n)'
                  PROVE  Stage(ledger'[n].jobId) \in Reaches[ledger'[n].payload.name]
      BY <2>1 DEF DeliveredHasReached, Stage
    <2>2. n \in 1 .. Len(ledger)
      BY <2>1
    <2>3. Due(n)
      BY <1>4, <2>2, DueStays
    <2>. QED  BY <1>1, <2>1, <2>2, <2>3
  <1>5. ASSUME NEW k \in 1 .. Len(ledger), Counts(k),
               \A n \in 1 .. Len(ledger) : Past(n) => Past(n)', Past(k)'
        PROVE  DeliveredHasReached'
    <2>1. /\ ledger' = ledger
          /\ \A m \in 1 .. Len(ledger) : m # k => delivered'[m] = delivered[m]
      BY <1>5, Counted DEF IInv
    <2>. SUFFICES ASSUME NEW n \in 1 .. Len(ledger), delivered'[n] > 0
                  PROVE  Past(n)'
      BY <2>1 DEF DeliveredHasReached
    <2>. QED  BY <1>1, <1>5, <2>1
  <1>6. ASSUME NEW k \in 1 .. Len(ledger), Skips(k) PROVE DeliveredHasReached'
    <2>1. Counts(k) /\ ledger' = ledger /\ logs' = logs
          /\ ledger[k].payload.name \in OtherNames
      BY <1>6 DEF Skips, Counts, Ordered
    <2>2. ledger[k].payload.name \notin DOMAIN Reaches
      BY <2>1, OtherNamesAssumption DEF Reaches
    <2>3. Past(k)'
      BY <2>1, <2>2
    <2>. HIDE DEF Past
    <2>. QED  BY <1>2, <1>5, <2>1, <2>3
  <1>7. ASSUME NEW k \in 1 .. Len(ledger), NEW event \in ArsEvent,
               Lands(k, event) \/ Bounces(k, event)
        PROVE  DeliveredHasReached'
    <2>1. /\ Counts(k) /\ ledger' = ledger
          /\ Store!AppendEvent(event) \/ logs' = logs
      BY <1>7 DEF Lands, Bounces, Counts
    <2>2. Past(k)'
      <3>1. ledger[k].payload.name \in DOMAIN Reaches /\ Due(k) =>
              Stage(ledger[k].jobId)' \in Reaches[ledger[k].payload.name]
        BY <1>7, DeliveredPast
      <3>. QED  BY <2>1, <3>1, DueStays DEF Stage
    <2>. HIDE DEF Past
    <2>. QED  BY <1>2, <1>3, <1>5, <2>1, <2>2
  <1>8. ASSUME ledger' = ledger, delivered' = delivered,
               \A n \in 1 .. Len(ledger) : Past(n) => Past(n)'
        PROVE  DeliveredHasReached'
    <2>1. \A n \in 1 .. Len(ledger) : delivered'[n] > 0 => Past(n)'
      <3>. HIDE DEF Past
      <3>. QED  BY <1>1, <1>8
    <2>. QED  BY <1>8, <2>1 DEF DeliveredHasReached
  <1>9. ASSUME NEW event \in ArsEvent, OffChain(event) PROVE DeliveredHasReached'
    <2>1. Store!AppendEvent(event) /\ ledger' = ledger /\ delivered' = delivered
      BY <1>9 DEF OffChain, chainVars
    <2>. HIDE DEF Past
    <2>. QED  BY <1>3, <1>8, <2>1
  <1>10. ASSUME Looks PROVE DeliveredHasReached'
    <2>1. logs' = logs /\ ledger' = ledger /\ delivered' = delivered
      BY <1>10 DEF Looks, chainVars
    <2>. HIDE DEF Past
    <2>. QED  BY <1>2, <1>8, <2>1
  <1>. HIDE DEF Past
  <1>. QED  BY <1>4, <1>6, <1>7, <1>9, <1>10, NextCases

LEMMA SpecOrderedInv ==
  ASSUME Ordered
  PROVE  Spec => []OrderedInv
PROOF
  <1>1. Init => OrderedInv
    <2>. SUFFICES ASSUME Init PROVE OrderedInv
      OBVIOUS
    <2>1. ledger = <<>>
      BY DEF Init
    <2>. QED  BY <2>1 DEF OrderedInv, DeliveredInOrder, DeliveredHasReached
  <1>2. IInv /\ OrderedInv /\ [Next]_vars => OrderedInv'
    <2>. SUFFICES ASSUME IInv, OrderedInv, [Next]_vars PROVE OrderedInv'
      OBVIOUS
    <2>1. CASE Next
      BY <2>1, NextDeliveredInOrder, NextDeliveredHasReached DEF OrderedInv
    <2>2. CASE UNCHANGED vars
      BY <2>2
         DEF vars, OrderedInv, DeliveredInOrder, DeliveredHasReached, Stage, Due,
             InTime, Entries
    <2>. QED  BY <2>1, <2>2
  <1>. QED  BY <1>1, <1>2, SpecIInv, PTL DEF Spec

\* A verdict that was delivered came after its claim.
LEMMA RuledWasClaimed ==
  ASSUME IInv, DeliveredInOrder, NEW j, Ruled(j)
  PROVE  WasDelivered(j, "ClaimSubmitted")
PROOF
  <1>1. PICK n \in Entries(j, "ClaimResolved") \cup Entries(j, "ArbiterRuled") :
          delivered[n] > 0
    BY DEF Ruled, WasDelivered
  <1>2. /\ n \in 1 .. Len(ledger) /\ ledger[n].jobId = j
        /\ ledger[n].payload.name \in {"ClaimResolved", "ArbiterRuled"}
    BY DEF Entries
  <1>3. Caused(ledger[n], n)
    BY <1>2 DEF IInv, LedgerIsTrue
  <1>4. PICK m \in Entries(j, "ClaimSubmitted") : m < n
    BY <1>2, <1>3 DEF Caused, Cause
  <1>5. m \in 1 .. Len(ledger) /\ delivered[m] > 0
    BY <1>1, <1>2, <1>4 DEF DeliveredInOrder, Entries
  <1>. QED  BY <1>5 DEF WasDelivered

\* An indexer that delivers once brings evidence only in time.
EvidenceInTime ==
  MaxDeliveries = 1 =>
    \A j \in JobIds : Stage(j) \in Evidenced => Timely(j)

LEMMA NextEvidenceInTime ==
  ASSUME Ordered, IInv, OrderedInv, StageWasDelivered, EvidenceInTime, Next,
         MaxDeliveries = 1, NEW j \in JobIds, Stage(j)' \in Evidenced
  PROVE  Timely(j)'
PROOF
  <1>1. Timely(j) => Timely(j)'
    <2>1. ASSUME NEW entries \in Seq(LedgerEntry), Emits(entries), NEW name
          PROVE  Entries(j, name) \subseteq Entries(j, name)'
      BY <2>1, Grown DEF IInv, Entries
    <2>2. ASSUME ledger' = ledger, NEW name
          PROVE  Entries(j, name) \subseteq Entries(j, name)'
      BY <2>2 DEF Entries
    <2>3. \A name : Entries(j, name) \subseteq Entries(j, name)'
      BY <2>1, <2>2, NextCases
         DEF Skips, Lands, Bounces, OffChain, Looks, Counts, chainVars
    <2>. QED  BY <2>3 DEF Timely
  <1>2. Stage(j) \in Evidenced => Timely(j)
    BY DEF EvidenceInTime
  <1>3. CASE logs' = logs
    BY <1>1, <1>2, <1>3 DEF Stage
  <1>4. ASSUME NEW event \in ArsEvent, Store!AppendEvent(event),
               Stage(j) \notin Evidenced
        PROVE  /\ j = event.jobId /\ event.type = "EvidenceSubmitted"
               /\ Stage(j) = "EXECUTING"
    <2>1. j = event.jobId
      BY <1>4, Onwards DEF IInv
    <2>2. PICK stage : stage = Stage(j)
      OBVIOUS
    <2>3. /\ StateAfter(event) \in Evidenced
          /\ logs[j] = <<>> => event.type = "JobOpened"
          /\ logs[j] # <<>> => stage \in AllowedIn[event.type]
      BY <1>4, <2>1, <2>2, Appended DEF IInv
    <2>. QED
      BY <1>4, <2>1, <2>2, <2>3, EventTypes
         DEF StateAfter, Target, Evidenced, Disputable, AllowedIn, CloseStates,
             ArsEventTypes
  <1>5. ASSUME NEW k \in 1 .. Len(ledger), NEW event \in ArsEvent, Lands(k, event),
               Stage(j) \notin Evidenced
        PROVE  Timely(j)'
    <2>1. /\ Deliverable(k) /\ Brought(k, event) /\ Store!AppendEvent(event)
          /\ ledger' = ledger /\ event.jobId = ledger[k].jobId
      BY <1>5 DEF Lands, Counts, Brought
    <2>2. /\ j = event.jobId /\ event.type = "EvidenceSubmitted"
          /\ Stage(j) \in Executed
      BY <1>4, <1>5, <2>1 DEF Executed
    <2>3. PICK m \in Entries(j, "CreditDrawn") : delivered[m] > 0
      BY <2>2 DEF StageWasDelivered, WasDelivered
    <2>4. /\ m \in 1 .. Len(ledger) /\ ledger[m].payload.name = "CreditDrawn"
          /\ k \in Entries(j, "ActionRecorded")
      BY <2>1, <2>2, <2>3 DEF Brought, Entries
    <2>5. delivered[k] \in Nat /\ delivered[k] < 1
      BY <2>1, LedgerShape DEF IInv, Deliverable
    <2>6. ~ (k < m)
      BY <2>3, <2>4, <2>5 DEF OrderedInv, DeliveredInOrder
    <2>7. m # k
      BY <2>4 DEF Entries
    <2>8. m < k
      BY <2>4, <2>6, <2>7
    <2>9. Timely(j)
      BY <2>3, <2>4, <2>8 DEF Timely
    <2>. QED  BY <1>1, <2>9
  <1>6. ASSUME NEW event \in ArsEvent, OffChain(event), Stage(j) \notin Evidenced
        PROVE  FALSE
    BY <1>4, <1>6 DEF OffChain
  <1>. QED
    BY <1>1, <1>2, <1>3, <1>5, <1>6, NextCases DEF Emits, Skips, Bounces, Looks

LEMMA SpecEvidenceInTime ==
  ASSUME Ordered
  PROVE  Spec => []EvidenceInTime
PROOF
  <1>1. Init => EvidenceInTime
    BY DEF Init, Store!Init, EvidenceInTime, Stage, Evidenced, Disputable
  <1>2. IInv /\ OrderedInv /\ StageWasDelivered /\ EvidenceInTime /\ [Next]_vars =>
          EvidenceInTime'
    <2>. SUFFICES ASSUME IInv, OrderedInv, StageWasDelivered, EvidenceInTime,
                         [Next]_vars
                  PROVE  EvidenceInTime'
      OBVIOUS
    <2>1. CASE Next
      BY <2>1, NextEvidenceInTime DEF EvidenceInTime
    <2>2. CASE UNCHANGED vars
      BY <2>2 DEF vars, EvidenceInTime, Stage, Timely, Entries
    <2>. QED  BY <2>1, <2>2
  <1>. QED  BY <1>1, <1>2, SpecIInv, SpecOrderedInv, SpecStageWasDelivered, PTL DEF Spec

\* If the indexer delivers in ledger order and resolves every job id, the
\* state of a job whose action was recorded after a draw is what was delivered
\* to it, or its clean close: the indexer has no entry behind it that the log
\* left out.  An indexer that delivers once brings evidence of no other job.
\* What VerdictClosesJob and ActionBecomesEvidence add is that everything is
\* delivered in the end.
THEOREM SpecStateIsDelivered ==
  ASSUME Ordered
  PROVE  Spec => []StateIsDelivered
PROOF
  <1>1. ASSUME IInv, OrderedInv, StageWasDelivered, EvidenceInTime, NEW j \in Jobs
        PROVE  /\ StateOf(j) \in Executed <=> WasDelivered(j, "CreditDrawn")
               /\ Timely(j) =>
                    /\ StateOf(j) \in Evidenced <=> WasDelivered(j, "ActionRecorded")
                    /\ StateOf(j) \in Disputable <=>
                         WasDelivered(j, "ClaimSubmitted") \/ Clean(j)
                    /\ StateOf(j) = "CLOSED" <=> Ruled(j) \/ Clean(j)
               /\ MaxDeliveries = 1 /\ StateOf(j) \in Evidenced => Timely(j)
    <2>1. j \in JobIds
      BY JobsAreIds
    <2>2. StateOf(j) = Stage(j)
      BY <1>1, <2>1, StateIsStage DEF IInv
    <2>3. ASSUME NEW name \in DOMAIN Reaches, WasDelivered(j, name),
                 name = "CreditDrawn" \/ Timely(j)
          PROVE  Stage(j) \in Reaches[name]
      <3>1. PICK n \in Entries(j, name) : delivered[n] > 0
        BY <2>3 DEF WasDelivered
      <3>2. /\ n \in 1 .. Len(ledger) /\ ledger[n].jobId = j
            /\ ledger[n].payload.name = name
        BY DEF Entries
      <3>3. Due(n)
        BY <1>1, <2>3, <3>2, TimelyInTime DEF Due, Reaches, Before
      <3>. QED  BY <1>1, <3>1, <3>2, <3>3 DEF OrderedInv, DeliveredHasReached
    <2>4. WasDelivered(j, "CreditDrawn") => Stage(j) \in Executed
      BY <2>3 DEF Reaches
    <2>5. Timely(j) =>
            /\ WasDelivered(j, "ActionRecorded") => Stage(j) \in Evidenced
            /\ WasDelivered(j, "ClaimSubmitted") => Stage(j) \in Disputable
            /\ WasDelivered(j, "ClaimResolved") => Stage(j) \in {"CLOSED"}
            /\ WasDelivered(j, "ArbiterRuled") => Stage(j) \in {"CLOSED"}
      BY <2>3 DEF Reaches
    <2>6. /\ Stage(j) \in Executed => WasDelivered(j, "CreditDrawn")
          /\ Stage(j) \in Evidenced => WasDelivered(j, "ActionRecorded")
          /\ Stage(j) \in Disputable =>
               WasDelivered(j, "ClaimSubmitted") \/ Ruled(j) \/ Clean(j)
          /\ Stage(j) = "CLOSED" => Ruled(j) \/ Clean(j)
          /\ Clean(j) => Stage(j) = "CLOSED"
      BY <1>1, <2>1 DEF StageWasDelivered
    <2>7. Ruled(j) => WasDelivered(j, "ClaimSubmitted")
      BY <1>1, RuledWasClaimed DEF OrderedInv
    <2>8. Timely(j) /\ Ruled(j) => Stage(j) = "CLOSED"
      BY <2>5 DEF Ruled
    <2>9. MaxDeliveries = 1 /\ Stage(j) \in Evidenced => Timely(j)
      BY <1>1, <2>1 DEF EvidenceInTime
    <2>. QED  BY <2>2, <2>4, <2>5, <2>6, <2>7, <2>8, <2>9 DEF Disputable
  <1>2. IInv /\ OrderedInv /\ StageWasDelivered /\ EvidenceInTime => StateIsDelivered
    BY <1>1 DEF StateIsDelivered, Ruled, Clean
  <1>. QED
    BY <1>2, SpecIInv, SpecOrderedInv, SpecStageWasDelivered, SpecEvidenceInTime, PTL

(***************************************************************************)
(* The dispute of a log is the first claim, its verdict the first verdict. *)
(***************************************************************************)
\* The ledger entry that event n of the log of job j tells.
DisputeTells(j, n) ==
  logs[j][n].type = "Disputed" =>
    \E c \in Entries(j, "ClaimSubmitted") :
      /\ logs[j][n].claim = ledger[c].payload.claim
      /\ InTime(c) => IsFirst(c, Entries(j, "ClaimSubmitted"))

VerdictTells(j, n) ==
  logs[j][n].type = "Closed" /\ logs[j][n].resolution \in Verdicts =>
    \E v \in VerdictEntries(j) :
      /\ ledger[v].paid <=> (logs[j][n].resolution = "dispute_upheld")
      /\ InTime(v) => /\ IsFirst(v, VerdictEntries(j))
                      /\ \E m \in Logged(j, "Disputed") : m < n

LogsTell ==
  \A j \in JobIds : \A n \in 1 .. Len(logs[j]) : DisputeTells(j, n) /\ VerdictTells(j, n)

\* Entries of the same job before one that is in time are delivered before it.
LEMMA EarlierWasDelivered ==
  ASSUME Ordered, IInv, OrderedInv, NEW k \in 1 .. Len(ledger), Deliverable(k),
         InTime(k), NEW m \in 1 .. Len(ledger), m < k,
         ledger[m].jobId = ledger[k].jobId, ledger[m].payload.name \in DOMAIN Before
  PROVE  Stage(ledger[m].jobId) \in Reaches[ledger[m].payload.name]
PROOF
  <1>1. InTime(m)
    BY InTimeIsTimely, TimelyInTime
  <1>2. delivered[m] > 0
    BY DEF Deliverable, Ordered
  <1>. QED
    BY <1>1, <1>2 DEF OrderedInv, DeliveredHasReached, Due, Before, Reaches

\* A claim that lands in time is the first one, and so is a verdict, which
\* moreover finds its job disputed.
LEMMA LandsFirst ==
  ASSUME Ordered, IInv, OrderedInv, NEW k \in 1 .. Len(ledger),
         NEW event \in ArsEvent, Lands(k, event), InTime(k), NEW j \in JobIds,
         j = event.jobId
  PROVE  /\ event.type = "Disputed" => IsFirst(k, Entries(j, "ClaimSubmitted"))
         /\ event.type = "Closed" =>
              IsFirst(k, VerdictEntries(j)) /\ Stage(j) = "DISPUTED"
PROOF
  <1>1. /\ Deliverable(k) /\ Brought(k, event) /\ Store!AppendEvent(event)
        /\ ledger[k].jobId = j
    BY DEF Lands, Counts, Brought
  <1>2. Len(ledger) \in Nat
    BY LenProperties DEF IInv, Shapes
  <1>3. PICK stage : stage = Stage(j)
    OBVIOUS
  <1>4. IF logs[j] = <<>> THEN event.type = "JobOpened" ELSE stage \in AllowedIn[event.type]
    BY <1>1, <1>3, Appended DEF IInv
  <1>5. ASSUME event.type = "Disputed" PROVE IsFirst(k, Entries(j, "ClaimSubmitted"))
    <2>1. k \in Entries(j, "ClaimSubmitted")
      BY <1>1, <1>5 DEF Brought, Entries
    <2>. SUFFICES ASSUME NEW m \in Entries(j, "ClaimSubmitted"), m < k PROVE FALSE
      BY <1>2, <2>1 DEF IsFirst, Entries
    <2>2. /\ m \in 1 .. Len(ledger) /\ ledger[m].jobId = j
          /\ ledger[m].payload.name = "ClaimSubmitted"
      BY DEF Entries
    <2>3. stage \in Disputable
      BY <1>1, <1>3, <2>2, EarlierWasDelivered DEF Before, Reaches
    <2>. QED  BY <1>4, <1>5, <2>3 DEF Disputable, AllowedIn
  <1>6. ASSUME event.type = "Closed" PROVE stage = "DISPUTED"
    <2>1. ledger[k].payload.name \in {"ClaimResolved", "ArbiterRuled"}
      BY <1>1, <1>6 DEF Brought
    <2>2. stage \in Disputable
      BY <1>1, <1>3, <2>1, DeliveredOnTime DEF Due, Expects
    <2>. QED  BY <1>4, <1>6, <2>2 DEF Disputable, AllowedIn, CloseStates
  <1>7. ASSUME event.type = "Closed" PROVE IsFirst(k, VerdictEntries(j))
    <2>1. k \in VerdictEntries(j)
      BY <1>1, <1>7 DEF Brought, VerdictEntries, Entries
    <2>. SUFFICES ASSUME NEW m \in VerdictEntries(j), m < k PROVE FALSE
      BY <1>2, <2>1 DEF IsFirst, VerdictEntries, Entries
    <2>2. /\ m \in 1 .. Len(ledger) /\ ledger[m].jobId = j
          /\ ledger[m].payload.name \in {"ClaimResolved", "ArbiterRuled"}
      BY DEF VerdictEntries, Entries
    <2>3. stage \in {"CLOSED"}
      BY <1>1, <1>3, <2>2, EarlierWasDelivered DEF Before, Reaches
    <2>. QED  BY <1>6, <1>7, <2>3
  <1>. QED  BY <1>3, <1>5, <1>6, <1>7

\* An append keeps the logs telling if its own event tells.
LEMMA TellingAppend ==
  ASSUME IInv, LogsTell, NEW event \in ArsEvent, Store!AppendEvent(event),
         ledger' = ledger, NEW id, id = event.jobId,
         event.type = "Disputed" =>
           \E c \in Entries(id, "ClaimSubmitted") :
             /\ event.claim = ledger[c].payload.claim
             /\ InTime(c) => IsFirst(c, Entries(id, "ClaimSubmitted")),
         event.type = "Closed" /\ event.resolution \in Verdicts =>
           \E v \in VerdictEntries(id) :
             /\ ledger[v].paid <=> (event.resolution = "dispute_upheld")
             /\ InTime(v) => IsFirst(v, VerdictEntries(id)) /\ Stage(id) = "DISPUTED"
  PROVE  LogsTell'
PROOF
  <1>. SUFFICES ASSUME NEW j \in JobIds, NEW n \in 1 .. Len(logs'[j])
                PROVE  DisputeTells(j, n)' /\ VerdictTells(j, n)'
    BY DEF LogsTell
  <1>1. logs[j] \in Seq(ArsEvent) /\ Len(logs[j]) \in Nat
    BY LenProperties DEF IInv, Shapes
  <1>2. /\ \A i, name : Entries(i, name)' = Entries(i, name)
        /\ \A k : InTime(k)' <=> InTime(k)
        /\ VerdictEntries(j)' = VerdictEntries(j)
    BY LedgerStays, DueStays DEF VerdictEntries
  <1>3. ASSUME n \in 1 .. Len(logs[j]), logs'[j][n] = logs[j][n],
               Logged(j, "Disputed") \subseteq Logged(j, "Disputed")'
        PROVE  DisputeTells(j, n)' /\ VerdictTells(j, n)'
    <2>1. DisputeTells(j, n) /\ VerdictTells(j, n)
      BY <1>3 DEF LogsTell
    <2>2. DisputeTells(j, n)'
      BY <1>2, <1>3, <2>1 DEF DisputeTells, IsFirst
    <2>3. VerdictTells(j, n)'
      BY <1>2, <1>3, <2>1 DEF VerdictTells, IsFirst
    <2>. QED  BY <2>2, <2>3
  <1>4. CASE j # id
    <2>1. logs'[j] = logs[j]
      BY <1>4, Onwards DEF IInv
    <2>. QED  BY <1>3, <2>1 DEF Logged
  <1>5. CASE j = id
    <2>1. logs'[j] = Append(logs[j], event)
      BY <1>1, <1>5, Appended DEF IInv, Shapes
    <2>2. /\ Len(logs'[j]) = Len(logs[j]) + 1
          /\ \A m \in 1 .. Len(logs[j]) : logs'[j][m] = logs[j][m]
          /\ logs'[j][Len(logs[j]) + 1] = event
      BY <1>1, <2>1
    <2>3. Logged(j, "Disputed") \subseteq Logged(j, "Disputed")'
      BY <1>1, <2>2 DEF Logged
    <2>4. CASE n \in 1 .. Len(logs[j])
      BY <1>3, <2>2, <2>3, <2>4
    <2>5. CASE n = Len(logs[j]) + 1
      <3>1. logs'[j][n] = event
        BY <2>2, <2>5
      <3>2. Stage(j) = "DISPUTED" => \E m \in Logged(j, "Disputed")' : m < n
        <4>. SUFFICES ASSUME Stage(j) = "DISPUTED"
                      PROVE  \E m \in Logged(j, "Disputed")' : m < n
          OBVIOUS
        <4>1. logs[j] # <<>>
          BY DEF Stage
        <4>2. PICK last \in ArsEvent : last = logs[j][Len(logs[j])]
          BY <1>1, <4>1, CurrentJob DEF IInv
        <4>3. StateAfter(last) = "DISPUTED"
          BY <4>1, <4>2 DEF Stage
        <4>4. last.type = "Disputed"
          BY <4>3, EventTypes DEF StateAfter, Target, ArsEventTypes
        <4>5. Len(logs[j]) \in 1 .. Len(logs[j])
          BY <1>1, <4>1, EmptySeq
        <4>6. Len(logs[j]) \in Logged(j, "Disputed")
          BY <4>2, <4>4, <4>5 DEF Logged
        <4>. QED  BY <1>1, <2>3, <2>5, <4>6
      <3>3. DisputeTells(j, n)'
        BY <1>2, <1>5, <3>1 DEF DisputeTells, IsFirst
      <3>4. VerdictTells(j, n)'
        BY <1>2, <1>5, <3>1, <3>2 DEF VerdictTells, IsFirst
      <3>. QED  BY <3>3, <3>4
    <2>. QED  BY <1>1, <2>2, <2>4, <2>5
  <1>. QED  BY <1>4, <1>5

LEMMA NextLogsTell ==
  ASSUME Ordered, IInv, OrderedInv, LogsTell, [Next]_vars
  PROVE  LogsTell'
PROOF
  <1>1. ASSUME NEW entries \in Seq(LedgerEntry), Emits(entries) PROVE LogsTell'
    <2>1. /\ logs' = logs /\ Len(ledger) \in Nat /\ Len(ledger') \in Nat
          /\ Len(ledger) <= Len(ledger')
          /\ \A n \in 1 .. Len(ledger) : ledger'[n] = ledger[n]
          /\ \A n \in 1 .. Len(ledger') : n \notin 1 .. Len(ledger) => n > Len(ledger)
      BY <1>1, Grown DEF IInv
    <2>2. ASSUME NEW j, NEW k \in Entries(j, "ClaimSubmitted")
          PROVE  /\ k \in Entries(j, "ClaimSubmitted")' /\ ledger'[k] = ledger[k]
                 /\ InTime(k)' <=> InTime(k)
                 /\ IsFirst(k, Entries(j, "ClaimSubmitted")) =>
                      IsFirst(k, Entries(j, "ClaimSubmitted"))'
      <3>1. k \in 1 .. Len(ledger)
        BY DEF Entries
      <3>2. InTime(k)' <=> InTime(k)
        BY <1>1, <3>1, DueStays
      <3>3. k \in Entries(j, "ClaimSubmitted")' /\ ledger'[k] = ledger[k]
        BY <2>1, <3>1 DEF Entries
      <3>4. \A m \in Entries(j, "ClaimSubmitted")' :
              m \in Entries(j, "ClaimSubmitted") \/ k <= m
        BY <2>1, <3>1 DEF Entries
      <3>. QED  BY <3>2, <3>3, <3>4 DEF IsFirst
    <2>3. ASSUME NEW j, NEW k \in VerdictEntries(j)
          PROVE  /\ k \in VerdictEntries(j)' /\ ledger'[k] = ledger[k]
                 /\ InTime(k)' <=> InTime(k)
                 /\ IsFirst(k, VerdictEntries(j)) => IsFirst(k, VerdictEntries(j))'
      <3>1. k \in 1 .. Len(ledger)
        BY DEF VerdictEntries, Entries
      <3>2. InTime(k)' <=> InTime(k)
        BY <1>1, <3>1, DueStays
      <3>3. k \in VerdictEntries(j)' /\ ledger'[k] = ledger[k]
        BY <2>1, <3>1 DEF VerdictEntries, Entries
      <3>4. \A m \in VerdictEntries(j)' : m \in VerdictEntries(j) \/ k <= m
        BY <2>1, <3>1 DEF VerdictEntries, Entries
      <3>. QED  BY <3>2, <3>3, <3>4 DEF IsFirst
    <2>. SUFFICES ASSUME NEW j \in JobIds, NEW n \in 1 .. Len(logs[j])
                  PROVE  DisputeTells(j, n)' /\ VerdictTells(j, n)'
      BY <2>1 DEF LogsTell
    <2>4. DisputeTells(j, n) /\ VerdictTells(j, n)
      BY DEF LogsTell
    <2>5. DisputeTells(j, n)'
      BY <2>1, <2>2, <2>4 DEF DisputeTells
    <2>6. VerdictTells(j, n)'
      BY <2>1, <2>3, <2>4 DEF VerdictTells, Logged
    <2>. QED  BY <2>5, <2>6
  <1>2. ASSUME NEW k \in 1 .. Len(ledger), NEW event \in ArsEvent, Lands(k, event)
        PROVE  LogsTell'
    <2>1. PICK id \in JobIds : id = event.jobId
      BY EventTypes
    <2>2. /\ Brought(k, event) /\ Store!AppendEvent(event) /\ ledger' = ledger
          /\ ledger[k].jobId = id
      BY <1>2, <2>1 DEF Lands, Counts, Brought
    <2>3. InTime(k) =>
            /\ event.type = "Disputed" => IsFirst(k, Entries(id, "ClaimSubmitted"))
            /\ event.type = "Closed" =>
                 IsFirst(k, VerdictEntries(id)) /\ Stage(id) = "DISPUTED"
      BY <1>2, <2>1, LandsFirst
    <2>4. event.type = "Disputed" =>
            /\ k \in Entries(id, "ClaimSubmitted")
            /\ event.claim = ledger[k].payload.claim
      BY <2>2 DEF Brought, Entries
    <2>5. event.type = "Closed" =>
            /\ k \in VerdictEntries(id)
            /\ ledger[k].paid <=> (event.resolution = "dispute_upheld")
      BY <2>2 DEF Brought, VerdictEntries, Entries
    <2>. QED  BY <2>1, <2>2, <2>3, <2>4, <2>5, TellingAppend
  <1>3. ASSUME NEW event \in ArsEvent, OffChain(event) PROVE LogsTell'
    <2>1. /\ Store!AppendEvent(event) /\ ledger' = ledger /\ event.type # "Disputed"
          /\ ~ (event.type = "Closed" /\ event.resolution \in Verdicts)
      BY <1>3 DEF OffChain, chainVars, Verdicts
    <2>. QED  BY <2>1, TellingAppend
  <1>4. ASSUME logs' = logs, ledger' = ledger PROVE LogsTell'
    <2>1. \A j : /\ Logged(j, "Disputed")' = Logged(j, "Disputed")
                 /\ Entries(j, "ClaimSubmitted")' = Entries(j, "ClaimSubmitted")
                 /\ VerdictEntries(j)' = VerdictEntries(j)
      BY <1>4 DEF Logged, VerdictEntries, Entries
    <2>2. \A k : InTime(k)' <=> InTime(k)
      BY <1>4, DueStays
    <2>3. ASSUME NEW j, NEW n
          PROVE  /\ DisputeTells(j, n) => DisputeTells(j, n)'
                 /\ VerdictTells(j, n) => VerdictTells(j, n)'
      BY <1>4, <2>1, <2>2 DEF DisputeTells, VerdictTells, IsFirst
    <2>. QED  BY <1>4, <2>3 DEF LogsTell
  <1>. QED
    BY <1>1, <1>2, <1>3, <1>4, NextCases DEF Skips, Bounces, Looks, Counts, chainVars, vars

\* If the indexer delivers in ledger order and resolves every job id, the log
\* of a job closed on a verdict, whose action was recorded after a draw, holds
\* the first claim that was submitted and then the first verdict that was
\* given: neither a second claim, nor the two events of one ruling, nor a clean
\* close can come between.
THEOREM SpecVerdictFollowsDispute ==
  ASSUME Ordered
  PROVE  Spec => []VerdictFollowsDispute
PROOF
  <1>1. Init => LogsTell
    BY DEF Init, Store!Init, LogsTell
  <1>2. IInv /\ OrderedInv /\ LogsTell /\ [Next]_vars => LogsTell'
    BY NextLogsTell
  <1>3. IInv /\ LogsTell => VerdictFollowsDispute
    <2>. SUFFICES ASSUME IInv, LogsTell, NEW j \in Jobs,
                         NEW n \in ClosedAs(j, Verdicts), Timely(j)
                  PROVE  /\ \E m \in Logged(j, "Disputed"),
                               c \in Entries(j, "ClaimSubmitted") :
                              /\ m < n /\ IsFirst(c, Entries(j, "ClaimSubmitted"))
                              /\ logs[j][m].claim = ledger[c].payload.claim
                         /\ \E v \in VerdictEntries(j) :
                              /\ IsFirst(v, VerdictEntries(j))
                              /\ ledger[v].paid <=>
                                   (logs[j][n].resolution = "dispute_upheld")
      BY DEF VerdictFollowsDispute
    <2>1. /\ j \in JobIds /\ n \in 1 .. Len(logs[j])
          /\ logs[j][n].type = "Closed" /\ logs[j][n].resolution \in Verdicts
      BY JobsAreIds DEF ClosedAs, Logged
    <2>2. ASSUME NEW k, k \in VerdictEntries(j) \/ k \in Entries(j, "ClaimSubmitted")
          PROVE  InTime(k)
      <3>1. /\ k \in 1 .. Len(ledger) /\ ledger[k].jobId = j
            /\ ledger[k].payload.name \in DOMAIN Before
        BY <2>2 DEF VerdictEntries, Entries, Before
      <3>. QED  BY <3>1, TimelyInTime
    <2>3. PICK v \in VerdictEntries(j) :
            /\ ledger[v].paid <=> (logs[j][n].resolution = "dispute_upheld")
            /\ InTime(v) => /\ IsFirst(v, VerdictEntries(j))
                            /\ \E m \in Logged(j, "Disputed") : m < n
      BY <2>1 DEF LogsTell, VerdictTells
    <2>4. PICK m \in Logged(j, "Disputed") : m < n
      BY <2>2, <2>3
    <2>5. m \in 1 .. Len(logs[j]) /\ logs[j][m].type = "Disputed"
      BY DEF Logged
    <2>6. PICK c \in Entries(j, "ClaimSubmitted") :
            /\ logs[j][m].claim = ledger[c].payload.claim
            /\ InTime(c) => IsFirst(c, Entries(j, "ClaimSubmitted"))
      BY <2>1, <2>5 DEF LogsTell, DisputeTells
    <2>. QED  BY <2>2, <2>3, <2>4, <2>6
  <1>. QED  BY <1>1, <1>2, <1>3, SpecIInv, SpecOrderedInv, PTL DEF Spec

(***************************************************************************)
(* The draws an indexer that delivers exactly once leaves out.             *)
(***************************************************************************)
\* If the indexer delivers once, in ledger order, and resolves every job id,
\* only a draw emitted after the job's action was recorded is refused.
THEOREM SpecRefusedDrawsAreLate ==
  ASSUME Ordered, MaxDeliveries = 1
  PROVE  Spec => []RefusedDrawsAreLate
PROOF
  <1>. DEFINE Late(n) ==
                \E m \in Entries(ledger[n].jobId, "ActionRecorded") : m < n
  <1>1. RefusedDrawsAreLate <=>
          \A j \in Jobs : \A n \in refused \cap Draws(j) : Late(n)
    BY DEF RefusedDrawsAreLate, Draws, Entries
  <1>2. RefusedDrawsAreLate' <=>
          \A j \in Jobs : \A n \in (refused \cap Draws(j))' : Late(n)'
    BY DEF RefusedDrawsAreLate, Draws, Entries
  <1>3. Init => RefusedDrawsAreLate
    BY DEF Init, RefusedDrawsAreLate
  <1>4. IInv /\ OrderedInv /\ StageWasDelivered /\ RefusedDrawsAreLate
          /\ [Next]_vars => RefusedDrawsAreLate'
    <2>. SUFFICES ASSUME IInv, OrderedInv, StageWasDelivered, RefusedDrawsAreLate,
                         [Next]_vars,
                         NEW j \in Jobs, NEW n \in (refused \cap Draws(j))'
                  PROVE  Late(n)'
      BY <1>2
    <2>1. n \in refused \cap Draws(j) => Late(n)
      BY <1>1
    <2>2. refused \subseteq 1 .. Len(ledger)
      BY DEF IInv, Shapes
    <2>3. ASSUME NEW entries \in Seq(LedgerEntry), Emits(entries) PROVE Late(n)'
      <3>1. /\ refused' = refused /\ Len(ledger) \in Nat /\ Len(ledger') \in Nat
            /\ Len(ledger) <= Len(ledger')
            /\ \A m \in 1 .. Len(ledger) : ledger'[m] = ledger[m]
        BY <2>3, Grown DEF IInv
      <3>2. n \in 1 .. Len(ledger) /\ n \in refused \cap Draws(j)
        BY <2>2, <3>1 DEF Draws, Entries
      <3>. QED  BY <2>1, <3>1, <3>2 DEF Entries
    <2>4. ASSUME ledger' = ledger, n \in refused PROVE Late(n)'
      BY <2>1, <2>4 DEF Draws, Entries
    <2>5. ASSUME NEW k \in 1 .. Len(ledger), NEW event \in ArsEvent, Bounces(k, event),
                 n \notin refused
          PROVE  Late(n)'
      <3>1. /\ Deliverable(k) /\ Brought(k, event) /\ ~ Store!Accepts(event)
            /\ ledger' = ledger /\ n = k
        BY <2>5 DEF Bounces, Counts
      <3>2. PICK id \in JobIds : id = ledger[n].jobId
        BY <3>1, LedgerShape DEF IInv
      <3>3. ledger[n].payload.name = "CreditDrawn"
        BY <3>1 DEF Draws, Entries
      <3>4. event.type = "PrincipalReleased" /\ event.jobId = id
        BY <3>1, <3>2, <3>3 DEF Brought
      <3>5. Stage(id) \in Passed
        BY <3>1, <3>2, <3>3 DEF IInv, DrawnHasPassed
      <3>6. logs[id] # <<>>
        BY <3>5 DEF Stage, Passed, Executed, Evidenced, Disputable
      <3>7. Stage(id) \notin AllowedIn["PrincipalReleased"]
        BY <3>1, <3>4, <3>6, Rejected DEF IInv
      <3>8. Stage(id) \in Evidenced
        <4>1. PICK stage : stage = Stage(id)
          OBVIOUS
        <4>. QED
          BY <3>5, <3>7, <4>1 DEF AllowedIn, DrawStates, Passed, Executed
      <3>9. PICK m \in Entries(id, "ActionRecorded") : delivered[m] > 0
        BY <3>8 DEF StageWasDelivered, WasDelivered
      <3>10. m \in 1 .. Len(ledger) /\ ledger[m].payload.name = "ActionRecorded"
        BY <3>9 DEF Entries
      <3>11. delivered[n] \in Nat /\ delivered[n] < 1
        BY <3>1, LedgerShape DEF IInv, Deliverable
      <3>12. m # n
        BY <3>3, <3>10
      <3>13. ~ (n < m)
        BY <3>1, <3>9, <3>10, <3>11 DEF OrderedInv, DeliveredInOrder
      <3>14. m < n
        BY <3>1, <3>10, <3>12, <3>13
      <3>. QED  BY <3>1, <3>2, <3>9, <3>14 DEF Entries
    <2>6. ASSUME refused' = refused, ledger' = ledger PROVE Late(n)'
      BY <2>4, <2>6
    <2>7. ASSUME NEW k \in 1 .. Len(ledger), NEW event \in ArsEvent, Bounces(k, event)
          PROVE  Late(n)'
      BY <2>4, <2>5, <2>7 DEF Bounces, Counts
    <2>. HIDE DEF Late
    <2>. QED
      BY <2>3, <2>6, <2>7, NextCases
         DEF Skips, Lands, OffChain, Looks, Counts, chainVars, vars
  <1>. QED
    BY <1>3, <1>4, SpecIInv, SpecOrderedInv, SpecStageWasDelivered, PTL DEF Spec

(***************************************************************************)
(* And the draws it counts.                                                *)
(***************************************************************************)
CountedDraws(j) == {n \in Draws(j) \ refused : delivered[n] > 0}

LEMMA OneMoreDraw ==
  ASSUME NEW l, NEW S, IsFiniteSet(S), NEW k, k \notin S,
         \A n \in S \cup {k} : l[n].payload.amount \in Nat
  PROVE  SumFunction([n \in S \cup {k} |-> l[n].payload.amount]) =
           SumFunction([n \in S |-> l[n].payload.amount]) + l[k].payload.amount
PROOF
  <1>. DEFINE T == S \cup {k}
  <1>1. PICK f : f = [n \in S |-> l[n].payload.amount]
    OBVIOUS
  <1>2. PICK g : g = [n \in T |-> l[n].payload.amount]
    OBVIOUS
  <1>3. /\ DOMAIN f = S /\ \A n \in S : f[n] \in Int /\ f[n] = g[n]
        /\ DOMAIN g = T /\ \A n \in T : g[n] \in Int
        /\ g[k] = l[k].payload.amount
    BY <1>1, <1>2
  <1>4. SumFunctionOnSet(f, S) = SumFunctionOnSet(g, S)
    BY <1>3, SumIsEqual
  <1>5. SumFunctionOnSet(g, T) = g[k] + SumFunctionOnSet(g, S)
    BY <1>3, SumAdd
  <1>6. SumFunctionOnSet(g, S) \in Int /\ g[k] \in Int
    BY <1>3, SumIsInt
  <1>7. SumFunction(f) = SumFunctionOnSet(f, S) /\ SumFunction(g) = SumFunctionOnSet(g, T)
    BY <1>3 DEF SumFunction
  <1>. QED  BY <1>1, <1>2, <1>3, <1>4, <1>5, <1>6, <1>7

\* The same draws of the same amounts have the same total.
LEMMA DrawnStays ==
  ASSUME NEW j, CountedDraws(j)' = CountedDraws(j),
         \A n \in CountedDraws(j) : ledger'[n] = ledger[n]
  PROVE  Drawn(CountedDraws(j))' = Drawn(CountedDraws(j))
PROOF
  <1>1. PICK S : S = CountedDraws(j)
    OBVIOUS
  <1>2. [n \in S |-> ledger'[n].payload.amount] = [n \in S |-> ledger[n].payload.amount]
    BY <1>1
  <1>. QED  BY <1>1, <1>2 DEF Drawn

\* If the indexer delivers once, in whatever order, and resolves every job id, a
\* job has released what was drawn for it and delivered, except the draws its
\* log refused: no draw is lost, and none is counted twice.
THEOREM SpecDeliveredDrawsAreCounted ==
  ASSUME ~ MayMissJobId, MaxDeliveries = 1
  PROVE  Spec => []DeliveredDrawsAreCounted
PROOF
  <1>1. DeliveredDrawsAreCounted <=>
          \A j \in Jobs : Released(j) = Drawn(CountedDraws(j))
    BY DEF DeliveredDrawsAreCounted, CountedDraws, Draws
  <1>2. DeliveredDrawsAreCounted' <=>
          \A j \in Jobs : Released(j)' = Drawn(CountedDraws(j))'
    BY DEF DeliveredDrawsAreCounted, CountedDraws, Draws
  <1>3. Init => DeliveredDrawsAreCounted
    <2>. SUFFICES ASSUME Init, NEW j \in Jobs
                  PROVE  Released(j) = Drawn(CountedDraws(j))
      BY <1>1
    <2>1. CountedDraws(j) = {} /\ logs[j] = <<>>
      BY JobsAreIds DEF Init, Store!Init, CountedDraws, Draws, Entries
    <2>2. Released(j) = 0
      BY <2>1, StoreCurrent DEF Released, Store!ReleasedOf
    <2>3. PICK f : f = [n \in CountedDraws(j) |-> ledger[n].payload.amount]
      OBVIOUS
    <2>4. DOMAIN f = {} /\ SumFunctionOnSet(f, {}) = 0
      BY <2>1, <2>3, FS_EmptySet, SumSteps
    <2>. QED  BY <2>2, <2>3, <2>4 DEF Drawn, SumFunction
  <1>4. IInv /\ DeliveredDrawsAreCounted /\ [Next]_vars => DeliveredDrawsAreCounted'
    <2>. SUFFICES ASSUME IInv, DeliveredDrawsAreCounted, [Next]_vars, NEW j \in Jobs
                  PROVE  Released(j)' = Drawn(CountedDraws(j))'
      BY <1>2
    <2>1. /\ Released(j) = Drawn(CountedDraws(j))
          /\ j \in JobIds /\ Released(j) \in Nat
      BY <1>1, JobsAreIds, CurrentJob DEF IInv
    <2>2. /\ \A n \in refused : delivered[n] > 0
          /\ refused \subseteq 1 .. Len(ledger) /\ Len(ledger) \in Nat
          /\ CountedDraws(j) \subseteq 1 .. Len(ledger)
      BY LenProperties DEF IInv, Shapes, CountedDraws, Draws, Entries
    <2>3. ASSUME NEW entries \in Seq(LedgerEntry), Emits(entries)
          PROVE  Released(j)' = Drawn(CountedDraws(j))'
      <3>1. /\ refused' = refused /\ logs' = logs /\ Len(ledger') \in Nat
            /\ Len(ledger) <= Len(ledger')
            /\ \A n \in 1 .. Len(ledger) :
                 ledger'[n] = ledger[n] /\ delivered'[n] = delivered[n]
            /\ \A n \in 1 .. Len(ledger') :
                 n \notin 1 .. Len(ledger) => delivered'[n] = 0
        BY <2>3, Grown DEF IInv
      <3>2. CountedDraws(j)' \subseteq CountedDraws(j)
        <4>. SUFFICES ASSUME NEW n \in CountedDraws(j)' PROVE n \in CountedDraws(j)
          OBVIOUS
        <4>1. n \in 1 .. Len(ledger)
          BY <3>1 DEF CountedDraws, Draws, Entries
        <4>. QED  BY <3>1, <4>1 DEF CountedDraws, Draws, Entries
      <3>3. CountedDraws(j) \subseteq CountedDraws(j)'
        BY <2>2, <3>1 DEF CountedDraws, Draws, Entries
      <3>4. CountedDraws(j)' = CountedDraws(j)
        BY <3>2, <3>3
      <3>5. Drawn(CountedDraws(j))' = Drawn(CountedDraws(j))
        BY <2>2, <3>1, <3>4, DrawnStays
      <3>. QED  BY <2>1, <3>1, <3>5, ReleasedStays
    <2>4. ASSUME NEW k \in 1 .. Len(ledger), Counts(k)
          PROVE  /\ ledger' = ledger /\ delivered[k] = 0 /\ delivered'[k] > 0
                 /\ k \notin refused /\ k \notin CountedDraws(j)
                 /\ \A m \in 1 .. Len(ledger) : m # k => delivered'[m] = delivered[m]
      <3>1. delivered[k] \in Nat /\ delivered[k] < 1 /\ ledger' = ledger
        BY <2>4, LedgerShape DEF IInv, Counts, Deliverable
      <3>2. delivered[k] = 0
        BY <3>1
      <3>3. /\ delivered'[k] > 0
            /\ \A m \in 1 .. Len(ledger) : m # k => delivered'[m] = delivered[m]
        BY <2>4, <3>2, Counted DEF IInv
      <3>4. k \notin refused /\ k \notin CountedDraws(j)
        BY <2>2, <3>2 DEF CountedDraws
      <3>. QED  BY <3>1, <3>2, <3>3, <3>4
    <2>5. ASSUME NEW k \in 1 .. Len(ledger), Counts(k), Released(j)' = Released(j),
                 refused' = refused \/ refused' = refused \cup {k},
                 k \in Draws(j) => refused' = refused \cup {k}
          PROVE  Released(j)' = Drawn(CountedDraws(j))'
      <3>1. /\ ledger' = ledger /\ k \notin refused /\ k \notin CountedDraws(j)
            /\ \A m \in 1 .. Len(ledger) : m # k => delivered'[m] = delivered[m]
        BY <2>4, <2>5
      <3>2. CountedDraws(j)' = CountedDraws(j)
        BY <2>5, <3>1 DEF CountedDraws, Draws, Entries
      <3>. QED  BY <2>1, <2>5, <3>1, <3>2, DrawnStays
    <2>6. ASSUME NEW k \in 1 .. Len(ledger), Skips(k)
          PROVE  Released(j)' = Drawn(CountedDraws(j))'
      <3>1. /\ Counts(k) /\ refused' = refused /\ logs' = logs
            /\ ledger[k].payload.name \in OtherNames
        BY <2>6 DEF Skips
      <3>2. k \notin Draws(j)
        BY <3>1, OtherNamesAssumption DEF Draws, Entries
      <3>. QED  BY <2>5, <3>1, <3>2, ReleasedStays
    <2>7. ASSUME NEW k \in 1 .. Len(ledger), NEW event \in ArsEvent, Bounces(k, event)
          PROVE  Released(j)' = Drawn(CountedDraws(j))'
      BY <2>5, <2>7, ReleasedStays DEF Bounces
    <2>8. ASSUME NEW k \in 1 .. Len(ledger), NEW event \in ArsEvent, Lands(k, event)
          PROVE  Released(j)' = Drawn(CountedDraws(j))'
      <3>1. /\ Counts(k) /\ Brought(k, event) /\ Store!AppendEvent(event)
            /\ refused' = refused /\ event.jobId = ledger[k].jobId
        BY <2>8 DEF Lands, Brought
      <3>2. CASE k \notin Draws(j)
        <4>1. j = event.jobId => event.type # "PrincipalReleased"
          BY <3>1, <3>2 DEF Brought, Draws, Entries
        <4>2. Released(j)' = Released(j)
          <5>1. CASE j # event.jobId
            BY <2>1, <3>1, <5>1, Onwards DEF IInv
          <5>2. CASE j = event.jobId
            <6>1. Released(j)' = Released(j) + AmountOf(event)
              BY <3>1, <5>2, Appended DEF IInv
            <6>2. AmountOf(event) = 0
              BY <4>1, <5>2 DEF AmountOf
            <6>. QED  BY <2>1, <6>1, <6>2
          <5>. QED  BY <5>1, <5>2
        <4>. QED  BY <2>5, <3>1, <3>2, <4>2
      <3>3. CASE k \in Draws(j)
        <4>1. /\ ledger[k].jobId = j /\ ledger[k].payload.name = "CreditDrawn"
          BY <3>3 DEF Draws, Entries
        <4>2. j = event.jobId /\ AmountOf(event) = ledger[k].payload.amount
          BY <3>1, <4>1 DEF Brought, AmountOf
        <4>3. Released(j)' = Released(j) + ledger[k].payload.amount
          BY <3>1, <4>2, Appended DEF IInv
        <4>4. PICK S : S = CountedDraws(j)
          OBVIOUS
        <4>5. PICK l : l = ledger
          OBVIOUS
        <4>6. /\ ledger' = l /\ k \notin S /\ S \subseteq Draws(j)
              /\ CountedDraws(j)' = S \cup {k}
          <5>1. /\ ledger' = ledger /\ k \notin refused /\ k \notin CountedDraws(j)
                /\ delivered'[k] > 0
                /\ \A m \in 1 .. Len(ledger) : m # k => delivered'[m] = delivered[m]
            BY <2>4, <3>1
          <5>2. CountedDraws(j)' = CountedDraws(j) \cup {k}
            BY <3>1, <3>3, <5>1 DEF CountedDraws, Draws, Entries
          <5>. QED  BY <4>4, <4>5, <5>1, <5>2 DEF CountedDraws
        <4>7. IsFiniteSet(S) /\ \A n \in S \cup {k} : l[n].payload.amount \in Nat
          <5>1. /\ IsFiniteSet(Draws(j))
                /\ \A n \in Draws(j) : ledger[n].payload.amount \in Nat
            BY DrawShape DEF IInv
          <5>2. IsFiniteSet(S)
            BY <4>6, <5>1, FS_Subset
          <5>. QED  BY <3>3, <4>5, <4>6, <5>1, <5>2
        <4>8. Drawn(CountedDraws(j)) = SumFunction([n \in S |-> l[n].payload.amount])
          BY <4>4, <4>5 DEF Drawn
        <4>9. Drawn(CountedDraws(j))' =
                SumFunction([n \in S \cup {k} |-> l[n].payload.amount])
          BY <4>6 DEF Drawn
        <4>10. SumFunction([n \in S \cup {k} |-> l[n].payload.amount]) =
                 SumFunction([n \in S |-> l[n].payload.amount]) + l[k].payload.amount
          BY <4>6, <4>7, OneMoreDraw
        <4>11. Drawn(CountedDraws(j))' =
                 Drawn(CountedDraws(j)) + ledger[k].payload.amount
          BY <4>5, <4>8, <4>9, <4>10
        <4>. QED  BY <2>1, <4>3, <4>11
      <3>. QED  BY <3>2, <3>3
    <2>9. ASSUME NEW event \in ArsEvent, OffChain(event)
          PROVE  Released(j)' = Drawn(CountedDraws(j))'
      <3>1. /\ Store!AppendEvent(event) /\ ledger' = ledger /\ AmountOf(event) = 0
            /\ delivered' = delivered /\ refused' = refused
        BY <2>9 DEF OffChain, AmountOf, chainVars
      <3>2. Released(j)' = Released(j)
        <4>1. Released(j)' = Released(j) \/ Released(j)' = Released(j) + 0
          BY <2>1, <3>1, Appended, Onwards DEF IInv
        <4>. QED  BY <2>1, <4>1
      <3>3. CountedDraws(j)' = CountedDraws(j)
        BY <3>1 DEF CountedDraws, Draws, Entries
      <3>. QED  BY <2>1, <3>1, <3>2, <3>3, DrawnStays
    <2>10. ASSUME logs' = logs, UNCHANGED chainVars
           PROVE  Released(j)' = Drawn(CountedDraws(j))'
      <3>1. CountedDraws(j)' = CountedDraws(j) /\ ledger' = ledger
        BY <2>10 DEF CountedDraws, Draws, Entries, chainVars
      <3>. QED  BY <2>1, <2>10, <3>1, DrawnStays, ReleasedStays
    <2>. QED
      BY <2>3, <2>6, <2>7, <2>8, <2>9, <2>10, NextCases
         DEF Looks, chainVars, vars
  <1>. QED  BY <1>3, <1>4, SpecIInv, PTL DEF Spec

-----------------------------------------------------------------------------
(***************************************************************************)
(* The pipeline implements the witnessed lifecycle.                        *)
(***************************************************************************)
\* What an entry tells of its job.
Tells(e, fact) ==
  \/ e.payload.name = "ActionRecorded" /\ fact = "recorded"
  \/ e.payload.name = "ClaimSubmitted" /\ fact = "claimed"
  \/ /\ e.payload.name \in {"ClaimResolved", "ArbiterRuled"}
     /\ fact = IF e.paid THEN "paid" ELSE "unpaid"
TellsDraw(e, amount) == e.payload.name = "CreditDrawn" /\ amount = e.payload.amount

LEMMA ToldFacts ==
  ASSUME NEW j, NEW x
  PROVE  /\ x \in ChainFacts(j) <=>
              \E n \in 1 .. Len(ledger) : ledger[n].jobId = j /\ Tells(ledger[n], x)
         /\ x \in DrawnAmounts(j) <=>
              \E n \in 1 .. Len(ledger) : ledger[n].jobId = j /\ TellsDraw(ledger[n], x)
PROOF
  BY DEF ChainFacts, DrawnAmounts, VerdictEntries, Entries, Tells, TellsDraw

\* What entries of one job tell is all an emission adds to the chain.
LEMMA ToldByEmission ==
  ASSUME Shapes, NEW entries \in Seq(LedgerEntry), Emits(entries), NEW id,
         \A n \in 1 .. Len(entries) : entries[n].jobId = id, NEW j, NEW x
  PROVE  /\ x \in ChainFacts(j)' <=>
              \/ x \in ChainFacts(j)
              \/ j = id /\ \E n \in 1 .. Len(entries) : Tells(entries[n], x)
         /\ x \in DrawnAmounts(j)' <=>
              \/ x \in DrawnAmounts(j)
              \/ j = id /\ \E n \in 1 .. Len(entries) : TellsDraw(entries[n], x)
PROOF
  <1>1. /\ ledger \in Seq(LedgerEntry) /\ ledger' = ledger \o entries
        /\ Len(ledger) \in Nat /\ Len(entries) \in Nat
    BY LenProperties DEF Shapes, Emits, Emit
  <1>2. /\ Len(ledger') = Len(ledger) + Len(entries)
        /\ \A n \in 1 .. Len(ledger) : ledger'[n] = ledger[n]
        /\ \A n \in 1 .. Len(ledger') :
             n > Len(ledger) => ledger'[n] = entries[n - Len(ledger)]
    BY <1>1, Extended
  <1>3. \A n \in 1 .. Len(entries) :
          /\ Len(ledger) + n \in 1 .. Len(ledger')
          /\ ledger'[Len(ledger) + n] = entries[n]
    BY <1>1, <1>2
  <1>4. ASSUME NEW e
        PROVE  (\E n \in 1 .. Len(ledger') : ledger'[n] = e) <=>
                 \/ \E n \in 1 .. Len(ledger) : ledger[n] = e
                 \/ \E n \in 1 .. Len(entries) : entries[n] = e
    <2>1. ASSUME NEW n \in 1 .. Len(ledger'), n > Len(ledger)
          PROVE  n - Len(ledger) \in 1 .. Len(entries)
      BY <1>1, <1>2, <2>1
    <2>2. \A n \in 1 .. Len(ledger') : n \in 1 .. Len(ledger) \/ n > Len(ledger)
      BY <1>1, <1>2
    <2>3. \A n \in 1 .. Len(ledger) : n \in 1 .. Len(ledger')
      BY <1>1, <1>2
    <2>. QED  BY <1>2, <1>3, <2>1, <2>2, <2>3
  <1>5. /\ x \in ChainFacts(j)' <=>
             \E n \in 1 .. Len(ledger') : ledger'[n].jobId = j /\ Tells(ledger'[n], x)
        /\ x \in DrawnAmounts(j)' <=>
             \E n \in 1 .. Len(ledger') :
               ledger'[n].jobId = j /\ TellsDraw(ledger'[n], x)
    BY DEF ChainFacts, DrawnAmounts, VerdictEntries, Entries, Tells, TellsDraw
  <1>. DEFINE Old(e) == \E n \in 1 .. Len(ledger) : ledger[n] = e
              New(e) == \E n \in 1 .. Len(entries) : entries[n] = e
              Now(e) == \E n \in 1 .. Len(ledger') : ledger'[n] = e
  <1>6. \A e : Now(e) <=> Old(e) \/ New(e)
    BY <1>4
  <1>7. /\ x \in ChainFacts(j)' <=> \E e : Now(e) /\ e.jobId = j /\ Tells(e, x)
        /\ x \in DrawnAmounts(j)' <=>
             \E e : Now(e) /\ e.jobId = j /\ TellsDraw(e, x)
    BY <1>5, Zenon
  <1>8. /\ x \in ChainFacts(j) <=> \E e : Old(e) /\ e.jobId = j /\ Tells(e, x)
        /\ x \in DrawnAmounts(j) <=>
             \E e : Old(e) /\ e.jobId = j /\ TellsDraw(e, x)
    <2>1. /\ x \in ChainFacts(j) <=>
               \E n \in 1 .. Len(ledger) :
                 ledger[n].jobId = j /\ Tells(ledger[n], x)
          /\ x \in DrawnAmounts(j) <=>
               \E n \in 1 .. Len(ledger) :
                 ledger[n].jobId = j /\ TellsDraw(ledger[n], x)
      BY ToldFacts
    <2>. QED  BY <2>1, Zenon
  <1>9. /\ (j = id /\ \E n \in 1 .. Len(entries) : Tells(entries[n], x)) <=>
             \E e : New(e) /\ e.jobId = j /\ Tells(e, x)
        /\ (j = id /\ \E n \in 1 .. Len(entries) : TellsDraw(entries[n], x)) <=>
             \E e : New(e) /\ e.jobId = j /\ TellsDraw(e, x)
    <2>1. \A e : New(e) => e.jobId = id
      OBVIOUS
    <2>. QED  BY <2>1, Zenon
  <1>. HIDE DEF Old, New, Now
  <1>. QED  BY <1>6, <1>7, <1>8, <1>9, Zenon

\* A job is open as long as it is not closed, and closed as its last event says.
LEMMA OpenResolution ==
  ASSUME Shapes, LogsAreLegal, NEW j \in JobIds, Stage(j) # "CLOSED"
  PROVE  Resolution(j) = "open"
PROOF
  <1>. SUFFICES ASSUME logs[j] # <<>> PROVE logs[j][Len(logs[j])].type # "Closed"
    BY DEF Resolution
  <1>1. StateAfter(logs[j][Len(logs[j])]) # "CLOSED"
    BY DEF Stage
  <1>. QED  BY <1>1 DEF StateAfter, Target

LEMMA ResolutionAfter ==
  ASSUME Shapes, LogsAreLegal, NEW event \in ArsEvent, Store!AppendEvent(event),
         NEW j \in JobIds
  PROVE  Resolution(j)' =
           IF j = event.jobId /\ event.type = "Closed" THEN event.resolution
           ELSE Resolution(j)
PROOF
  <1>1. CASE j # event.jobId
    BY <1>1, Onwards DEF Resolution
  <1>2. CASE j = event.jobId
    <2>1. /\ logs'[j] = Append(logs[j], event)
          /\ IF logs[j] = <<>> THEN event.type = "JobOpened"
             ELSE Stage(j) \in AllowedIn[event.type] /\ event.type # "JobOpened"
      BY <1>2, Appended DEF Shapes
    <2>2. logs[j] \in Seq(ArsEvent)
      BY DEF Shapes
    <2>3. logs'[j] # <<>> /\ logs'[j][Len(logs'[j])] = event
      BY <2>1, <2>2
    <2>4. Stage(j) # "CLOSED"
      <3>1. PICK stage : stage = Stage(j)
        OBVIOUS
      <3>2. CASE logs[j] = <<>>
        BY <3>2 DEF Stage
      <3>3. CASE logs[j] # <<>>
        BY <2>1, <3>1, <3>3, EventTypes
           DEF AllowedIn, DrawStates, CloseStates, ArsEventTypes
      <3>. QED  BY <3>2, <3>3
    <2>. QED  BY <1>2, <2>3, <2>4, OpenResolution DEF Resolution
  <1>. QED  BY <1>1, <1>2

\* The moves of one job in the mapped variables.
MovedTo(id, stage, amount, resolution) ==
  /\ [j \in JobIds |-> StateOf(j)]' =
       [[j \in JobIds |-> StateOf(j)] EXCEPT ![id] = stage]
  /\ [j \in JobIds |-> Released(j)]' =
       [[j \in JobIds |-> Released(j)] EXCEPT ![id] = Released(id) + amount]
  /\ [j \in JobIds |-> Resolution(j)]' =
       [[j \in JobIds |-> Resolution(j)] EXCEPT ![id] = resolution]

LEMMA AppendMoves ==
  ASSUME IInv, NEW event \in ArsEvent, Store!AppendEvent(event), Shapes'
  PROVE  MovedTo(event.jobId, StateAfter(event), AmountOf(event),
                 IF event.type = "Closed" THEN event.resolution
                 ELSE Resolution(event.jobId))
PROOF
  <1>. DEFINE id == event.jobId
  <1>1. /\ id \in JobIds /\ LogsAreLegal' /\ Stage(id)' = StateAfter(event)
        /\ Released(id)' = Released(id) + AmountOf(event)
    BY Appended DEF IInv
  <1>2. ASSUME NEW j \in JobIds
        PROVE  /\ StateOf(j)' = IF j = id THEN StateAfter(event) ELSE StateOf(j)
               /\ Released(j)' =
                    IF j = id THEN Released(id) + AmountOf(event) ELSE Released(j)
               /\ Resolution(j)' =
                    IF j = id /\ event.type = "Closed" THEN event.resolution
                    ELSE Resolution(j)
    <2>1. StateOf(j) = Stage(j)
      BY StateIsStage DEF IInv
    <2>2. StateOf(j)' = Stage(j)'
      <3>1. (Shapes /\ LogsAreLegal => StateOf(j) = Stage(j))'
        BY StateIsStage, PTL
      <3>. QED  BY <1>1, <3>1
    <2>. QED  BY <1>1, <2>1, <2>2, ResolutionAfter, Onwards DEF IInv
  <1>. QED  BY <1>1, <1>2 DEF MovedTo

\* The program's steps, on chain.
LEMMA EmissionMoves ==
  ASSUME IInv, NEW entries \in Seq(LedgerEntry), Emits(entries)
  PROVE  W!WitnessedNext \/ UNCHANGED W!allVars
PROOF
  <1>. DEFINE stage == [j \in JobIds |-> StateOf(j)]
              drawn == [j \in JobIds |-> DrawnAmounts(j)]
              chain == [j \in JobIds |-> ChainFacts(j)]
  <1>1. UNCHANGED <<W!vars, [j \in JobIds |-> Resolution(j)]>>
    <2>1. logs' = logs
      BY DEF Emits
    <2>. QED  BY <2>1 DEF W!vars, StateOf, Released, Store!Current, Resolution
  <1>2. CASE entries = <<>>
    <2>1. ledger' = ledger
      <3>1. ledger \in Seq(LedgerEntry) /\ ledger' = ledger \o entries
        BY DEF Emits, Emit, IInv, Shapes
      <3>. QED  BY <1>2, <3>1
    <2>2. drawn' = drawn /\ chain' = chain
      BY <2>1 DEF DrawnAmounts, ChainFacts, VerdictEntries, Entries
    <2>. QED  BY <1>1, <2>2 DEF W!allVars
  <1>3. CASE entries # <<>>
    <2>1. Len(entries) \in Nat /\ 1 \in 1 .. Len(entries)
      BY <1>3, EmptySeq, LenProperties
    <2>2. PICK e \in LedgerEntry : e = entries[1]
      BY <2>1, ElementOfSeq
    <2>3. PICK id \in JobIds : id = e.jobId
      BY JobsAreIds DEF LedgerEntry
    <2>4. /\ EntryIsTrue(e) /\ Permitted(e) /\ e.payload \in Payload
          /\ \A n \in 1 .. Len(entries) : n # 1 => OneRuling(entries[n], e)
      BY <2>1, <2>2 DEF Emits, LedgerEntry
    <2>5. \A n \in 1 .. Len(entries) : entries[n].jobId = id
      BY <2>2, <2>3, <2>4 DEF OneRuling
    <2>6. \A n \in 1 .. Len(entries) :
            \A x : /\ Tells(entries[n], x) => Tells(e, x)
                   /\ TellsDraw(entries[n], x) => TellsDraw(e, x)
      BY <2>2, <2>4 DEF OneRuling, Tells, TellsDraw
    <2>7. ASSUME NEW j \in JobIds
          PROVE  \A x : /\ x \in ChainFacts(j)' <=>
                             x \in ChainFacts(j) \/ (j = id /\ Tells(e, x))
                        /\ x \in DrawnAmounts(j)' <=>
                             x \in DrawnAmounts(j) \/ (j = id /\ TellsDraw(e, x))
      <3>1. Shapes
        BY DEF IInv
      <3>2. \A x : /\ (\E n \in 1 .. Len(entries) : Tells(entries[n], x)) <=> Tells(e, x)
                   /\ (\E n \in 1 .. Len(entries) : TellsDraw(entries[n], x)) <=>
                        TellsDraw(e, x)
        BY <2>1, <2>2, <2>6
      <3>. QED  BY <2>5, <3>1, <3>2, ToldByEmission
    <2>8. ASSUME NEW fact \in {"recorded", "claimed", "paid", "unpaid"},
                 \A x : Tells(e, x) <=> x = fact, e.payload.name # "CreditDrawn"
          PROVE  W!Happens(id, fact)
      <3>1. \A j \in JobIds :
              /\ ChainFacts(j)' = IF j = id THEN ChainFacts(j) \cup {fact}
                                  ELSE ChainFacts(j)
              /\ DrawnAmounts(j)' = DrawnAmounts(j)
        BY <2>7, <2>8 DEF TellsDraw
      <3>2. chain' = [chain EXCEPT ![id] = chain[id] \cup {fact}] /\ drawn' = drawn
        BY <3>1
      <3>. QED  BY <1>1, <3>2 DEF W!Happens
    <2>9. CASE e.payload.name = "CreditDrawn"
      <3>1. PICK amount \in Amounts : amount = e.payload.amount
        BY <2>4, <2>9, PayloadFields
      <3>2. \A j \in JobIds :
              /\ DrawnAmounts(j)' = IF j = id THEN DrawnAmounts(j) \cup {amount}
                                    ELSE DrawnAmounts(j)
              /\ ChainFacts(j)' = ChainFacts(j)
        BY <2>7, <2>9, <3>1 DEF Tells, TellsDraw
      <3>3. drawn' = [drawn EXCEPT ![id] = drawn[id] \cup {amount}] /\ chain' = chain
        BY <3>2
      <3>4. stage[id] \in W!Drawable
        <4>1. Stage(id) \in Passed
          BY <2>3, <2>4, <2>9 DEF Permitted
        <4>2. StateOf(id) = Stage(id)
          BY StateIsStage DEF IInv
        <4>. QED
          BY <4>1, <4>2 DEF W!Drawable, Passed, Executed, Evidenced, Disputable
      <3>5. W!DrawOnChain(id, amount)
        BY <1>1, <3>3, <3>4 DEF W!DrawOnChain
      <3>. QED  BY <3>5 DEF W!WitnessedNext
    <2>10. CASE e.payload.name = "ActionRecorded"
      <3>1. W!Happens(id, "recorded")
        BY <2>8, <2>10 DEF Tells
      <3>. QED  BY <3>1 DEF W!Record, W!WitnessedNext
    <2>11. CASE e.payload.name = "ClaimSubmitted"
      <3>1. W!Happens(id, "claimed")
        BY <2>8, <2>11 DEF Tells
      <3>2. "recorded" \in chain[id]
        BY <2>3, <2>4, <2>11 DEF Permitted, Cause, ChainFacts
      <3>. QED  BY <3>1, <3>2 DEF W!Claim, W!WitnessedNext
    <2>12. CASE e.payload.name \in {"ClaimResolved", "ArbiterRuled"}
      <3>1. PICK ruling \in {"paid", "unpaid"} :
              ruling = IF e.paid THEN "paid" ELSE "unpaid"
        OBVIOUS
      <3>2. W!Happens(id, ruling)
        BY <2>8, <2>12, <3>1 DEF Tells
      <3>3. "claimed" \in chain[id]
        BY <2>3, <2>4, <2>12 DEF Permitted, Cause, ChainFacts
      <3>. QED  BY <3>2, <3>3 DEF W!Rule, W!WitnessedNext
    <2>13. CASE e.payload.name \in OtherNames
      <3>1. \A j \in JobIds :
              DrawnAmounts(j)' = DrawnAmounts(j) /\ ChainFacts(j)' = ChainFacts(j)
        BY <2>7, <2>13, OtherNamesAssumption DEF Tells, TellsDraw
      <3>2. drawn' = drawn /\ chain' = chain
        BY <3>1
      <3>. QED  BY <1>1, <3>2 DEF W!allVars
    <2>. QED  BY <2>4, <2>9, <2>10, <2>11, <2>12, <2>13, PayloadFields
  <1>. QED  BY <1>2, <1>3

\* The log's steps, each with its witness.
LEMMA WitnessedAppend ==
  ASSUME IInv, StageWasDelivered, Shapes', NEW event \in ArsEvent,
         Store!AppendEvent(event), ledger' = ledger,
         event.type = "PrincipalReleased" =>
           event.amountAtomic \in DrawnAmounts(event.jobId),
         event.type = "EvidenceSubmitted" => "recorded" \in ChainFacts(event.jobId),
         event.type = "Disputed" => "claimed" \in ChainFacts(event.jobId),
         event.type = "Closed" =>
           /\ event.resolution \in DOMAIN W!Witness
           /\ \/ event.resolution = "no_dispute"
              \/ W!Witness[event.resolution] \in ChainFacts(event.jobId)
  PROVE  W!WitnessedNext
PROOF
  <1>. DEFINE stage == [j \in JobIds |-> StateOf(j)]
              released == [j \in JobIds |-> Released(j)]
              drawn == [j \in JobIds |-> DrawnAmounts(j)]
              chain == [j \in JobIds |-> ChainFacts(j)]
              outcome == [j \in JobIds |-> Resolution(j)]
              id == event.jobId
  <1>1. /\ id \in JobIds
        /\ stage[id] = Stage(id) /\ released[id] = Released(id)
        /\ drawn[id] = DrawnAmounts(id) /\ chain[id] = ChainFacts(id)
        /\ outcome[id] = Resolution(id) /\ Released(id) \in Nat
    BY EventTypes, StateIsStage, CurrentJob DEF IInv
  <1>2. IF logs[id] = <<>>
        THEN event.type = "JobOpened" /\ stage[id] = "NONE"
        ELSE event.type # "JobOpened" /\ stage[id] \in AllowedIn[event.type]
    BY <1>1, Appended DEF IInv, Stage
  <1>3. /\ stage' = [stage EXCEPT ![id] = StateAfter(event)]
        /\ released' = [released EXCEPT ![id] = released[id] + AmountOf(event)]
        /\ outcome' = [outcome EXCEPT ![id] = IF event.type = "Closed"
                                             THEN event.resolution ELSE outcome[id]]
    BY <1>1, AppendMoves DEF MovedTo
  <1>4. drawn' = drawn /\ chain' = chain
    BY DEF DrawnAmounts, ChainFacts, VerdictEntries, Entries
  <1>5. /\ event.type # "PrincipalReleased" => released' = released
        /\ event.type # "Closed" => outcome' = outcome
    <2>1. event.type # "PrincipalReleased" => released[id] + AmountOf(event) = released[id]
      <3>. HIDE DEF released
      <3>. QED  BY <1>1 DEF AmountOf
    <2>2. released = [released EXCEPT ![id] = released[id]]
      OBVIOUS
    <2>3. outcome = [outcome EXCEPT ![id] = outcome[id]]
      OBVIOUS
    <2>. HIDE DEF released, outcome
    <2>. QED  BY <1>3, <2>1, <2>2, <2>3
  <1>6. event.type = "Closed" => "recorded" \in chain[id]
    <2>. SUFFICES ASSUME event.type = "Closed" PROVE "recorded" \in chain[id]
      OBVIOUS
    <2>1. Stage(id) \in Evidenced
      BY <1>1, <1>2 DEF AllowedIn, CloseStates, Evidenced, Disputable
    <2>2. PICK n : n \in Entries(id, "ActionRecorded")
      BY <1>1, <2>1 DEF StageWasDelivered, WasDelivered
    <2>. QED  BY <1>1, <2>2 DEF ChainFacts
  <1>7. UNCHANGED W!chainVars
    BY <1>4 DEF W!chainVars
  <1>8. CASE event.type = "JobOpened"
    <2>1. W!Open(id)
      BY <1>2, <1>3, <1>5, <1>8 DEF W!Open, W!Move, StateAfter
    <2>. QED  BY <1>1, <1>5, <1>7, <1>8, <2>1 DEF W!Underwrite, W!WitnessedNext
  <1>9. CASE event.type = "UnderwritingStarted"
    <2>1. W!Review(id)
      BY <1>2, <1>3, <1>5, <1>9 DEF W!Review, W!Move, StateAfter, Target, AllowedIn
    <2>. QED  BY <1>1, <1>5, <1>7, <1>9, <2>1 DEF W!Underwrite, W!WitnessedNext
  <1>10. CASE event.type = "UnderwritingDecided"
    <2>1. StateAfter(event) \in {"RELEASABLE", "REJECTED"}
      BY <1>10 DEF StateAfter, Target
    <2>2. W!Move(id, {"UNDERWRITING"}, StateAfter(event))
      BY <1>2, <1>3, <1>10 DEF W!Move, AllowedIn
    <2>3. W!Decide(id)
      BY <1>5, <1>10, <2>1, <2>2, Zenon DEF W!Decide
    <2>. QED  BY <1>1, <1>5, <1>7, <1>10, <2>3 DEF W!Underwrite, W!WitnessedNext
  <1>11. CASE event.type = "PrincipalReleased"
    <2>1. W!Move(id, {"RELEASABLE", "EXECUTING"}, "EXECUTING")
      BY <1>2, <1>3, <1>11 DEF W!Move, StateAfter, Target, AllowedIn, DrawStates
    <2>2. \E amount \in drawn[id] :
            released' = [released EXCEPT ![id] = released[id] + amount]
      BY <1>1, <1>3, <1>11 DEF AmountOf
    <2>3. W!ReleaseDrawn(id)
      BY <1>5, <1>7, <1>11, <2>1, <2>2 DEF W!ReleaseDrawn
    <2>. QED  BY <1>1, <2>3 DEF W!WitnessedNext
  <1>12. CASE event.type = "EvidenceSubmitted"
    <2>1. W!Submit(id)
      BY <1>2, <1>3, <1>5, <1>12 DEF W!Submit, W!Move, StateAfter, Target, AllowedIn
    <2>. QED  BY <1>1, <1>5, <1>7, <1>12, <2>1 DEF W!SubmitRecorded, W!WitnessedNext
  <1>13. CASE event.type = "Disputed"
    <2>1. W!Dispute(id)
      BY <1>2, <1>3, <1>5, <1>13 DEF W!Dispute, W!Move, StateAfter, Target, AllowedIn
    <2>. QED  BY <1>1, <1>5, <1>7, <1>13, <2>1 DEF W!DisputeClaimed, W!WitnessedNext
  <1>14. CASE event.type = "Closed"
    <2>1. W!Close(id)
      BY <1>2, <1>3, <1>5, <1>14
         DEF W!Close, W!Move, StateAfter, Target, AllowedIn, CloseStates
    <2>2. W!Witness[event.resolution] \in chain[id]
      BY <1>1, <1>6, <1>14 DEF W!Witness
    <2>3. W!CloseOn(id, event.resolution)
      BY <1>3, <1>7, <1>14, <2>1, <2>2 DEF W!CloseOn
    <2>. QED  BY <1>1, <1>14, <2>3 DEF W!WitnessedNext
  <1>. QED
    BY <1>8, <1>9, <1>10, <1>11, <1>12, <1>13, <1>14, EventTypes DEF ArsEventTypes

\* However the indexer loses, repeats or reorders deliveries and misses job
\* ids, every step of the pipeline is one move of one job's lifecycle with its
\* witness on chain, one fact the chain was ready for, or neither.
THEOREM SpecImplementsWitnessed == Spec => ImplementsWitnessed
PROOF
  <1>1. Init => W!WitnessedInit
    <2>. SUFFICES ASSUME Init PROVE W!WitnessedInit
      OBVIOUS
    <2>1. \A j \in JobIds : logs[j] = <<>>
      BY DEF Init, Store!Init
    <2>2. ASSUME NEW j \in JobIds
          PROVE  StateOf(j) = "NONE" /\ Released(j) = 0 /\ Resolution(j) = "open"
      BY <2>1, StoreCurrent
         DEF StateOf, Store!StageOf, Released, Store!ReleasedOf, Resolution
    <2>3. ASSUME NEW j \in JobIds PROVE DrawnAmounts(j) = {} /\ ChainFacts(j) = {}
      <3>1. 1 .. Len(ledger) = {}
        BY DEF Init
      <3>. QED  BY <3>1 DEF DrawnAmounts, ChainFacts, VerdictEntries, Entries
    <2>. QED  BY <2>2, <2>3 DEF W!WitnessedInit, W!Init
  <1>2. IInv /\ IInv' /\ StageWasDelivered /\ [Next]_vars =>
          [W!WitnessedNext]_(W!allVars)
    <2>. SUFFICES ASSUME IInv, Shapes', StageWasDelivered, [Next]_vars
                  PROVE  W!WitnessedNext \/ UNCHANGED W!allVars
      BY DEF IInv
    <2>1. ASSUME NEW entries \in Seq(LedgerEntry), Emits(entries)
          PROVE  W!WitnessedNext \/ UNCHANGED W!allVars
      BY <2>1, EmissionMoves
    <2>2. ASSUME NEW n \in 1 .. Len(ledger), NEW event \in ArsEvent, Lands(n, event)
          PROVE  W!WitnessedNext
      <3>1. /\ Brought(n, event) /\ Store!AppendEvent(event) /\ ledger' = ledger
            /\ ledger[n].jobId = event.jobId
        BY <2>2 DEF Lands, Counts, Brought
      <3>2. /\ event.type = "PrincipalReleased" =>
                 TellsDraw(ledger[n], event.amountAtomic)
            /\ event.type = "EvidenceSubmitted" => Tells(ledger[n], "recorded")
            /\ event.type = "Disputed" => Tells(ledger[n], "claimed")
            /\ event.type = "Closed" =>
                 /\ event.resolution \in DOMAIN W!Witness
                 /\ Tells(ledger[n], W!Witness[event.resolution])
        BY <3>1 DEF Brought, Tells, TellsDraw, Verdicts, W!Witness
      <3>3. \A x : /\ Tells(ledger[n], x) => x \in ChainFacts(event.jobId)
                   /\ TellsDraw(ledger[n], x) => x \in DrawnAmounts(event.jobId)
        BY <3>1, ToldFacts
      <3>. QED  BY <3>1, <3>2, <3>3, WitnessedAppend
    <2>3. ASSUME NEW event \in ArsEvent, OffChain(event) PROVE W!WitnessedNext
      <3>1. /\ Store!AppendEvent(event) /\ ledger' = ledger
            /\ event.type \in {"JobOpened", "UnderwritingStarted",
                               "UnderwritingDecided", "Closed"}
            /\ event.type = "Closed" => event.resolution = "no_dispute"
        BY <2>3 DEF OffChain, chainVars
      <3>. QED  BY <3>1, WitnessedAppend DEF W!Witness
    <2>4. ASSUME logs' = logs, ledger' = ledger PROVE UNCHANGED W!allVars
      BY <2>4
         DEF W!allVars, W!vars, StateOf, Released, Store!Current, Resolution,
             DrawnAmounts, ChainFacts, VerdictEntries, Entries
    <2>. QED
      BY <2>1, <2>2, <2>3, <2>4, NextCases
         DEF Skips, Bounces, Looks, Counts, chainVars, vars
  <1>. QED
    BY <1>1, <1>2, SpecIInv, SpecStageWasDelivered, PTL
       DEF Spec, ImplementsWitnessed, W!WitnessedSpec
=============================================================================
