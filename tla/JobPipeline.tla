---------------------------- MODULE JobPipeline ----------------------------
(***************************************************************************)
(* A job from opening to close, across the parts that touch it:            *)
(*                                                                         *)
(*   settlement layer --append--> event store <--append-- indexer          *)
(*        |    ^                                              ^            *)
(*        |    +-- job() -- event store                       | toArsEvent *)
(*        +-- releasePrincipal --> telaro program --events----+            *)
(*                                                                         *)
(* The store (src/store.ts), the state machine (src/state.ts) and          *)
(* toArsEvent (src/ingest.ts) are the code.  The program, the indexer and  *)
(* the settlement layer that drives a job are outside src/ and are         *)
(* modelled from what the code says of them: who produces which event      *)
(* (ingest.ts, lines 4-8), which payloads carry a job id (lines 10-15),    *)
(* what a status and a ruling mean (lines 38-47, 94-96).                   *)
(***************************************************************************)
EXTENDS Ingest, FiniteSets, Functions

CONSTANTS InOrder,        \* the indexer delivers in ledger order
          MaxDeliveries,  \* how often one ledger entry may be delivered
          MayMissJobId,   \* the indexer may fail to resolve a job id
          MayActEarly,    \* the agent may act before it drew its principal
          MaxDraws,       \* bound on the draws of one job
          MaxLog          \* bound on a stored log, never reached here

ASSUME PolicyAssumption ==
  {InOrder, MayMissJobId, MayActEarly} \subseteq BOOLEAN /\ MaxDeliveries \in Nat

\* Events have a time, and the program's verdicts are among the status codes.
ASSUME DecodedAssumption == Times # {} /\ {1, 3, 4, 7} \subseteq ClaimStatuses

VARIABLES logs, seen,   \* the event store and what settlement read from it
          ledger,       \* events the program emitted, in order
          delivered,    \* delivered[n]: deliveries of ledger entry n so far
          refused,      \* ledger entries whose append threw
          expired       \* jobs whose dispute window has closed

vars == <<logs, seen, ledger, delivered, refused, expired>>
chainVars == <<ledger, delivered, refused>>

Store == INSTANCE EventStore WITH Readers <- {"settlement"}

Jobs == {Hex(hash) : hash \in ActionHashes}

Init ==
  /\ Store!Init
  /\ ledger = <<>> /\ delivered = <<>> /\ refused = {}
  /\ expired = {}

-----------------------------------------------------------------------------
(***************************************************************************)
(* The telaro program.  Each entry records, besides the payload, the job   *)
(* it concerns and whether the bond paid.                                  *)
(***************************************************************************)
Entries(j, name) ==
  {n \in 1 .. Len(ledger) : ledger[n].jobId = j /\ ledger[n].payload.name = name}
ClaimEntries(c, name) ==
  {n \in 1 .. Len(ledger) : ledger[n].payload.name = name /\ ledger[n].payload.claim = c}

Emit(entries) ==
  /\ ledger' = ledger \o entries
  /\ delivered' = delivered \o [n \in 1 .. Len(entries) |-> 0]
  /\ UNCHANGED refused

Entry(j, payload, paid) == [jobId |-> j, payload |-> payload, paid |-> paid]

\* request_credit, sent by the settlement layer for a job it last saw
\* releasable or executing.
Draw(j, amount) ==
  /\ seen["settlement"] # NoJob
  /\ seen["settlement"].jobId = j
  /\ seen["settlement"].state \in {"RELEASABLE", "EXECUTING"}
  /\ Cardinality(Entries(j, "CreditDrawn")) < MaxDraws
  /\ Emit(<<Entry(j, [name |-> "CreditDrawn", amount |-> amount], FALSE)>>)
  /\ UNCHANGED <<logs, seen, expired>>

\* record_action, once per action hash.  Nothing says that the agent drew its
\* principal by then; where entries arrive in any order, the order of the two
\* makes no difference to a log, and a run may leave it out.
RecordAction(hash, outcome) ==
  /\ MayActEarly \/ Entries(Hex(hash), "CreditDrawn") # {}
  /\ Entries(Hex(hash), "ActionRecorded") = {}
  /\ Emit(<<Entry(Hex(hash), [name |-> "ActionRecorded", actionHash |-> hash,
                              outcome |-> outcome], FALSE)>>)
  /\ UNCHANGED <<logs, seen, expired>>

\* submit_claim, against a recorded action, while its dispute window is open.
SubmitClaim(j, c) ==
  /\ Entries(j, "ActionRecorded") # {} /\ j \notin expired
  /\ ClaimEntries(c, "ClaimSubmitted") = {}
  /\ Emit(<<Entry(j, [name |-> "ClaimSubmitted", claim |-> c], FALSE)>>)
  /\ UNCHANGED <<logs, seen, expired>>

Open(j, c) ==
  /\ ClaimEntries(c, "ClaimSubmitted") \cap Entries(j, "ClaimSubmitted") # {}
  /\ ClaimEntries(c, "ClaimResolved") = {}

Resolved(j, c, status, paid) ==
  Entry(j, [name |-> "ClaimResolved", claim |-> c, status |-> status], paid)

\* resolve_claim: the builder accepts and the bond pays, or rejects.
ResolveClaim(j, c, accept) ==
  /\ Open(j, c)
  /\ Emit(<<Resolved(j, c, IF accept THEN 1 ELSE 3, accept)>>)
  /\ UNCHANGED <<logs, seen, expired>>

\* arbiter_resolve / arbiter_timeout: a ruling and the resolution it implies.
\* 4 stands for every status that is neither 3 nor 7.
Arbitrate(j, c, ruling) ==
  /\ Open(j, c)
  /\ LET forUser == ruling # 1
         ruled == Entry(j, [name |-> "ArbiterRuled", claim |-> c, ruling |-> ruling], forUser)
         resolved == Resolved(j, c, IF forUser THEN 4 ELSE 7, forUser)
     IN  Emit(<<ruled, resolved>>) \/ Emit(<<resolved, ruled>>)
  /\ UNCHANGED <<logs, seen, expired>>

Program ==
  \E hash \in ActionHashes :
    \/ \E amount \in Amounts : Draw(Hex(hash), amount)
    \/ \E outcome \in Outcomes : RecordAction(hash, outcome)
    \/ \E c \in Claims :
         \/ SubmitClaim(Hex(hash), c)
         \/ \E accept \in BOOLEAN : ResolveClaim(Hex(hash), c, accept)
         \/ \E ruling \in Rulings : Arbitrate(Hex(hash), c, ruling)

-----------------------------------------------------------------------------
(***************************************************************************)
(* The indexer: toArsEvent, then append.                                   *)
(***************************************************************************)
Deliverable(n) ==
  /\ delivered[n] < MaxDeliveries
  /\ InOrder => \A m \in 1 .. n - 1 : delivered[m] > 0

\* What the caller hands in as ctx.jobId: the job, if it could resolve it.
ResolvedIds(n) ==
  IF MayMissJobId THEN {ledger[n].jobId, NoId} ELSE {ledger[n].jobId}

Ingested(n, id) ==
  ToArsEvent(ledger[n].payload, [at |-> CHOOSE at \in Times : TRUE, jobId |-> id])

Deliver(n) ==
  /\ Deliverable(n)
  /\ delivered' = [delivered EXCEPT ![n] = @ + 1]
  /\ \E id \in ResolvedIds(n) :
       LET event == Ingested(n, id)
       IN  \/ event = NoEvent /\ UNCHANGED <<logs, seen, refused>>
           \/ event # NoEvent /\ Store!AppendEvent(event) /\ UNCHANGED refused
           \/ event # NoEvent /\ Store!RejectEvent(event) /\ refused' = refused \cup {n}
  /\ UNCHANGED <<ledger, expired>>

Indexer == \E n \in 1 .. Len(ledger) : Deliver(n)

-----------------------------------------------------------------------------
(***************************************************************************)
(* The settlement layer: the off-chain half of the log, and the clean      *)
(* close once the dispute window has expired.                              *)
(***************************************************************************)
Underwrite(event) ==
  /\ event.jobId \in Jobs
  /\ Store!AppendEvent(event)
  /\ UNCHANGED <<chainVars, expired>>

ReadJob(j) ==
  /\ Store!ReadJob("settlement", j)
  /\ UNCHANGED <<chainVars, expired>>

\* The window of a recorded action closes; settlement will look again.
ExpireWindow(j) ==
  /\ Entries(j, "ActionRecorded") # {} /\ j \notin expired
  /\ expired' = expired \cup {j}
  /\ seen' = [seen EXCEPT !["settlement"] = NoJob]
  /\ UNCHANGED <<logs, chainVars>>

\* The job it then read had evidence and no dispute.
CloseClean(j) ==
  /\ j \in expired
  /\ seen["settlement"] # NoJob
  /\ seen["settlement"].jobId = j
  /\ seen["settlement"].state = "EVIDENCE_SUBMITTED"
  /\ \E event \in Closed :
       /\ event.jobId = j /\ event.resolution = "no_dispute"
       /\ Store!AppendEvent(event)
  /\ UNCHANGED <<chainVars, expired>>

Settlement ==
  \/ \E event \in JobOpened \cup UnderwritingStarted \cup UnderwritingDecided :
       Underwrite(event)
  \/ \E j \in Jobs : ReadJob(j) \/ ExpireWindow(j) \/ CloseClean(j)

Next == Program \/ Indexer \/ Settlement
Spec == Init /\ [][Next]_vars

\* The indexer keeps up with the ledger; nothing else need ever happen.
FairSpec == Spec /\ WF_vars(Indexer)

-----------------------------------------------------------------------------
(***************************************************************************)
(* Properties                                                              *)
(***************************************************************************)
Logged(j, type) == {n \in 1 .. Len(logs[j]) : logs[j][n].type = type}
ClosedAs(j, resolutions) ==
  {n \in Logged(j, "Closed") : logs[j][n].resolution \in resolutions}
Verdicts == {"dispute_upheld", "dispute_rejected"}
VerdictEntries(j) == Entries(j, "ClaimResolved") \cup Entries(j, "ArbiterRuled")

Drawn(entries) == SumFunction([n \in entries |-> ledger[n].payload.amount])

Released(j) == Store!ReleasedOf(Store!Current(j))

\* Every variable keeps its shape.
TypeOK ==
  /\ Store!TypeOK
  /\ \A n \in 1 .. Len(ledger) :
       /\ ledger[n].payload \in Payload /\ ledger[n].jobId \in Jobs
       /\ ledger[n].paid \in BOOLEAN /\ delivered[n] \in 0 .. MaxDeliveries
  /\ Len(delivered) = Len(ledger)
  /\ refused \subseteq 1 .. Len(ledger)
  /\ expired \subseteq Jobs

\* Evidence in a log is of an action the program recorded, and says of it what
\* the program did: success of a success, failed of every other outcome.  With
\* several jobs, which only the theorem has, it is the job's own action.
EvidenceIsOnChain ==
  \A j \in Jobs : \A n \in Logged(j, "EvidenceSubmitted") :
    \E m \in Entries(j, "ActionRecorded") :
      (ledger[m].payload.outcome = 0) <=> (logs[j][n].outcome = "success")

\* A job closed on a verdict has such a verdict on chain: upheld only if the
\* bond paid a claim of this job, rejected only if some claim went unpaid.
ClosedOnARealVerdict ==
  \A j \in Jobs : \A n \in ClosedAs(j, Verdicts) :
    \E m \in VerdictEntries(j) :
      ledger[m].paid <=> (logs[j][n].resolution = "dispute_upheld")

\* A job reports at most the principal the program drew for it, each draw
\* counted as often as it was delivered: exactly once, if the indexer is.
ReleasedWithinDeliveries ==
  \A j \in Jobs :
    Released(j) <=
      SumFunction([n \in Entries(j, "CreditDrawn") |->
                     delivered[n] * ledger[n].payload.amount])

\* With ordered delivery a draw is left out of a job only when it is late:
\* the program emitted it after the job's action was recorded.  Settlement
\* acts on old reads, yet no draw overtakes the verdict that allowed it.
RefusedDrawsAreLate ==
  \A j \in Jobs : \A n \in refused \cap Entries(j, "CreditDrawn") :
    \E m \in Entries(j, "ActionRecorded") : m < n

\* With ordered delivery every other draw that was delivered is counted.
DeliveredDrawsAreCounted ==
  \A j \in Jobs :
    Released(j) =
      Drawn({n \in Entries(j, "CreditDrawn") \ refused : delivered[n] > 0})

\* The job's action was recorded when its principal was drawn: a log takes
\* the evidence only of a job that is EXECUTING.
Timely(j) ==
  \E n \in Entries(j, "ActionRecorded") : \E m \in Entries(j, "CreditDrawn") : m < n

\* The earliest of some ledger entries.
IsFirst(n, entries) == n \in entries /\ \A m \in entries : n <= m

\* With ordered delivery the log of a job closed on a verdict tells how its
\* dispute went on chain: it holds the first claim that was submitted, then
\* the first verdict that was given.  They may be of different claims: a log
\* takes one dispute, and Closed names none.
VerdictFollowsDispute ==
  \A j \in Jobs : \A n \in ClosedAs(j, Verdicts) : Timely(j) =>
    /\ \E m \in Logged(j, "Disputed"), c \in Entries(j, "ClaimSubmitted") :
         /\ m < n /\ IsFirst(c, Entries(j, "ClaimSubmitted"))
         /\ logs[j][m].claim = ledger[c].payload.claim
    /\ \E v \in VerdictEntries(j) :
         /\ IsFirst(v, VerdictEntries(j))
         /\ ledger[v].paid <=> (logs[j][n].resolution = "dispute_upheld")

\* The job's state is what was delivered of the ledger, and settlement's clean
\* close: with ordered delivery no entry of a job leaves its log behind, as
\* long as its action was recorded after a draw.  One that was not, is lost
\* for good if it is delivered once, and all that is claimed and ruled of it.
\* The liveness below is this, and that everything is delivered in the end.
WasDelivered(j, name) == \E n \in Entries(j, name) : delivered[n] > 0
StateOf(j) == Store!StageOf(Store!Current(j))

Disputable == {"DISPUTED", "CLOSED"}
Evidenced == {"EVIDENCE_SUBMITTED"} \cup Disputable
Executed == {"EXECUTING"} \cup Evidenced

StateIsDelivered ==
  \A j \in Jobs :
    LET clean == ClosedAs(j, {"no_dispute"}) # {}
        ruled == WasDelivered(j, "ClaimResolved") \/ WasDelivered(j, "ArbiterRuled")
    IN  /\ StateOf(j) \in Executed <=> WasDelivered(j, "CreditDrawn")
        /\ Timely(j) =>
             /\ StateOf(j) \in Evidenced <=> WasDelivered(j, "ActionRecorded")
             /\ StateOf(j) \in Disputable <=> WasDelivered(j, "ClaimSubmitted") \/ clean
             /\ StateOf(j) = "CLOSED" <=> ruled \/ clean
        /\ MaxDeliveries = 1 /\ StateOf(j) \in Evidenced => Timely(j)

\* events.ts, line 77, of "no_dispute": the dispute window expired clean.
CleanCloseUndisputed ==
  \A j \in Jobs : ClosedAs(j, {"no_dispute"}) # {} => Logged(j, "Disputed") = {}

\* A job that has a verdict on chain, and drew before it acted, reaches a
\* terminal outcome, as long as the indexer keeps delivering in order: neither
\* a second claim, nor the second event of one ruling, nor a clean close
\* racing it can leave the job open.
VerdictClosesJob ==
  \A j \in Jobs :
    VerdictEntries(j) # {} /\ Timely(j) ~> Logged(j, "Closed") # {}

\* An action recorded after a draw ends up as evidence in the job's log.
ActionBecomesEvidence ==
  \A j \in Jobs : Timely(j) ~> Logged(j, "EvidenceSubmitted") # {}

\* The abstract job.  A log's last event is the one that closed it, if any.
Resolution(j) ==
  LET log == logs[j]
  IN  IF log # <<>> /\ log[Len(log)].type = "Closed" THEN log[Len(log)].resolution
      ELSE "open"

DrawnAmounts(j) == {ledger[n].payload.amount : n \in Entries(j, "CreditDrawn")}
ChainFacts(j) ==
  {"recorded" : n \in Entries(j, "ActionRecorded")}
    \cup {"claimed" : n \in Entries(j, "ClaimSubmitted")}
    \cup {IF ledger[n].paid THEN "paid" ELSE "unpaid" : n \in VerdictEntries(j)}

W == INSTANCE WitnessedLifecycle WITH
       stage <- [j \in JobIds |-> StateOf(j)],
       released <- [j \in JobIds |-> Released(j)],
       drawn <- [j \in JobIds |-> DrawnAmounts(j)],
       chain <- [j \in JobIds |-> ChainFacts(j)],
       outcome <- [j \in JobIds |-> Resolution(j)]

\* However the indexer loses, repeats or reorders, the pipeline implements the
\* witnessed lifecycle: every step is one move of one job, with its witness on
\* chain, or one new fact on chain, or none of them.
ImplementsWitnessed == W!WitnessedSpec
=============================================================================
