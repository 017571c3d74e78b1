------------------------------- MODULE Ingest -------------------------------
(***************************************************************************)
(* toArsEvent of src/ingest.ts: one decoded event of the telaro program,   *)
(* and what the caller knows about it (ctx), to an ARS event or to null.   *)
(***************************************************************************)
EXTENDS ArsState

CONSTANTS ActionHashes,   \* the 32-byte action hashes of recorded actions
          Outcomes,       \* action outcomes: 0 success, 1 failed, 2 disputed
          ClaimStatuses,  \* the ClaimStatus codes a ClaimResolved may carry
          Rulings,        \* 0 ForUser, 1 ForBuilder, 2 ForUserTimeout
          OtherNames,     \* telaro events the switch does not name
          NoId,           \* ctx.jobId is undefined (or empty)
          NoEvent         \* null: nothing to append

\* hex(bytes): a job id is the text of an action hash, not the hash.
Hex(hash) == <<"hex", hash>>

ASSUME HexAssumption == \A hash \in ActionHashes : Hex(hash) \in JobIds
ASSUME NullAssumption == NoId \notin JobIds /\ NoEvent \notin ArsEvent

ASSUME OtherNamesAssumption ==
  OtherNames \cap {"ActionRecorded", "ClaimSubmitted", "ClaimResolved",
                   "ArbiterRuled", "CreditDrawn"} = {}

\* DecodedEventPayload of the telaro SDK: the fields toArsEvent reads.
Payload ==
  [name : {"ActionRecorded"}, actionHash : ActionHashes, outcome : Outcomes]
    \cup [name : {"ClaimSubmitted"}, claim : Claims]
    \cup [name : {"ClaimResolved"}, claim : Claims, status : ClaimStatuses]
    \cup [name : {"ArbiterRuled"}, claim : Claims, ruling : Rulings]
    \cup [name : {"CreditDrawn"}, amount : Amounts]
    \cup [name : OtherNames]

\* IngestContext: block time and, for some events, the job id.
Context == [at : Times, jobId : JobIds \cup {NoId}]

\* Status codes: 1 AcceptedByBuilder, 3 RejectedByBuilder, 7 ruled for the builder.
StatusTextOnly(status) == "claim_resolved"
ArbiterClearanceMissed(status) ==
  IF status = 3 THEN "dispute_rejected" ELSE "dispute_upheld"
\* Builder-reject (3) and arbiter-for-builder (7) clear the agent.
ClaimStatusResolution(status) ==
  IF status \in {3, 7} THEN "dispute_rejected" ELSE "dispute_upheld"

\* Only a ruling for the builder clears the agent.
RulingResolution(ruling) ==
  IF ruling = 1 THEN "dispute_rejected" ELSE "dispute_upheld"

\* The one event whose payload carries the job id.
OutcomeInverted(payload, ctx) ==
  [type |-> "EvidenceSubmitted", jobId |-> Hex(payload.actionHash), at |-> ctx.at,
   outcome |-> IF payload.outcome = 1 THEN "success" ELSE "failed"]
FromAction(payload, ctx) ==
  [type |-> "EvidenceSubmitted", jobId |-> Hex(payload.actionHash), at |-> ctx.at,
   outcome |-> IF payload.outcome = 0 THEN "success" ELSE "failed"]

\* The events whose job id the caller resolved.
FromClaimOrCredit(payload, ctx) ==
  CASE payload.name = "ClaimSubmitted" ->
         [type |-> "Disputed", jobId |-> ctx.jobId, at |-> ctx.at,
          claim |-> payload.claim]
    [] payload.name = "ClaimResolved" ->
         [type |-> "Closed", jobId |-> ctx.jobId, at |-> ctx.at,
          resolution |-> ClaimStatusResolution(payload.status)]
    [] payload.name = "ArbiterRuled" ->
         [type |-> "Closed", jobId |-> ctx.jobId, at |-> ctx.at,
          resolution |-> RulingResolution(payload.ruling)]
    [] payload.name = "CreditDrawn" ->
         [type |-> "PrincipalReleased", jobId |-> ctx.jobId, at |-> ctx.at,
          amountAtomic |-> payload.amount]

\* A claim only settled, and a recorded action only if it succeeded.
ClaimsUnmapped(payload, ctx) ==
  CASE payload.name = "ActionRecorded" -> FromAction(payload, ctx)
    [] payload.name \in {"ClaimResolved", "ArbiterRuled", "CreditDrawn"} ->
         IF ctx.jobId = NoId THEN NoEvent ELSE FromClaimOrCredit(payload, ctx)
    [] OTHER -> NoEvent
SuccessesOnly(payload, ctx) ==
  CASE payload.name = "ActionRecorded" ->
         IF payload.outcome = 0 THEN FromAction(payload, ctx) ELSE NoEvent
    [] payload.name \in {"ClaimSubmitted", "ClaimResolved", "ArbiterRuled",
                         "CreditDrawn"} ->
         IF ctx.jobId = NoId THEN NoEvent ELSE FromClaimOrCredit(payload, ctx)
    [] OTHER -> NoEvent

ToArsEvent(payload, ctx) ==
  CASE payload.name = "ActionRecorded" -> FromAction(payload, ctx)
    [] payload.name \in {"ClaimSubmitted", "ClaimResolved", "ArbiterRuled",
                         "CreditDrawn"} ->
         IF ctx.jobId = NoId THEN NoEvent ELSE FromClaimOrCredit(payload, ctx)
    [] OTHER -> NoEvent
=============================================================================
