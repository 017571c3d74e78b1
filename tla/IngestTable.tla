---------------------------- MODULE IngestTable ----------------------------
(***************************************************************************)
(* toArsEvent called with every payload and every context an indexer may   *)
(* hand it, against the event table of SPEC.md, section 4.                 *)
(***************************************************************************)
EXTENDS Ingest

VARIABLES payload, ctx

Init == payload \in Payload /\ ctx \in Context
Next == payload' \in Payload /\ ctx' \in Context
Spec == Init /\ [][Next]_<<payload, ctx>>

\* The Anchor events SPEC.md, lines 148-160, pairs with a named ARS event.
SpecMapped ==
  {"ActionRecorded", "BondWithdrawn", "ClaimSubmitted", "ClaimResolved",
   "AgentFrozen", "CreditDrawn", "CreditRepaid"}

\* SPEC.md, lines 145-146: src/ingest.ts maps each to its ARS event type.
SpecTableIsMapped ==
  payload.name \in SpecMapped /\ ctx.jobId # NoId
    => ToArsEvent(payload, ctx) # NoEvent
=============================================================================
