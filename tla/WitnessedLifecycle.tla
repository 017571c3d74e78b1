------------------------- MODULE WitnessedLifecycle -------------------------
(***************************************************************************)
(* What the pipeline promises of each job, with no log, no ledger and no   *)
(* indexer in sight: the lifecycle, in which every move past underwriting  *)
(* has a witness on chain, and in which the chain itself only moves on     *)
(* what it was shown before.                                               *)
(***************************************************************************)
EXTENDS Lifecycle

VARIABLES drawn,    \* drawn[j]: the amounts of the draws of j on chain
          chain,    \* chain[j]: what else the chain knows of j
          outcome   \* outcome[j]: the resolution j was closed with, or "open"

chainVars == <<drawn, chain>>
allVars == <<vars, drawn, chain, outcome>>

WitnessedInit ==
  /\ Init
  /\ drawn = [j \in JobIds |-> {}]
  /\ chain = [j \in JobIds |-> {}]
  /\ outcome = [j \in JobIds |-> "open"]

-----------------------------------------------------------------------------
\* The chain.  A fact may be witnessed again, never taken back.
Drawable == {"RELEASABLE", "EXECUTING", "EVIDENCE_SUBMITTED", "DISPUTED", "CLOSED"}

DrawOnChain(j, amount) ==
  /\ stage[j] \in Drawable
  /\ drawn' = [drawn EXCEPT ![j] = @ \cup {amount}]
  /\ UNCHANGED <<vars, chain, outcome>>

Happens(j, fact) ==
  /\ chain' = [chain EXCEPT ![j] = @ \cup {fact}]
  /\ UNCHANGED <<vars, drawn, outcome>>

Record(j) == Happens(j, "recorded")
Claim(j) == "recorded" \in chain[j] /\ Happens(j, "claimed")
Rule(j) == "claimed" \in chain[j] /\ \E ruling \in {"paid", "unpaid"} : Happens(j, ruling)

\* The log.
Underwrite(j) == (Open(j) \/ Review(j) \/ Decide(j)) /\ UNCHANGED <<chainVars, outcome>>

ReleaseDrawn(j) ==
  /\ Move(j, {"RELEASABLE", "EXECUTING"}, "EXECUTING")
  /\ \E amount \in drawn[j] : released' = [released EXCEPT ![j] = @ + amount]
  /\ UNCHANGED <<chainVars, outcome>>

SubmitRecorded(j) ==
  "recorded" \in chain[j] /\ Submit(j) /\ UNCHANGED <<chainVars, outcome>>

DisputeClaimed(j) ==
  "claimed" \in chain[j] /\ Dispute(j) /\ UNCHANGED <<chainVars, outcome>>

Witness == [dispute_upheld |-> "paid", dispute_rejected |-> "unpaid",
            no_dispute |-> "recorded"]

CloseOn(j, resolution) ==
  /\ Witness[resolution] \in chain[j]
  /\ Close(j)
  /\ outcome' = [outcome EXCEPT ![j] = resolution]
  /\ UNCHANGED chainVars

WitnessedNext ==
  \E j \in JobIds :
    \/ \E amount \in Amounts : DrawOnChain(j, amount)
    \/ Record(j) \/ Claim(j) \/ Rule(j)
    \/ Underwrite(j) \/ ReleaseDrawn(j) \/ SubmitRecorded(j) \/ DisputeClaimed(j)
    \/ \E resolution \in DOMAIN Witness : CloseOn(j, resolution)

WitnessedSpec == WitnessedInit /\ [][WitnessedNext]_allVars
=============================================================================
