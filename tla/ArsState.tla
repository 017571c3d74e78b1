------------------------------ MODULE ArsState ------------------------------
(***************************************************************************)
(* The principal-track state machine of src/state.ts over the events of    *)
(* src/events.ts, which events.py declares field by field alike:           *)
(* applyEvent takes a job and one event to the next job or throws, replay  *)
(* folds a whole log.                                                      *)
(*                                                                         *)
(* What the properties do not tell apart is abstracted: the agent, the     *)
(* requestor and the exposure, which every transition copies unchanged,    *)
(* are one value of Terms; failureCode and actionHash are left out.        *)
(* NoJob is the null (or undefined) job, Illegal a thrown error.           *)
(*                                                                         *)
(* Definitions such as DrawnOnceOnly, which nothing uses, are mistakes the *)
(* code might have made: each stands above the definition it gets wrong,   *)
(* and the properties are known to notice it in that definition's place.   *)
(***************************************************************************)
EXTENDS Integers, Sequences

CONSTANTS JobIds,        \* ARS job ids
          Terms,         \* (agent, requestor, exposureAtomic) of a job
          Amounts,       \* amounts of one principal draw, USDC atomic
          Times,         \* the `at` of an event
          Claims,        \* telaro Claim PDAs
          ForeignTypes,  \* event types outside the ArsEvent union
          NoJob,         \* null: no event was applied yet
          Illegal        \* ARSTransitionError was thrown

PrincipalStates ==
  {"AWAIT_UNDERWRITING", "UNDERWRITING", "REJECTED", "RELEASABLE",
   "EXECUTING", "EVIDENCE_SUBMITTED", "DISPUTED", "CLOSED"}

IsTerminal(state) == state \in {"REJECTED", "CLOSED"}

Job == [jobId : JobIds, terms : Terms, state : PrincipalStates,
        releasedAtomic : Nat, lastEventAt : Times]

Resolutions == {"no_dispute", "dispute_upheld", "dispute_rejected"}

(***************************************************************************)
(* The ArsEvent union.                                                     *)
(***************************************************************************)
Of(type) == [type : {type}, jobId : JobIds, at : Times]

JobOpened == [type : {"JobOpened"}, jobId : JobIds, at : Times, terms : Terms]
UnderwritingStarted == Of("UnderwritingStarted")
UnderwritingDecided ==
  [type : {"UnderwritingDecided"}, jobId : JobIds, at : Times, passed : BOOLEAN]
PrincipalReleased ==
  [type : {"PrincipalReleased"}, jobId : JobIds, at : Times, amountAtomic : Amounts]
EvidenceSubmitted ==
  [type : {"EvidenceSubmitted"}, jobId : JobIds, at : Times,
   outcome : {"success", "failed"}]
Disputed == [type : {"Disputed"}, jobId : JobIds, at : Times, claim : Claims]
Closed == [type : {"Closed"}, jobId : JobIds, at : Times, resolution : Resolutions]

ArsEvent ==
  JobOpened \cup UnderwritingStarted \cup UnderwritingDecided
    \cup PrincipalReleased \cup EvidenceSubmitted \cup Disputed \cup Closed

ArsEventTypes ==
  {"JobOpened", "UnderwritingStarted", "UnderwritingDecided",
   "PrincipalReleased", "EvidenceSubmitted", "Disputed", "Closed"}

\* Events the type checker would refuse but a log read back from JSON may hold.
ForeignEvent == [type : ForeignTypes, jobId : JobIds, at : Times]

ASSUME AmountsAssumption == Amounts \subseteq Nat
ASSUME NoJobAssumption == NoJob \notin Job /\ Illegal \notin Job /\ NoJob # Illegal
ASSUME ForeignAssumption == ForeignTypes \cap ArsEventTypes = {}

(***************************************************************************)
(* applyEvent                                                              *)
(***************************************************************************)
\* Principal can be drawn more than once, so EXECUTING takes a draw too.
DrawnOnceOnly == {"RELEASABLE"}
DrawnAfterEvidence == {"RELEASABLE", "EXECUTING", "EVIDENCE_SUBMITTED"}
DrawStates == {"RELEASABLE", "EXECUTING"}

\* A job closes on a verdict, or with no dispute at all.
ClosedCleanOnly == {"EVIDENCE_SUBMITTED"}
CloseStates == {"EVIDENCE_SUBMITTED", "DISPUTED"}

\* The states in which each event type is a legal transition.
AllowedIn ==
  [UnderwritingStarted |-> {"AWAIT_UNDERWRITING"},
   UnderwritingDecided |-> {"UNDERWRITING"},
   PrincipalReleased   |-> DrawStates,
   EvidenceSubmitted   |-> {"EXECUTING"},
   Disputed            |-> {"EVIDENCE_SUBMITTED"},
   Closed              |-> CloseStates]

\* The state a legal event leads to.
Target(event) ==
  CASE event.type = "UnderwritingStarted" -> "UNDERWRITING"
    [] event.type = "UnderwritingDecided" ->
         IF event.passed THEN "RELEASABLE" ELSE "REJECTED"
    [] event.type = "PrincipalReleased" -> "EXECUTING"
    [] event.type = "EvidenceSubmitted" -> "EVIDENCE_SUBMITTED"
    [] event.type = "Disputed" -> "DISPUTED"
    [] event.type = "Closed" -> "CLOSED"

AmountOf(event) ==
  IF event.type = "PrincipalReleased" THEN event.amountAtomic ELSE 0

\* releasedAtomic accumulates over the draws.
LastDrawOnly(job, event) ==
  IF event.type = "PrincipalReleased" THEN event.amountAtomic ELSE job.releasedAtomic
ReleasedWith(job, event) == job.releasedAtomic + AmountOf(event)

\* A job opens with nothing released.
OpenedUnset(event) ==
  [jobId |-> event.jobId, terms |-> event.terms, state |-> "AWAIT_UNDERWRITING",
   lastEventAt |-> event.at]
OpenedAsDrawn(event) ==
  [jobId |-> event.jobId, terms |-> event.terms, state |-> "AWAIT_UNDERWRITING",
   releasedAtomic |-> CHOOSE amount \in Amounts : TRUE, lastEventAt |-> event.at]
OpenedJob(event) ==
  [jobId |-> event.jobId, terms |-> event.terms, state |-> "AWAIT_UNDERWRITING",
   releasedAtomic |-> 0, lastEventAt |-> event.at]

\* The checks every event after the opening one meets first.
Addressed(job, event) ==
  /\ job # NoJob
  /\ job.jobId = event.jobId
  /\ ~ IsTerminal(job.state)

\* The switch has no default: a foreign type falls through and the function
\* returns undefined, which its callers take for the null job.
ApplyEvent(job, event) ==
  CASE event.type = "JobOpened" ->
         IF job = NoJob THEN OpenedJob(event) ELSE Illegal
    [] event.type # "JobOpened" /\ ~ Addressed(job, event) -> Illegal
    [] event.type # "JobOpened" /\ Addressed(job, event) ->
         IF event.type \notin DOMAIN AllowedIn THEN NoJob
         ELSE IF job.state \notin AllowedIn[event.type] THEN Illegal
         ELSE [job EXCEPT !.state = Target(event),
                          !.releasedAtomic = ReleasedWith(job, event),
                          !.lastEventAt = event.at]

(***************************************************************************)
(* replay.  Fold(log)[n] is the loop variable after the first n events; an *)
(* exception leaves the loop, so Illegal stays.                            *)
(***************************************************************************)
Outcome == Job \cup {NoJob, Illegal}

Step(event) ==
  [job \in Outcome |-> IF job = Illegal THEN Illegal ELSE ApplyEvent(job, event)]

Fold(log) ==
  LET after[n \in 0 .. Len(log)] ==
        IF n = 0 THEN NoJob ELSE Step(log[n])[after[n - 1]]
  IN  after

Replay(log) ==
  LET job == Fold(log)[Len(log)]
  IN  IF job = NoJob THEN Illegal ELSE job

(***************************************************************************)
(* What a log promises, said without jobs: the events that may follow each *)
(* event.  This is the lifecycle diagram of the README read as a grammar.  *)
(***************************************************************************)
MayFollow(previous, event) ==
  CASE event.type = "UnderwritingStarted" -> previous.type = "JobOpened"
    [] event.type = "UnderwritingDecided" -> previous.type = "UnderwritingStarted"
    [] event.type = "PrincipalReleased" ->
         \/ previous.type = "UnderwritingDecided" /\ previous.passed
         \/ previous.type = "PrincipalReleased"
    [] event.type = "EvidenceSubmitted" -> previous.type = "PrincipalReleased"
    [] event.type = "Disputed" -> previous.type = "EvidenceSubmitted"
    [] event.type = "Closed" -> previous.type \in {"EvidenceSubmitted", "Disputed"}
    [] OTHER -> FALSE

LegalLog(log) ==
  /\ log # <<>>
  /\ log[1].type = "JobOpened"
  /\ \A n \in 1 .. Len(log) : log[n].jobId = log[1].jobId
  /\ \A n \in 2 .. Len(log) : MayFollow(log[n - 1], log[n])
=============================================================================
