------------------------------- MODULE Corpus -------------------------------
(***************************************************************************)
(* The behavioural corpus of conformance.py: event logs with the job they  *)
(* must replay to, and logs that must raise.  Amounts are counted in units *)
(* of 500 USDC; the single atomic unit of the illegal vectors is one too.  *)
(* Every event is at time 1: no guard reads the times.                     *)
(***************************************************************************)
EXTENDS ArsState

CONSTANTS j1, ghost,  \* the corpus's job, and one that was never opened
          large, small,  \* agent A, requestor D; exposure 10**9, or 1
          c1          \* claim C

\* The corpus's values are of the program's own types.
ASSUME CorpusAssumption ==
  /\ {j1, ghost} \subseteq JobIds /\ {large, small} \subseteq Terms
  /\ c1 \in Claims /\ {1, 2} \subseteq Amounts /\ 1 \in Times

Plain(type, j) == [type |-> type, jobId |-> j, at |-> 1]
Opened(terms) == [type |-> "JobOpened", jobId |-> j1, at |-> 1, terms |-> terms]
Decided(passed) ==
  [type |-> "UnderwritingDecided", jobId |-> j1, at |-> 1, passed |-> passed]
Release(amount) ==
  [type |-> "PrincipalReleased", jobId |-> j1, at |-> 1, amountAtomic |-> amount]
Evidence(outcome) ==
  [type |-> "EvidenceSubmitted", jobId |-> j1, at |-> 1, outcome |-> outcome]
Dispute == [type |-> "Disputed", jobId |-> j1, at |-> 1, claim |-> c1]
Closing(resolution) ==
  [type |-> "Closed", jobId |-> j1, at |-> 1, resolution |-> resolution]

Underwritten(terms, passed) ==
  <<Opened(terms), Plain("UnderwritingStarted", j1), Decided(passed)>>

Vector(log, state, released) ==
  [log |-> log, expected_state |-> state, expected_released_atomic |-> released]

STATE_VECTORS ==
  {Vector(<<Opened(large)>>, "AWAIT_UNDERWRITING", 0),
   Vector(Underwritten(large, FALSE), "REJECTED", 0),
   Vector(Append(Underwritten(large, TRUE), Release(1)), "EXECUTING", 1),
   Vector(Underwritten(large, TRUE) \o
            <<Release(2), Evidence("success"), Closing("no_dispute")>>,
          "CLOSED", 2),
   Vector(Underwritten(large, TRUE) \o
            <<Release(2), Evidence("failed"), Dispute, Closing("dispute_upheld")>>,
          "CLOSED", 2)}

ILLEGAL_VECTORS ==
  {<<Opened(small), Release(1)>>,
   <<Plain("UnderwritingStarted", ghost)>>,
   Append(Underwritten(small, FALSE), Plain("UnderwritingStarted", j1))}
=============================================================================
