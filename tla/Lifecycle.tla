------------------------------ MODULE Lifecycle ------------------------------
(***************************************************************************)
(* What the event store promises of each job, with no log in sight: the    *)
(* lifecycle diagram of README.md ("Lifecycle") and of src/state.ts, lines *)
(* 19-22, with the principal the job released.  Any number of jobs move    *)
(* independently.                                                          *)
(***************************************************************************)
EXTENDS Integers

CONSTANTS JobIds, Amounts

VARIABLES stage,     \* stage[j]: the job's state, "NONE" before it is opened
          released   \* released[j]: principal released to the agent

vars == <<stage, released>>

Move(j, from, to) ==
  /\ stage[j] \in from
  /\ stage' = [stage EXCEPT ![j] = to]

Init ==
  /\ stage = [j \in JobIds |-> "NONE"]
  /\ released = [j \in JobIds |-> 0]

Open(j) == Move(j, {"NONE"}, "AWAIT_UNDERWRITING") /\ UNCHANGED released
Review(j) == Move(j, {"AWAIT_UNDERWRITING"}, "UNDERWRITING") /\ UNCHANGED released
Decide(j) ==
  /\ \E verdict \in {"RELEASABLE", "REJECTED"} : Move(j, {"UNDERWRITING"}, verdict)
  /\ UNCHANGED released
Release(j) ==
  /\ Move(j, {"RELEASABLE", "EXECUTING"}, "EXECUTING")
  /\ \E amount \in Amounts : released' = [released EXCEPT ![j] = @ + amount]
Submit(j) == Move(j, {"EXECUTING"}, "EVIDENCE_SUBMITTED") /\ UNCHANGED released
Dispute(j) == Move(j, {"EVIDENCE_SUBMITTED"}, "DISPUTED") /\ UNCHANGED released
Close(j) ==
  Move(j, {"EVIDENCE_SUBMITTED", "DISPUTED"}, "CLOSED") /\ UNCHANGED released

Next ==
  \E j \in JobIds :
    \/ Open(j) \/ Review(j) \/ Decide(j) \/ Release(j)
    \/ Submit(j) \/ Dispute(j) \/ Close(j)

Spec == Init /\ [][Next]_vars
=============================================================================
