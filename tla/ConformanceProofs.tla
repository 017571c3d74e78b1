-------------------------- MODULE ConformanceProofs --------------------------
(***************************************************************************)
(* The harness's safety for vector sets of any size and any number of      *)
(* invocations.                                                            *)
(***************************************************************************)
EXTENDS Conformance, SequenceTheorems, TLAPS

(***************************************************************************)
(* The inductive invariant.  The verdict is about a finished invocation;   *)
(* it holds because during the run the tallies are kept in step with the   *)
(* answers, set by set in the order of the loops.                          *)
(***************************************************************************)
\* The report's two tallies of a set say what was answered to it.
Booked(s) ==
  /\ passed[s] + failed[s] = Len(answers[s])
  /\ failed[s] = 0 <=> \A n \in 1 .. Len(answers[s]) : Tolerated(s, answers[s][n])

Full(s) == Booked(s) /\ Len(answers[s]) = VectorCount[s]

\* The loops run one after the other, each over its whole set.
Earlier(s) == CASE s = "state" -> {}
                [] s = "illegal" -> {"state"}
                [] s = "view_bond" -> {"state", "illegal"}
                [] s = "issue" -> Sets

Running ==
  phase # "done" =>
    /\ exit = "none"
    /\ transport \notin Transports => phase = "state"
    /\ \A s \in Earlier(phase) : Full(s)
    /\ phase \in Sets =>
         /\ Booked(phase) /\ Len(answers[phase]) < VectorCount[phase]
         /\ \A s \in Sets \ (Earlier(phase) \cup {phase}) :
              Booked(s) /\ answers[s] = <<>>

Finished ==
  phase = "done" =>
    /\ transport \in Transports /\ exit \in {"zero", "one"} => \A s \in Sets : Full(s)
    /\ transport \in Transports /\ exit = "zero" => Ok
    /\ exit = "one" => transport \in Transports /\ ~ Ok
    /\ transport = "http" /\ exit = "raised" =>
         answers["state"] = <<>> \/ \A s \in Sets : Full(s)

\* An answer is one the transport of the invocation can see.
Seen == \A s \in Sets : answers[s] \in Seq(Visible)

\* A certificate is of a transport, and counts.
Stamped ==
  \A c \in certs :
    /\ c.transport \in Transports
    /\ c.passed \in [Sets -> Nat] /\ c.total \in [Sets -> Nat]

IInv == TypeOK /\ Seen /\ Running /\ Finished /\ Stamped

-----------------------------------------------------------------------------
\* The answers a transport sees and counts as passed are the tolerated ones.
LEMMA PassesWhatIsTolerated ==
  ASSUME transport \in Commands, NEW s \in Sets, NEW answer \in Visible
  PROVE  Passes(s, answer) <=> Tolerated(s, answer)
PROOF
  BY DEF Passes, Tolerated, Right, Visible, Answers, Sets

\* A scored answer is booked in exactly one tally.
LEMMA ScoreBooks ==
  ASSUME IInv, NEW s \in Sets, NEW answer \in Visible, Booked(s),
         Score(s, answer), answers' = [answers EXCEPT ![s] = Append(@, answer)],
         transport' = transport
  PROVE  /\ Booked(s)'
         /\ passed' \in [Sets -> Nat] /\ failed' \in [Sets -> Nat]
         /\ answers' \in [Sets -> Seq(Answers)]
         /\ answers'[s] \in Seq(Visible)
         /\ Len(answers'[s]) = Len(answers[s]) + 1
         /\ \A q \in Sets \ {s} :
              /\ passed'[q] = passed[q] /\ failed'[q] = failed[q]
              /\ answers'[q] = answers[q]
PROOF
  <1>1. /\ passed \in [Sets -> Nat] /\ failed \in [Sets -> Nat]
        /\ answers \in [Sets -> Seq(Answers)] /\ answers[s] \in Seq(Visible)
        /\ transport \in Commands
    BY DEF IInv, TypeOK, Seen
  <1>. DEFINE old == answers[s]
              new == Append(old, answer)
  <1>2. answers' = [answers EXCEPT ![s] = new] /\ answers'[s] = new
    BY <1>1
  <1>3. /\ Len(old) \in Nat /\ Len(new) = Len(old) + 1 /\ new \in Seq(Visible)
        /\ \A n \in 1 .. Len(old) : new[n] = old[n]
        /\ new[Len(old) + 1] = answer
    BY <1>1
  <1>4. new \in Seq(Answers)
    BY <1>1 DEF Visible
  <1>5. /\ passed' = IF Passes(s, answer) THEN [passed EXCEPT ![s] = @ + 1] ELSE passed
        /\ failed' = IF Passes(s, answer) THEN failed ELSE [failed EXCEPT ![s] = @ + 1]
    BY DEF Score
  <1>6. (\A n \in 1 .. Len(new) : Tolerated(s, new[n]))
          <=> (\A n \in 1 .. Len(old) : Tolerated(s, old[n])) /\ Tolerated(s, answer)
    <2>. HIDE DEF new, old
    <2>. QED  BY <1>3
  <1>7. Booked(s)'
    <2>1. CASE Passes(s, answer)
      <3>1. /\ passed'[s] = passed[s] + 1 /\ failed'[s] = failed[s]
            /\ Tolerated(s, answer)
        BY <1>1, <1>5, <2>1, PassesWhatIsTolerated
      <3>. HIDE DEF new, old
      <3>2. passed'[s] + failed'[s] = Len(new)
        BY <1>1, <1>3, <3>1 DEF Booked, old
      <3>3. failed'[s] = 0 <=> \A n \in 1 .. Len(new) : Tolerated(s, new[n])
        BY <1>6, <3>1 DEF Booked, old
      <3>. QED  BY <1>2, <3>2, <3>3 DEF Booked, Tolerated, Right
    <2>2. CASE ~ Passes(s, answer)
      <3>1. /\ passed'[s] = passed[s] /\ failed'[s] = failed[s] + 1
            /\ ~ Tolerated(s, answer)
        BY <1>1, <1>5, <2>2, PassesWhatIsTolerated
      <3>. HIDE DEF new, old
      <3>2. passed[s] \in Nat /\ failed[s] \in Nat /\ passed[s] + failed[s] = Len(old)
        BY <1>1 DEF Booked, old
      <3>4. passed'[s] + failed'[s] = Len(new) /\ failed'[s] # 0
        BY <1>3, <3>1, <3>2
      <3>3. ~ \A n \in 1 .. Len(new) : Tolerated(s, new[n])
        BY <1>6, <3>1
      <3>. QED  BY <1>2, <3>3, <3>4 DEF Booked, Tolerated, Right
    <2>. QED  BY <2>1, <2>2
  <1>. HIDE DEF new, old
  <1>. QED  BY <1>1, <1>2, <1>3, <1>4, <1>5, <1>7 DEF old

\* With nothing answered nothing is booked.
LEMMA EmptyIsBooked ==
  ASSUME NEW s \in Sets, passed[s] = 0, failed[s] = 0, answers[s] = <<>>
  PROVE  Booked(s)
PROOF
  BY DEF Booked

LEMMA InitIInv == Init => IInv
PROOF
  <1>. SUFFICES ASSUME Init PROVE IInv
    OBVIOUS
  <1>1. /\ passed \in [Sets -> Nat] /\ failed \in [Sets -> Nat]
        /\ answers \in [Sets -> Seq(Answers)]
        /\ \A s \in Sets : answers[s] = <<>> /\ Booked(s) /\ VectorCount[s] > 0
    BY EmptyIsBooked, VectorCountAssumption DEF Init, Zero
  <1>2. TypeOK /\ Stamped
    BY <1>1 DEF Init, TypeOK, Stamped, Sets
  <1>3. Seen
    BY <1>1 DEF Seen
  <1>4. Running /\ Finished
    BY <1>1 DEF Init, Running, Finished, Earlier, Sets
  <1>. QED  BY <1>2, <1>3, <1>4 DEF IInv

\* One turn of a loop.
LEMMA RunVectorKeeps ==
  ASSUME IInv, NEW answer \in Answers, RunVector(answer)
  PROVE  IInv'
PROOF
  <1>. SUFFICES ASSUME NEW set \in Sets, phase = set PROVE IInv'
    BY DEF RunVector
  <1>1. /\ transport \in Transports /\ answer \in Visible
        /\ answers' = [answers EXCEPT ![set] = Append(@, answer)]
        /\ UNCHANGED <<transport, wants, certs>>
    BY DEF RunVector
  <1>2. /\ Booked(set) /\ Len(answers[set]) < VectorCount[set]
        /\ exit = "none" /\ set # "done"
        /\ answers \in [Sets -> Seq(Answers)] /\ answers[set] \in Seq(Visible)
    BY <1>1 DEF IInv, TypeOK, Seen, Running, Sets
  <1>3. Stamped'
    BY <1>1 DEF IInv, Stamped
  <1>4. Visible' = Visible /\ \A s \in Sets : answers[s] \in Seq(Visible)
    BY <1>1 DEF IInv, Seen, Visible
  <1>5. CASE Uncaught(set, answer)
    <2>1. /\ phase' = "done" /\ exit' = "raised" /\ UNCHANGED <<passed, failed>>
          /\ transport # "http"
      BY <1>5 DEF RunVector, Stop, Uncaught
    <2>2. /\ answers' \in [Sets -> Seq(Answers)]
          /\ \A s \in Sets : answers'[s] \in Seq(Visible)
      BY <1>1, <1>2, <1>4
    <2>3. TypeOK'
      BY <1>1, <2>1, <2>2 DEF IInv, TypeOK
    <2>4. Running' /\ Finished' /\ Seen'
      BY <1>1, <1>4, <2>1, <2>2 DEF Running, Finished, Seen
    <2>. QED  BY <1>3, <2>3, <2>4 DEF IInv
  <1>6. CASE ~ Uncaught(set, answer)
    <2>1. /\ Score(set, answer) /\ exit' = exit
          /\ phase' = IF Len(answers'[set]) = VectorCount[set]
                      THEN Following(set) ELSE set
      BY <1>6 DEF RunVector
    <2>2. /\ Booked(set)'
          /\ passed' \in [Sets -> Nat] /\ failed' \in [Sets -> Nat]
          /\ answers' \in [Sets -> Seq(Answers)] /\ answers'[set] \in Seq(Visible)
          /\ Len(answers'[set]) = Len(answers[set]) + 1
          /\ \A q \in Sets \ {set} :
               /\ passed'[q] = passed[q] /\ failed'[q] = failed[q]
               /\ answers'[q] = answers[q]
      BY <1>1, <1>2, <2>1, ScoreBooks
    <2>3. TypeOK'
      BY <1>1, <2>1, <2>2 DEF IInv, TypeOK, Sets, Following
    <2>4. Seen'
      BY <1>4, <2>2 DEF Seen
    <2>5. /\ \A q \in Sets \ {set} :
               /\ Booked(q) => Booked(q)'
               /\ Full(q) => Full(q)'
      BY <1>1, <2>2 DEF Full, Booked, Tolerated, Right
    <2>6. /\ \A s \in Earlier(set) : s \in Sets \ {set} /\ Full(s)'
          /\ \A s \in Sets \ (Earlier(set) \cup {set}) :
               Booked(s)' /\ answers'[s] = <<>> /\ Len(answers'[s]) = 0
      <3>1. /\ \A s \in Earlier(set) : Full(s)
            /\ \A s \in Sets \ (Earlier(set) \cup {set}) :
                 Booked(s) /\ answers[s] = <<>>
        BY <1>2 DEF IInv, Running
      <3>2. Earlier(set) \subseteq Sets \ {set}
        BY DEF Earlier, Sets
      <3>3. \A s \in Earlier(set) : s \in Sets \ {set} /\ Full(s)'
        BY <2>5, <3>1, <3>2
      <3>4. \A s \in Sets \ (Earlier(set) \cup {set}) :
              Booked(s)' /\ answers'[s] = <<>>
        BY <2>2, <2>5, <3>1
      <3>. QED  BY <3>3, <3>4
    <2>7. Len(answers[set]) \in Nat /\ VectorCount \in [Sets -> Nat \ {0}]
      BY <1>2, VectorCountAssumption
    <2>8. CASE Len(answers'[set]) = VectorCount[set]
      <3>1. Full(set)' /\ phase' = Following(set)
        BY <2>1, <2>2, <2>8 DEF Full
      <3>2. Running'
        BY <1>1, <1>2, <2>1, <2>6, <2>7, <3>1 DEF Running, Earlier, Following, Sets
      <3>3. Finished'
        BY <3>1 DEF Finished, Following, Sets
      <3>. QED  BY <1>3, <2>3, <2>4, <3>2, <3>3 DEF IInv
    <2>9. CASE Len(answers'[set]) # VectorCount[set]
      <3>1. phase' = set
        BY <2>1, <2>9
      <3>2. Len(answers'[set]) < VectorCount[set]
        BY <1>2, <2>2, <2>7, <2>9
      <3>3. Running'
        BY <1>1, <1>2, <2>1, <2>2, <2>6, <3>1, <3>2 DEF Running
      <3>4. Finished'
        BY <1>2, <3>1 DEF Finished
      <3>. QED  BY <1>3, <2>3, <2>4, <3>3, <3>4 DEF IInv
    <2>. QED  BY <2>8, <2>9
  <1>. QED  BY <1>5, <1>6

\* Stopping changes nothing but the phase and the exit, so it is enough that
\* the exit is true of the report.
LEMMA StopKeeps ==
  ASSUME IInv, phase' = "done", UNCHANGED <<transport, wants, report>>,
         exit' \in {"zero", "one", "two", "raised"}, Finished', Stamped'
  PROVE  IInv'
PROOF
  <1>1. TypeOK'
    BY DEF IInv, TypeOK, Stamped, report
  <1>2. Seen'
    BY DEF IInv, Seen, Visible, report
  <1>3. Running'
    BY DEF Running
  <1>. QED  BY <1>1, <1>2, <1>3 DEF IInv

\* main() after the report: every set was answered in full, and the verdict
\* is the tallies'.
LEMMA AfterReport ==
  ASSUME IInv, phase = "issue"
  PROVE  transport \in Transports /\ \A s \in Sets : Full(s)
PROOF
  BY DEF IInv, Running, Earlier, Sets

LEMMA VerdictKeeps ==
  ASSUME IInv, phase = "issue", Stop(ExitCode),
         UNCHANGED <<transport, wants, report>>, Stamped'
  PROVE  IInv'
PROOF
  <1>1. /\ phase' = "done" /\ exit' = IF Ok THEN "zero" ELSE "one"
        /\ Ok' = Ok
    BY DEF Stop, ExitCode, Ok, report
  <1>2. transport \in Transports /\ \A s \in Sets : Full(s)
    BY AfterReport
  <1>3. \A s \in Sets : Full(s)'
    BY <1>2 DEF Full, Booked, Tolerated, Right, report
  <1>4. Finished'
    BY <1>1, <1>2, <1>3 DEF Finished
  <1>. QED  BY <1>1, <1>4, StopKeeps

LEMMA RaisedKeeps ==
  ASSUME IInv, Stop("raised"), UNCHANGED <<transport, wants, report, certs>>,
         transport = "http" => answers["state"] = <<>> \/ \A s \in Sets : Full(s)
  PROVE  IInv'
PROOF
  <1>1. phase' = "done" /\ exit' = "raised"
    BY DEF Stop
  <1>2. (\A s \in Sets : Full(s)) => \A s \in Sets : Full(s)'
    BY DEF Full, Booked, Tolerated, Right, report
  <1>3. Finished'
    BY <1>1, <1>2 DEF Finished, report
  <1>4. Stamped'
    BY DEF IInv, Stamped
  <1>. QED  BY <1>1, <1>3, <1>4, StopKeeps

\* A certificate is stamped when it is built.
LEMMA CertificateIsStamped ==
  ASSUME IInv, phase = "issue", certs' = certs \cup {Certificate}
  PROVE  Stamped'
PROOF
  <1>1. /\ passed \in [Sets -> Nat] /\ failed \in [Sets -> Nat]
        /\ transport \in Transports
    BY AfterReport DEF IInv, TypeOK
  <1>2. /\ Certificate.transport \in Transports
        /\ Certificate.passed \in [Sets -> Nat] /\ Certificate.total \in [Sets -> Nat]
    BY <1>1 DEF Certificate
  <1>. QED  BY <1>2 DEF IInv, Stamped

LEMMA NextIInv == IInv /\ [Next]_vars => IInv'
PROOF
  <1>. SUFFICES ASSUME IInv, [Next]_vars PROVE IInv'
    OBVIOUS
  <1>1. CASE LoadFails
    BY <1>1, RaisedKeeps DEF LoadFails
  <1>2. CASE RefuseTarget
    <2>1. Finished'
      BY <1>2 DEF RefuseTarget, Stop, Finished, Transports
    <2>. QED  BY <1>2, <2>1, StopKeeps DEF RefuseTarget, Stop, IInv, Stamped
  <1>3. CASE DumpVectors
    <2>1. Finished'
      BY <1>3 DEF DumpVectors, Stop, Finished, Transports
    <2>. QED  BY <1>3, <2>1, StopKeeps DEF DumpVectors, Stop, IInv, Stamped
  <1>4. ASSUME NEW answer \in Answers, RunVector(answer) PROVE IInv'
    BY <1>4, RunVectorKeeps
  <1>5. CASE ReturnBare
    BY <1>5, VerdictKeeps DEF ReturnBare, IInv, Stamped
  <1>6. CASE Issue
    BY <1>6, VerdictKeeps, CertificateIsStamped DEF Issue
  <1>7. CASE SigningFails
    BY <1>7, RaisedKeeps, AfterReport DEF SigningFails
  <1>8. CASE WritingFails
    BY <1>8, RaisedKeeps, AfterReport DEF WritingFails
  <1>9. CASE Invoke
    <2>1. /\ passed' \in [Sets -> Nat] /\ failed' \in [Sets -> Nat]
          /\ answers' \in [Sets -> Seq(Answers)]
          /\ \A s \in Sets :
               /\ passed'[s] = 0 /\ failed'[s] = 0 /\ answers'[s] = <<>>
               /\ VectorCount[s] > 0
      BY <1>9, VectorCountAssumption DEF Invoke, Zero
    <2>2. /\ transport' \in Commands /\ wants' \in Wishes
          /\ phase' = "state" /\ exit' = "none" /\ certs' = certs
      BY <1>9 DEF Invoke
    <2>3. \A s \in Sets : Booked(s)'
      BY <2>1 DEF Booked
    <2>4. TypeOK' /\ Stamped'
      BY <2>1, <2>2 DEF IInv, TypeOK, Stamped, Sets
    <2>5. Seen' /\ Finished'
      BY <2>1, <2>2 DEF Seen, Finished
    <2>6. Running'
      BY <2>1, <2>2, <2>3 DEF Running, Earlier, Sets
    <2>. QED  BY <2>4, <2>5, <2>6 DEF IInv
  <1>10. CASE UNCHANGED vars
    BY <1>10 DEF vars, IInv, TypeOK, Seen, Visible, Running, Finished, Stamped,
                 Full, Booked, Tolerated, Right, Ok
  <1>. QED
    BY <1>1, <1>2, <1>3, <1>4, <1>5, <1>6, <1>7, <1>8, <1>9, <1>10 DEF Next, Harness

LEMMA SpecIInv == Spec => []IInv
PROOF
  BY InitIInv, NextIInv, PTL DEF Spec

-----------------------------------------------------------------------------
(***************************************************************************)
(* What follows of every reachable state.                                  *)
(***************************************************************************)
\* The report, the answers and the exit code keep their shapes.
THEOREM SpecTypeOK == Spec => []TypeOK
PROOF
  <1>1. IInv => TypeOK  BY DEF IInv
  <1>. QED  BY <1>1, SpecIInv, PTL

\* The tallies of a finished run account for every vector.
THEOREM SpecScoresEveryVector == Spec => []ScoresEveryVector
PROOF
  <1>1. ASSUME IInv PROVE ScoresEveryVector
    <2>1. phase = "issue" => \A s \in Sets : Full(s)
      BY <1>1, AfterReport
    <2>2. phase # "done" => exit = "none"
      BY <1>1 DEF IInv, Running
    <2>3. transport \in Transports /\ exit \in {"zero", "one"} => \A s \in Sets : Full(s)
      BY <1>1, <2>2 DEF IInv, Finished
    <2>. QED  BY <2>1, <2>3 DEF ScoresEveryVector, Full, Booked
  <1>. QED  BY <1>1, SpecIInv, PTL

\* Exit code 0 is given to the implementations that answered every vector
\* right, over HTTP with any 4xx for a refusal, and 1 to those that did not.
THEOREM SpecVerdictIsExact == Spec => []VerdictIsExact
PROOF
  <1>1. ASSUME IInv PROVE VerdictIsExact
    <2>1. phase # "done" => exit = "none"
      BY <1>1 DEF IInv, Running
    <2>2. /\ transport \in Transports /\ exit \in {"zero", "one"} => \A s \in Sets : Full(s)
          /\ transport \in Transports /\ exit = "zero" => Ok
          /\ exit = "one" => transport \in Transports /\ ~ Ok
      BY <1>1, <2>1 DEF IInv, Finished
    <2>3. (\A s \in Sets : Full(s)) => (Ok <=> AllTolerated)
      BY DEF Full, Booked, Ok, AllTolerated, AllAnswered
    <2>4. transport # "http" /\ AllTolerated => AllRight
      BY DEF AllTolerated, AllRight, Tolerated
    <2>. QED  BY <2>2, <2>3, <2>4 DEF VerdictIsExact, Transports
  <1>. QED  BY <1>1, SpecIInv, PTL

\* No answer over HTTP aborts a run half-way.
THEOREM SpecHttpAlwaysReports == Spec => []HttpAlwaysReports
PROOF
  <1>1. ASSUME IInv PROVE HttpAlwaysReports
    <2>1. phase # "done" => exit = "none"
      BY <1>1 DEF IInv, Running
    <2>2. transport = "http" /\ exit = "raised" =>
            answers["state"] = <<>> \/ \A s \in Sets : Full(s)
      BY <1>1, <2>1 DEF IInv, Finished
    <2>. QED  BY <2>2 DEF HttpAlwaysReports, Full, Booked
  <1>. QED  BY <1>1, SpecIInv, PTL

\* The certificate main() writes says passed exactly when main() returns 0.
THEOREM SpecCertificateMatchesExit == Spec => CertificateMatchesExit
PROOF
  <1>1. ASSUME IInv, [Next]_vars, certs' # certs
        PROVE  \E c \in certs' \ certs :
                 exit' = IF CertPassed(c) THEN "zero" ELSE "one"
    <2>1. Issue
      BY <1>1 DEF Next, Harness, LoadFails, RefuseTarget, DumpVectors, RunVector,
                  ReturnBare, SigningFails, WritingFails, Invoke, vars
    <2>2. certs' = certs \cup {Certificate}
      BY <2>1 DEF Issue
    <2>3. exit' = IF Ok THEN "zero" ELSE "one"
      BY <2>1 DEF Issue, Stop, ExitCode
    <2>4. CertPassed(Certificate) <=> Ok
      <3>1. passed \in [Sets -> Nat] /\ failed \in [Sets -> Nat]
        BY <1>1 DEF IInv, TypeOK
      <3>2. CertPassed(Certificate) <=> \A s \in Sets : passed[s] = passed[s] + failed[s]
        BY <3>1 DEF CertPassed, Certificate
      <3>. QED  BY <3>1, <3>2 DEF Ok
    <2>5. Certificate \in certs' \ certs
      BY <1>1, <2>2
    <2>. QED  BY <2>3, <2>4, <2>5
  <1>. QED  BY <1>1, SpecIInv, PTL DEF Spec, CertificateMatchesExit

(***************************************************************************)
(* TurnsLeft is a variant of the harness.                                  *)
(***************************************************************************)
\* Until the invocation is done some turn is left, one per vector to come.
LEMMA TurnsOfARun ==
  ASSUME IInv, phase # "done"
  PROVE  /\ \A s \in Sets : Unanswered(s) \in Nat
         /\ TurnsLeft \in Nat /\ TurnsLeft > 0
         /\ phase \in Sets => Unanswered(phase) > 0
PROOF
  <1>1. ASSUME NEW s \in Sets PROVE Len(answers[s]) \in Nat /\ VectorCount[s] \in Nat \ {0}
    BY <1>1, LenProperties, VectorCountAssumption DEF IInv, TypeOK
  <1>2. ASSUME NEW s \in Sets PROVE Len(answers[s]) <= VectorCount[s]
    <2>1. CASE s \in Earlier(phase)
      BY <1>1, <2>1 DEF IInv, Running, Full
    <2>2. CASE s = phase
      BY <1>1, <2>2 DEF IInv, Running
    <2>3. CASE s \notin Earlier(phase) \cup {phase}
      <3>1. phase \in Sets
        BY <2>3 DEF IInv, TypeOK, Earlier
      <3>2. answers[s] = <<>>
        BY <2>3, <3>1 DEF IInv, Running
      <3>. QED  BY <1>1, <3>2
    <2>. QED  BY <2>1, <2>2, <2>3
  <1>3. \A s \in Sets : Unanswered(s) \in Nat
    BY <1>1, <1>2 DEF Unanswered
  <1>4. phase \in Sets => Unanswered(phase) > 0
    BY <1>1 DEF IInv, Running, Unanswered
  <1>. QED  BY <1>3, <1>4 DEF TurnsLeft, Sets

\* Whatever is answered and whatever fails, a turn of an invocation leaves it
\* fewer turns to take: it cannot go on for ever.
THEOREM SpecEveryTurnCounts == Spec => EveryTurnCounts
PROOF
  <1>1. ASSUME IInv, Harness PROVE TurnsLeft' \in Nat /\ TurnsLeft' < TurnsLeft
    <2>1. phase # "done"
      BY <1>1 DEF Harness, LoadFails, RefuseTarget, DumpVectors, RunVector, ReturnBare,
                  Issue, SigningFails, WritingFails, Sets
    <2>2. TurnsLeft \in Nat /\ TurnsLeft > 0
      BY <1>1, <2>1, TurnsOfARun
    <2>3. ASSUME phase' = "done" PROVE TurnsLeft' = 0
      BY <2>3 DEF TurnsLeft
    <2>4. ASSUME NEW answer \in Answers, RunVector(answer), phase' # "done"
          PROVE  TurnsLeft' \in Nat /\ TurnsLeft' < TurnsLeft
      <3>1. /\ phase \in Sets
            /\ answers' = [answers EXCEPT ![phase] = Append(@, answer)]
        BY <2>4 DEF RunVector
      <3>2. answers \in [Sets -> Seq(Answers)]
        BY <1>1 DEF IInv, TypeOK
      <3>3. Len(answers'[phase]) = Len(answers[phase]) + 1
        BY <3>1, <3>2
      <3>4. \A s \in Sets : s # phase => Unanswered(s)' = Unanswered(s)
        BY <3>1, <3>2 DEF Unanswered
      <3>5. \A s \in Sets : s = phase => Unanswered(s)' = Unanswered(s) - 1
        <4>. SUFFICES ASSUME NEW s \in Sets, s = phase
                      PROVE  Unanswered(s)' = Unanswered(s) - 1
          OBVIOUS
        <4>1. Len(answers[s]) \in Nat /\ VectorCount[s] \in Nat
          BY <3>2, LenProperties, VectorCountAssumption
        <4>2. Len(answers'[s]) = Len(answers[s]) + 1
          BY <3>3
        <4>. QED  BY <4>1, <4>2 DEF Unanswered
      <3>6. /\ \A s \in Sets : Unanswered(s) \in Nat
            /\ Unanswered(phase) > 0
        BY <1>1, <2>1, <3>1, TurnsOfARun
      <3>7. PICK set \in Sets : set = phase
        BY <3>1
      <3>. HIDE DEF Unanswered
      <3>. QED  BY <2>1, <2>4, <3>4, <3>5, <3>6, <3>7 DEF TurnsLeft, Sets
    <2>5. phase' = "done" \/ \E answer \in Answers : RunVector(answer)
      BY <1>1 DEF Harness, LoadFails, RefuseTarget, DumpVectors, ReturnBare, Issue,
                  SigningFails, WritingFails, Stop
    <2>. QED  BY <2>2, <2>3, <2>4, <2>5
  <1>. QED  BY <1>1, SpecIInv, PTL DEF Spec, EveryTurnCounts
=============================================================================
