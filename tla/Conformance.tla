----------------------------- MODULE Conformance -----------------------------
(***************************************************************************)
(* The conformance harness of python/src/telaro_ars/conformance.py and its *)
(* CLI, conformance_cli.py: one invocation after another runs the three    *)
(* vector sets against an implementation and may issue a certificate.      *)
(*                                                                         *)
(* The implementation under test is outside src/, or, for self-test, the   *)
(* reference in whatever state a change left it: it may answer each vector *)
(* in any way.  What its answer says, not how, is kept:                    *)
(*   "match"    the expected job, or the expected instruction data         *)
(*   "mismatch" some other value                                           *)
(*   "refused"  ARSTransitionError, or HTTP 400                            *)
(*   "other4xx" another HTTP 4xx                                           *)
(*   "error"    any other exception, HTTP status, time-out or bad JSON     *)
(***************************************************************************)
EXTENDS Integers, Sequences, FiniteSets

CONSTANTS VectorCount,  \* number of vectors in each of the three sets
          MaxRuns       \* bound on the invocations

Sets == {"state", "illegal", "view_bond"}

ASSUME VectorCountAssumption == VectorCount \in [Sets -> Nat \ {0}]

\* self-test, and run --against; then dump-vectors, and run against a target
\* whose prefix names no transport.
Transports == {"self-test", "python", "http"}
Commands == Transports \cup {"dump-vectors", "unknown"}
Answers == {"match", "mismatch", "refused", "other4xx", "error"}

VARIABLES transport,  \* the subcommand and transport of this invocation
          wants,      \* does it ask for a certificate, a file, a signature;
                      \* and what target it names
          phase,      \* the loop the harness is in, "issue" or "done"
          passed,     \* passed[s]: the report's <s>_passed
          failed,     \* failed[s]: the length of the report's <s>_failed
          answers,    \* answers[s]: what the implementation answered, in order
          exit,       \* "zero", "one", "two", or "raised" for an uncaught exception
          certs       \* the certificates written, one set for all invocations

report == <<passed, failed, answers>>
vars == <<transport, wants, phase, passed, failed, answers, exit, certs>>

-----------------------------------------------------------------------------
\* The answers each transport can see.
Visible ==
  {answer \in Answers : /\ answer = "other4xx" => transport = "http"
                       /\ answer = "refused" => wants.catchable}

\* Which answers count as passed.  The Python transports insist on the
\* implementation's ARSTransitionError, the HTTP one on any 4xx.
AnyErrorRefuses(set, answer) ==
  IF set = "illegal" THEN answer \in {"refused", "other4xx", "error"}
  ELSE answer = "match"
Passes(set, answer) ==
  IF set = "illegal"
  THEN answer = "refused" \/ (answer = "other4xx" /\ transport = "http")
  ELSE answer = "match"

\* The third loop of the Python transports has no except clause; the second
\* one's names the target's ARSTransitionError, and raises a TypeError where
\* that is no exception class and some exception has to be matched with it.
UncaughtAnywhere(set, answer) == set = "view_bond" /\ answer \in {"refused", "error"}
Uncaught(set, answer) ==
  /\ transport # "http"
  /\ \/ set = "view_bond" /\ answer \in {"refused", "error"}
     \/ set = "illegal" /\ answer = "error" /\ ~ wants.catchable

FollowingWithRetry(set) ==
  CASE set = "state" -> "illegal"
    [] set = "illegal" -> "view_bond"
    [] set = "view_bond" -> IF \E s \in Sets : failed'[s] > 0 THEN "state" ELSE "issue"
Following(set) == CASE set = "state" -> "illegal"
                    [] set = "illegal" -> "view_bond"
                    [] set = "view_bond" -> "issue"

\* ConformanceReport.ok
OkButViewBond == \A s \in {"state", "illegal"} : failed[s] = 0
Ok == \A s \in Sets : failed[s] = 0

\* A new ConformanceReport.
ZeroButViewBond == [s \in {"state", "illegal"} |-> 0]
Zero == [s \in Sets |-> 0]

\* The vector is appended to one of the two tallies of its set.
ScoreUnlessError(set, answer) ==
  IF Passes(set, answer)
  THEN passed' = [passed EXCEPT ![set] = @ + 1] /\ UNCHANGED failed
  ELSE /\ failed' = IF answer = "error" THEN failed ELSE [failed EXCEPT ![set] = @ + 1]
       /\ UNCHANGED passed
Score(set, answer) ==
  IF Passes(set, answer)
  THEN passed' = [passed EXCEPT ![set] = @ + 1] /\ UNCHANGED failed
  ELSE failed' = [failed EXCEPT ![set] = @ + 1] /\ UNCHANGED passed

\* What main() is asked for: "run" always issues a certificate, "self-test"
\* only on --cert or --out; dump-vectors knows --out alone.  Only a Python
\* target can name something as ARSTransitionError that is no exception.
Wishes == [cert : BOOLEAN, out : BOOLEAN, signature : BOOLEAN, catchable : BOOLEAN]
Requested(t, w) ==
  /\ CASE t = "self-test" -> w.out => w.cert
       [] t = "dump-vectors" -> ~ w.cert /\ ~ w.signature
       [] OTHER -> w.cert
  /\ t # "python" => w.catchable

Init ==
  /\ transport \in Commands
  /\ wants \in Wishes
  /\ Requested(transport, wants)
  /\ phase = "state"
  /\ passed = Zero /\ failed = Zero /\ answers = [s \in Sets |-> <<>>]
  /\ exit = "none"
  /\ certs = {}

Stop(code) == exit' = code /\ phase' = "done"

\* Nothing runs: the module under test does not import or lacks a required
\* export, or, for the http transport, the requests package is not installed.
LoadFails ==
  /\ transport \in {"python", "http"}
  /\ phase = "state" /\ answers["state"] = <<>>
  /\ Stop("raised")
  /\ UNCHANGED <<transport, wants, report, certs>>

\* --against names no transport: main returns 2.
RefuseTarget ==
  /\ transport = "unknown" /\ phase = "state"
  /\ Stop("two")
  /\ UNCHANGED <<transport, wants, report, certs>>

\* dump-vectors runs nothing; writing to --out may fail.
DumpVectors ==
  /\ transport = "dump-vectors" /\ phase = "state"
  /\ Stop("zero") \/ (wants.out /\ Stop("raised"))
  /\ UNCHANGED <<transport, wants, report, certs>>

\* One turn of one of the three loops.
RunVector(answer) ==
  /\ transport \in Transports /\ phase \in Sets
  /\ answer \in Visible
  /\ answers' = [answers EXCEPT ![phase] = Append(@, answer)]
  /\ IF Uncaught(phase, answer)
     THEN Stop("raised") /\ UNCHANGED <<passed, failed>>
     ELSE /\ Score(phase, answer)
          /\ phase' = IF Len(answers'[phase]) = VectorCount[phase]
                      THEN Following(phase) ELSE phase
          /\ UNCHANGED exit
  /\ UNCHANGED <<transport, wants, certs>>

\* Subject, time and fingerprint are left out: the transport tells the
\* invocations apart that the properties tell apart.
Certificate ==
  [transport |-> transport, passed |-> passed,
   total |-> [s \in Sets |-> passed[s] + failed[s]], signed |-> wants.signature]

\* ConformanceCertificate.passed
CertPassed(cert) == cert.passed = cert.total

\* return 0 if report.ok else 1
ExitCode == IF Ok THEN "zero" ELSE "one"

\* main() after the report: with no certificate asked for it returns, else
\* it builds, signs and writes one, whatever the report says.
ReturnBare ==
  /\ phase = "issue" /\ ~ wants.cert
  /\ Stop(ExitCode)
  /\ UNCHANGED <<transport, wants, report, certs>>

Issue ==
  /\ phase = "issue" /\ wants.cert
  /\ certs' = certs \cup {Certificate}
  /\ Stop(ExitCode)
  /\ UNCHANGED <<transport, wants, report>>

\* The keypair file is missing or is no keypair.
SigningFails ==
  /\ phase = "issue" /\ wants.cert /\ wants.signature
  /\ Stop("raised")
  /\ UNCHANGED <<transport, wants, report, certs>>

\* --out cannot be opened; a signature was made by then.
WritingFails ==
  /\ phase = "issue" /\ wants.out
  /\ Stop("raised")
  /\ UNCHANGED <<transport, wants, report, certs>>

\* The next invocation.
Invoke ==
  /\ phase = "done" /\ Cardinality(certs) < MaxRuns
  /\ \E t \in Commands, w \in Wishes :
       Requested(t, w) /\ transport' = t /\ wants' = w
  /\ phase' = "state"
  /\ passed' = Zero /\ failed' = Zero /\ answers' = [s \in Sets |-> <<>>]
  /\ exit' = "none"
  /\ UNCHANGED certs

Harness ==
  \/ LoadFails \/ RefuseTarget \/ DumpVectors
  \/ \E answer \in Answers : RunVector(answer)
  \/ ReturnBare \/ Issue \/ SigningFails \/ WritingFails

Next == Harness \/ Invoke
Spec == Init /\ [][Next]_vars

-----------------------------------------------------------------------------
(***************************************************************************)
(* Properties                                                              *)
(***************************************************************************)
\* Every variable keeps its shape.
TypeOK ==
  /\ transport \in Commands /\ wants \in Wishes
  /\ phase \in Sets \cup {"issue", "done"}
  /\ passed \in [Sets -> Nat] /\ failed \in [Sets -> Nat]
  /\ answers \in [Sets -> Seq(Answers)]
  /\ exit \in {"none", "zero", "one", "two", "raised"}
  /\ \A c \in certs : c.transport \in Transports

\* What the documents ask of an implementation: the same job, the same bytes,
\* and for an illegal log its transition error, over HTTP the status 400.
Right(set, answer) ==
  IF set = "illegal" THEN answer = "refused" ELSE answer = "match"

\* What passes for it: over HTTP any 4xx on an illegal log, a 404 of a server
\* without /replay among them.
Tolerated(set, answer) ==
  \/ Right(set, answer)
  \/ transport = "http" /\ set = "illegal" /\ answer = "other4xx"

AllAnswered == \A s \in Sets : Len(answers[s]) = VectorCount[s]
AllRight ==
  AllAnswered /\ \A s \in Sets : \A n \in 1 .. Len(answers[s]) : Right(s, answers[s][n])
AllTolerated ==
  AllAnswered /\ \A s \in Sets : \A n \in 1 .. Len(answers[s]) : Tolerated(s, answers[s][n])

\* Whatever the implementation answers, no vector is lost from a report and
\* none counted twice: not by an early continue, not by an exception.
ScoresEveryVector ==
  transport \in Transports /\ (phase = "issue" \/ exit \in {"zero", "one"}) =>
    \A s \in Sets : passed[s] + failed[s] = VectorCount[s]

\* The exit code is the verdict.  In-process, 0 says that every answer was
\* right.  Over HTTP it says less than the protocol asks for: every answer was
\* right but that an illegal log may have been answered with any 4xx.  And 1
\* says that some answer was wrong and not even tolerated.  dump-vectors,
\* which also exits with 0, is no verdict.
VerdictIsExact ==
  /\ exit = "zero" /\ transport \in {"self-test", "python"} => AllRight
  /\ exit = "zero" /\ transport = "http" => AllTolerated
  /\ exit = "one" => ~ AllTolerated

\* Over HTTP no answer aborts the run: a vector that errs is a vector that
\* failed.  What still raises is raised before the first vector is sent or
\* after the last was scored (signing, writing).
HttpAlwaysReports ==
  transport = "http" /\ exit = "raised" =>
    \/ answers["state"] = <<>>
    \/ \A s \in Sets : passed[s] + failed[s] = VectorCount[s]

\* A certificate is written by an invocation that exits with its verdict; an
\* invocation that raises writes none.
CertificateMatchesExit ==
  [][certs' # certs =>
       \E c \in certs' \ certs : exit' = IF CertPassed(c) THEN "zero" ELSE "one"]_vars

\* Whatever is answered and whatever fails, a turn of an invocation leaves it
\* fewer turns to take: no loop runs a vector twice, or past its set, and none
\* starts over.  Whether the implementation under test ever answers is not the
\* harness's to say: a Python target is called without any time-out.
Unanswered(s) == VectorCount[s] - Len(answers[s])
TurnsLeft ==
  IF phase = "done" THEN 0
  ELSE 1 + Unanswered("state") + Unanswered("illegal") + Unanswered("view_bond")

EveryTurnCounts == [][Harness => TurnsLeft' \in Nat /\ TurnsLeft' < TurnsLeft]_vars
=============================================================================
