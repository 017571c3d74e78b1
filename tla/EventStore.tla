----------------------------- MODULE EventStore -----------------------------
(***************************************************************************)
(* InMemoryEventStore of src/store.ts: one append-only log per job, every  *)
(* append validated by replaying the log it extends.                       *)
(*                                                                         *)
(* append() has no await between the replay and the Map.set, so it is one  *)
(* step.  job() hands its caller a value that the caller goes on using     *)
(* while others append: seen[r] is what reader r was last given.           *)
(***************************************************************************)
EXTENDS ArsState

CONSTANTS Readers,  \* callers that hold on to what job() returned
          MaxLog    \* bound on the length of one job's log

ASSUME MaxLogAssumption == MaxLog \in Nat

VARIABLES logs,     \* logs[j]: the Map's entry for j, <<>> when it has none
          seen      \* seen[r]: the job reader r holds

vars == <<logs, seen>>

\* What append() computes before it validates, and what job() answers.
JobOf(log) == IF log = <<>> THEN NoJob ELSE Replay(log)
Current(j) == JobOf(logs[j])

\* Neither the replay of the stored log nor applyEvent throws.
AcceptsUntilTerminal(event) ==
  LET job == Current(event.jobId) IN job \in Job => ~ IsTerminal(job.state)
Accepts(event) == Step(event)[Current(event.jobId)] # Illegal

Init ==
  /\ logs = [j \in JobIds |-> <<>>]
  /\ seen = [r \in Readers |-> NoJob]

\* append(event), when it does not throw.
AppendNested(event) ==
  /\ Len(logs[event.jobId]) < MaxLog
  /\ Accepts(event)
  /\ logs' = [logs EXCEPT ![event.jobId] = <<@, event>>]
  /\ UNCHANGED seen
AppendReplacing(event) ==
  /\ Len(logs[event.jobId]) < MaxLog
  /\ Accepts(event)
  /\ logs' = [logs EXCEPT ![event.jobId] = <<event>>]
  /\ UNCHANGED seen
AppendEvent(event) ==
  /\ Len(logs[event.jobId]) < MaxLog
  /\ Accepts(event)
  /\ logs' = [logs EXCEPT ![event.jobId] = Append(@, event)]
  /\ UNCHANGED seen

\* append(event), when it throws: "the log is left untouched".
RejectEvent(event) ==
  /\ ~ Accepts(event)
  /\ UNCHANGED vars

\* reader r calls job(j) and keeps the answer.  When the replay throws the
\* call rejects and r keeps what it had.
ReadJob(r, j) ==
  /\ Current(j) # Illegal
  /\ seen' = [seen EXCEPT ![r] = Current(j)]
  /\ UNCHANGED logs

\* jobIds(): the keys of the Map.
KnownJobs == {j \in JobIds : logs[j] # <<>>}

Serve(events) ==
  \/ \E event \in events : AppendEvent(event)
  \/ \E event \in events : RejectEvent(event)
  \/ \E r \in Readers, j \in JobIds : ReadJob(r, j)

\* Typed callers hand in members of the ArsEvent union.
Next == Serve(ArsEvent)
Spec == Init /\ [][Next]_vars

\* Callers that pass on events the type checker never saw.
UntypedNext == Serve(ArsEvent \cup ForeignEvent)
UntypedSpec == Init /\ [][UntypedNext]_vars

-----------------------------------------------------------------------------
(***************************************************************************)
(* Properties                                                              *)
(***************************************************************************)
\* logs and seen keep their shape.
TypeOK ==
  /\ logs \in [JobIds -> Seq(ArsEvent)]
  /\ seen \in [Readers -> Job \cup {NoJob}]

\* A stored log always replays into a valid job: the promise of EventStore
\* (store.ts, "so a stored log always replays into a valid job").
StoredLogsReplay ==
  \A j \in KnownJobs : Replay(logs[j]) \in Job /\ Replay(logs[j]).jobId = j

\* What append lets through is the lifecycle of the README and nothing else:
\* one opening event, no draw without a passed verdict, nothing after a close.
StoredLogsAreLegal == \A j \in KnownJobs : LegalLog(logs[j])

\* The principal a job reports is what its log released: the sum is taken
\* over the log's events, not through applyEvent.
Sums(log) ==
  LET sum[n \in 0 .. Len(log)] ==
        IF n = 0 THEN 0 ELSE sum[n - 1] + AmountOf(log[n])
  IN  sum
TotalReleased(log) == Sums(log)[Len(log)]

ReleasedIsLogged ==
  \A j \in KnownJobs : Current(j).releasedAtomic = TotalReleased(logs[j])

\* A job somebody read is never torn or invented: it is what some prefix of
\* the present log replays to, however many appends came in between.
SeenIsHistory ==
  \A r \in Readers :
    seen[r] # NoJob =>
      \E n \in 1 .. Len(logs[seen[r].jobId]) :
        Replay(SubSeq(logs[seen[r].jobId], 1, n)) = seen[r]

\* The abstract state of a job.
StageOf(job) == IF job = NoJob THEN "NONE" ELSE job.state
ReleasedOf(job) == IF job = NoJob THEN 0 ELSE job.releasedAtomic

L == INSTANCE Lifecycle WITH
       stage <- [j \in JobIds |-> StageOf(Current(j))],
       released <- [j \in JobIds |-> ReleasedOf(Current(j))]

\* The store implements the lifecycle of the README: every append moves one
\* job one stage along the diagram, reads and refused events move none.
ImplementsLifecycle == L!Spec
=============================================================================
