-------------------------- MODULE EventStoreProofs --------------------------
(***************************************************************************)
(* The safety of the event store, for any number of jobs and readers and   *)
(* logs of any length, on the theorem of ArsStateProofs about replay.      *)
(***************************************************************************)
EXTENDS EventStore, ArsStateProofs

(***************************************************************************)
(* The inductive invariant.  That stored logs replay is not inductive by   *)
(* itself: an append is judged by the state its log replays to, and only   *)
(* the order of the whole log says which state that is.                    *)
(***************************************************************************)
LogsAreLegal ==
  \A j \in JobIds : logs[j] # <<>> => LegalLog(logs[j]) /\ logs[j][1].jobId = j

IInv == TypeOK /\ LogsAreLegal

\* A stored log replays to a job of its own id, in the state its last event
\* leads to; a job with no log is the null job.
LEMMA CurrentJob ==
  ASSUME IInv, NEW j \in JobIds
  PROVE  /\ logs[j] \in Seq(ArsEvent)
         /\ logs[j] = <<>> => Current(j) = NoJob
         /\ logs[j] # <<>> =>
              /\ Current(j) = Replay(logs[j])
              /\ Current(j) \in Job
              /\ Current(j).jobId = j
              /\ Current(j).state = StateAfter(logs[j][Len(logs[j])])
PROOF
  <1>1. logs[j] \in Seq(ArsEvent)  BY DEF IInv, TypeOK
  <1>. QED
    BY <1>1, ReplayAcceptsLegalLogs DEF IInv, LogsAreLegal, Current, JobOf

\* A legal log stays legal under an event append accepts, and the longer log
\* replays to the current job with the event applied.
LEMMA AcceptedIsLegal ==
  ASSUME IInv, NEW event \in ArsEvent, Accepts(event)
  PROVE  LET log == Append(logs[event.jobId], event)
         IN  /\ LegalLog(log) /\ log[1].jobId = event.jobId
             /\ Replay(log) = ApplyEvent(Current(event.jobId), event)
             /\ Replay(log) \in Job
PROOF
  <1>. DEFINE old == logs[event.jobId]
  <1>1. event.jobId \in JobIds  BY EventTypes
  <1>2. old \in Seq(ArsEvent)  BY <1>1, CurrentJob
  <1>3. old # <<>> => LegalLog(old) /\ old[1].jobId = event.jobId
    BY <1>1 DEF IInv, LogsAreLegal
  <1>4. Current(event.jobId) = IF old = <<>> THEN NoJob ELSE Replay(old)
    BY DEF Current, JobOf
  <1>5. Step(event)[Current(event.jobId)] # Illegal
    BY DEF Accepts
  <1>. HIDE DEF old
  <1>6. LET log == Append(old, event)
        IN  /\ LegalLog(log) /\ log[1].jobId = event.jobId
            /\ Replay(log) = ApplyEvent(Current(event.jobId), event)
            /\ Replay(log) \in Job
    BY <1>2, <1>3, <1>4, <1>5, LegalAppend
  <1>. QED  BY <1>6 DEF old

LEMMA InitIInv == Init => IInv
PROOF
  BY DEF Init, IInv, TypeOK, LogsAreLegal

LEMMA NextIInv == IInv /\ [Next]_vars => IInv'
PROOF
  <1>. SUFFICES ASSUME IInv, [Next]_vars PROVE IInv'
    OBVIOUS
  <1>1. ASSUME NEW event \in ArsEvent, AppendEvent(event) PROVE IInv'
    <2>. DEFINE log == Append(logs[event.jobId], event)
    <2>1. event.jobId \in JobIds /\ log \in Seq(ArsEvent)
      BY EventTypes, CurrentJob
    <2>2. LegalLog(log) /\ log[1].jobId = event.jobId
      BY <1>1, AcceptedIsLegal DEF AppendEvent
    <2>3. logs' = [logs EXCEPT ![event.jobId] = log] /\ seen' = seen
      BY <1>1 DEF AppendEvent
    <2>. HIDE DEF log
    <2>4. TypeOK'  BY <2>1, <2>3 DEF IInv, TypeOK
    <2>5. LogsAreLegal'
      <3>. SUFFICES ASSUME NEW j \in JobIds, logs'[j] # <<>>
                    PROVE  LegalLog(logs'[j]) /\ logs'[j][1].jobId = j
        BY DEF LogsAreLegal
      <3>1. logs'[j] = IF j = event.jobId THEN log ELSE logs[j]
        BY <2>3 DEF IInv, TypeOK
      <3>. QED  BY <2>2, <3>1 DEF IInv, LogsAreLegal
    <2>. QED  BY <2>4, <2>5 DEF IInv
  <1>2. ASSUME NEW event \in ArsEvent, RejectEvent(event) PROVE IInv'
    BY <1>2 DEF RejectEvent, vars, IInv, TypeOK, LogsAreLegal
  <1>3. ASSUME NEW r \in Readers, NEW j \in JobIds, ReadJob(r, j) PROVE IInv'
    <2>1. Current(j) \in Job \cup {NoJob}  BY CurrentJob
    <2>2. TypeOK'  BY <1>3, <2>1 DEF ReadJob, IInv, TypeOK
    <2>. QED  BY <1>3, <2>2 DEF ReadJob, IInv, LogsAreLegal
  <1>4. ASSUME UNCHANGED vars PROVE IInv'
    BY <1>4 DEF vars, IInv, TypeOK, LogsAreLegal
  <1>. QED  BY <1>1, <1>2, <1>3, <1>4 DEF Next, Serve

LEMMA SpecIInv == Spec => []IInv
PROOF
  BY InitIInv, NextIInv, PTL DEF Spec

\* The store keeps a sequence of typed events per job, and hands out jobs.
THEOREM SpecTypeOK == Spec => []TypeOK
PROOF
  <1>1. IInv => TypeOK  BY DEF IInv
  <1>. QED  BY <1>1, SpecIInv, PTL

\* Every stored log is a sentence of the lifecycle grammar.
THEOREM SpecStoredLogsAreLegal == Spec => []StoredLogsAreLegal
PROOF
  <1>1. IInv => StoredLogsAreLegal
    BY DEF IInv, LogsAreLegal, StoredLogsAreLegal, KnownJobs
  <1>. QED  BY <1>1, SpecIInv, PTL

\* The promise of store.ts: a stored log always replays into a valid job.
THEOREM SpecStoredLogsReplay == Spec => []StoredLogsReplay
PROOF
  <1>1. IInv => StoredLogsReplay
    BY CurrentJob DEF StoredLogsReplay, KnownJobs
  <1>. QED  BY <1>1, SpecIInv, PTL

-----------------------------------------------------------------------------
(***************************************************************************)
(* Readers.  What job() returned stays the replay of a prefix of the log,  *)
(* because an append only ever extends it.                                 *)
(***************************************************************************)
LEMMA PrefixOfAppend ==
  ASSUME NEW S, NEW log \in Seq(S), NEW event \in S, NEW n \in 1 .. Len(log)
  PROVE  SubSeq(Append(log, event), 1, n) = SubSeq(log, 1, n)
PROOF
  OBVIOUS

LEMMA NextSeenIsHistory ==
  IInv /\ SeenIsHistory /\ [Next]_vars => SeenIsHistory'
PROOF
  <1>. SUFFICES ASSUME IInv, SeenIsHistory, [Next]_vars PROVE SeenIsHistory'
    OBVIOUS
  <1>1. ASSUME NEW event \in ArsEvent, AppendEvent(event) PROVE SeenIsHistory'
    <2>. SUFFICES ASSUME NEW r \in Readers, seen'[r] # NoJob
                  PROVE  \E n \in 1 .. Len(logs'[seen'[r].jobId]) :
                           Replay(SubSeq(logs'[seen'[r].jobId], 1, n)) = seen'[r]
      BY DEF SeenIsHistory
    <2>. DEFINE j == seen[r].jobId
    <2>1. seen' = seen /\ logs' = [logs EXCEPT ![event.jobId] = Append(@, event)]
      BY <1>1 DEF AppendEvent
    <2>2. seen[r] \in Job /\ j \in JobIds
      BY <2>1 DEF IInv, TypeOK, Job
    <2>3. PICK n \in 1 .. Len(logs[j]) : Replay(SubSeq(logs[j], 1, n)) = seen[r]
      BY <2>1 DEF SeenIsHistory
    <2>4. logs[j] \in Seq(ArsEvent)  BY <2>2, CurrentJob
    <2>5. \/ logs'[j] = logs[j]
          \/ logs'[j] = Append(logs[j], event)
      BY <2>1, <2>2 DEF IInv, TypeOK
    <2>6. n \in 1 .. Len(logs'[j]) /\ SubSeq(logs'[j], 1, n) = SubSeq(logs[j], 1, n)
      BY <2>4, <2>5, PrefixOfAppend
    <2>. QED  BY <2>1, <2>3, <2>6
  <1>2. ASSUME NEW r \in Readers, NEW j \in JobIds, ReadJob(r, j)
        PROVE  SeenIsHistory'
    <2>. SUFFICES ASSUME NEW q \in Readers, seen'[q] # NoJob
                  PROVE  \E n \in 1 .. Len(logs'[seen'[q].jobId]) :
                           Replay(SubSeq(logs'[seen'[q].jobId], 1, n)) = seen'[q]
      BY DEF SeenIsHistory
    <2>1. logs' = logs /\ seen'[q] = IF q = r THEN Current(j) ELSE seen[q]
      BY <1>2 DEF ReadJob, IInv, TypeOK
    <2>2. CASE q = r
      <3>1. /\ logs[j] \in Seq(ArsEvent) /\ logs[j] # <<>>
            /\ Current(j) = Replay(logs[j]) /\ Current(j).jobId = j
        BY <2>1, <2>2, CurrentJob
      <3>2. SubSeq(logs[j], 1, Len(logs[j])) = logs[j] /\ Len(logs[j]) \in 1 .. Len(logs[j])
        BY <3>1, SubSeqFull
      <3>. QED  BY <2>1, <2>2, <3>1, <3>2
    <2>3. CASE q # r
      BY <2>1, <2>3 DEF SeenIsHistory
    <2>. QED  BY <2>2, <2>3
  <1>3. ASSUME UNCHANGED vars PROVE SeenIsHistory'
    BY <1>3 DEF vars, SeenIsHistory
  <1>. QED
    BY <1>1, <1>2, <1>3 DEF Next, Serve, RejectEvent

\* However many appends came after a read, what was read is a past state of
\* the job and not a mixture of two.
THEOREM SpecSeenIsHistory == Spec => []SeenIsHistory
PROOF
  <1>1. Init => SeenIsHistory  BY DEF Init, SeenIsHistory
  <1>. QED  BY <1>1, SpecIInv, NextSeenIsHistory, PTL DEF Spec

-----------------------------------------------------------------------------
(***************************************************************************)
(* The store implements the lifecycle.                                     *)
(***************************************************************************)
\* An accepted append applies its event to the current job, and only there.
LEMMA AppendApplies ==
  ASSUME IInv, NEW event \in ArsEvent, AppendEvent(event)
  PROVE  /\ event.jobId \in JobIds
         /\ Current(event.jobId)' = ApplyEvent(Current(event.jobId), event)
         /\ Current(event.jobId)' \in Job
         /\ \A j \in JobIds \ {event.jobId} : Current(j)' = Current(j)
PROOF
  <1>. DEFINE id == event.jobId
              old == logs[id]
              log == Append(old, event)
  <1>1. id \in JobIds /\ old \in Seq(ArsEvent)
    BY EventTypes, CurrentJob
  <1>2. logs' = [logs EXCEPT ![id] = log]
    BY DEF AppendEvent
  <1>3. /\ log \in Seq(ArsEvent) /\ log # <<>>
        /\ Len(log) = Len(old) + 1 /\ Len(old) \in Nat
    <2>. HIDE DEF old, id
    <2>. QED  BY <1>1
  <1>4. /\ Replay(log) = ApplyEvent(Current(id), event)
        /\ Replay(log) \in Job
    BY AcceptedIsLegal DEF AppendEvent
  <1>5. Current(id)' = Replay(log)
    <2>. HIDE DEF log
    <2>. QED  BY <1>1, <1>2, <1>3 DEF Current, JobOf, IInv, TypeOK
  <1>6. \A j \in JobIds \ {id} : Current(j)' = Current(j)
    BY <1>2 DEF Current, IInv, TypeOK
  <1>. QED  BY <1>1, <1>4, <1>5, <1>6

\* The transition an accepted event stands for.
LEMMA AppendMoves ==
  ASSUME IInv, NEW event \in ArsEvent, AppendEvent(event)
  PROVE  L!Next
PROOF
  <1>. DEFINE id == event.jobId
              old == Current(id)
              new == Current(id)'
              stage == [j \in JobIds |-> StageOf(Current(j))]
              released == [j \in JobIds |-> ReleasedOf(Current(j))]
  <1>1. /\ id \in JobIds /\ new = ApplyEvent(old, event) /\ new \in Job
        /\ \A j \in JobIds \ {id} : Current(j)' = Current(j)
    BY AppendApplies
  <1>2. /\ stage' = [stage EXCEPT ![id] = new.state]
        /\ released' = [released EXCEPT ![id] = new.releasedAtomic]
    BY <1>1, NoJobAssumption DEF StageOf, ReleasedOf
  <1>3. stage[id] = StageOf(old) /\ released[id] = ReleasedOf(old)
    BY <1>1
  <1>4. CASE logs[id] = <<>>
    <2>1. old = NoJob  BY <1>1, <1>4, CurrentJob
    <2>2. new = OpenedJob(event)
      BY <1>1, <2>1, ApplyFirst, NoJobAssumption
    <2>3. new.state = "AWAIT_UNDERWRITING" /\ new.releasedAtomic = 0
      BY <2>2 DEF OpenedJob
    <2>4. stage[id] = "NONE" /\ released[id] = 0
      BY <1>3, <2>1 DEF StageOf, ReleasedOf
    <2>5. released' = released
      <3>1. released' = [released EXCEPT ![id] = released[id]]
        BY <1>2, <2>3, <2>4
      <3>. QED  BY <3>1
    <2>6. L!Open(id)
      BY <1>2, <2>3, <2>4, <2>5 DEF L!Open, L!Move
    <2>. QED  BY <1>1, <2>6 DEF L!Next
  <1>5. CASE logs[id] # <<>>
    <2>. DEFINE previous == logs[id][Len(logs[id])]
    <2>1. previous \in ArsEvent
      BY <1>1, <1>5, CurrentJob, EmptySeq, LenProperties, ElementOfSeq
    <2>2. old \in Job /\ old.state = StateAfter(previous)
      BY <1>1, <1>5, CurrentJob
    <2>3. /\ event.type # "JobOpened" /\ old.jobId = event.jobId
          /\ ~ IsTerminal(old.state) /\ old.state \in AllowedIn[event.type]
      <3>. HIDE DEF previous, old
      <3>. QED  BY <1>1, <2>1, <2>2, ApplyNext, NoJobAssumption DEF old
    <2>4. new.state = Target(event) /\ new.releasedAtomic = ReleasedWith(old, event)
      <3>. HIDE DEF old, new
      <3>. QED  BY <1>1, <2>2, <2>3, ApplyAccepted
    <2>5. stage[id] = old.state /\ released[id] = old.releasedAtomic
      BY <1>3, <2>2, NoJobAssumption DEF StageOf, ReleasedOf
    <2>6. old.releasedAtomic \in Nat  BY <2>2 DEF Job
    <2>7. CASE event.type = "PrincipalReleased"
      <3>1. event.amountAtomic \in Amounts
        BY <2>7 DEF ArsEvent, JobOpened, UnderwritingStarted, UnderwritingDecided,
              PrincipalReleased, EvidenceSubmitted, Disputed, Closed, Of
      <3>2. old.state \in {"RELEASABLE", "EXECUTING"} /\ new.state = "EXECUTING"
        <4>. HIDE DEF old, new
        <4>. QED  BY <2>3, <2>4, <2>7 DEF AllowedIn, DrawStates, Target
      <3>3. new.releasedAtomic = released[id] + event.amountAtomic
        <4>. HIDE DEF old, new, released
        <4>. QED  BY <2>4, <2>5, <2>7 DEF ReleasedWith, AmountOf
      <3>4. /\ stage[id] \in {"RELEASABLE", "EXECUTING"}
            /\ stage' = [stage EXCEPT ![id] = "EXECUTING"]
        BY <1>2, <2>5, <3>2
      <3>5. released' = [released EXCEPT ![id] = released[id] + event.amountAtomic]
        BY <1>2, <3>3
      <3>6. L!Release(id)
        BY <3>1, <3>4, <3>5 DEF L!Release, L!Move
      <3>. QED  BY <1>1, <3>6 DEF L!Next
    <2>8. CASE event.type # "PrincipalReleased"
      <3>1. new.releasedAtomic = released[id]
        <4>. HIDE DEF old, new, released
        <4>. QED  BY <2>4, <2>5, <2>6, <2>8 DEF ReleasedWith, AmountOf
      <3>2. released' = released
        <4>1. released' = [released EXCEPT ![id] = released[id]]
          BY <1>2, <3>1
        <4>. QED  BY <4>1
      <3>3. stage[id] \in AllowedIn[event.type]
        BY <2>3, <2>5
      <3>4. stage' = [stage EXCEPT ![id] = Target(event)]
        BY <1>2, <2>4
      <3>5. CASE event.type = "UnderwritingStarted"
        <4>1. L!Review(id)
          BY <3>2, <3>3, <3>4, <3>5 DEF L!Review, L!Move, Target, AllowedIn
        <4>. QED  BY <1>1, <4>1 DEF L!Next
      <3>6. CASE event.type = "UnderwritingDecided"
        <4>1. Target(event) \in {"RELEASABLE", "REJECTED"}
          BY <3>6 DEF Target
        <4>2. L!Move(id, {"UNDERWRITING"}, Target(event))
          BY <3>3, <3>4, <3>6 DEF L!Move, AllowedIn
        <4>3. \E verdict \in {"RELEASABLE", "REJECTED"} :
                L!Move(id, {"UNDERWRITING"}, verdict)
          BY <4>1, <4>2, Zenon
        <4>4. L!Decide(id)
          BY <3>2, <4>3 DEF L!Decide
        <4>. QED  BY <1>1, <4>4 DEF L!Next
      <3>7. CASE event.type = "EvidenceSubmitted"
        <4>1. L!Submit(id)
          BY <3>2, <3>3, <3>4, <3>7 DEF L!Submit, L!Move, Target, AllowedIn
        <4>. QED  BY <1>1, <4>1 DEF L!Next
      <3>8. CASE event.type = "Disputed"
        <4>1. L!Dispute(id)
          BY <3>2, <3>3, <3>4, <3>8 DEF L!Dispute, L!Move, Target, AllowedIn
        <4>. QED  BY <1>1, <4>1 DEF L!Next
      <3>9. CASE event.type = "Closed"
        <4>1. L!Close(id)
          BY <3>2, <3>3, <3>4, <3>9 DEF L!Close, L!Move, Target, AllowedIn, CloseStates
        <4>. QED  BY <1>1, <4>1 DEF L!Next
      <3>. QED
        BY <2>3, <2>8, <3>5, <3>6, <3>7, <3>8, <3>9, EventTypes DEF ArsEventTypes
    <2>. QED  BY <2>7, <2>8
  <1>. QED  BY <1>4, <1>5

\* The store, seen as one stage and one sum per job, is the lifecycle.
THEOREM SpecImplementsLifecycle == Spec => ImplementsLifecycle
PROOF
  <1>1. Init => L!Init
    BY DEF Init, L!Init, StageOf, ReleasedOf, Current, JobOf
  <1>2. IInv /\ [Next]_vars => [L!Next]_(L!vars)
    <2>. SUFFICES ASSUME IInv, [Next]_vars PROVE L!Next \/ UNCHANGED L!vars
      OBVIOUS
    <2>1. ASSUME NEW event \in ArsEvent, AppendEvent(event) PROVE L!Next
      BY <2>1, AppendMoves
    <2>2. ASSUME logs' = logs PROVE UNCHANGED L!vars
      BY <2>2 DEF L!vars, Current
    <2>. QED  BY <2>1, <2>2 DEF Next, Serve, RejectEvent, ReadJob, vars
  <1>. QED  BY <1>1, <1>2, SpecIInv, PTL DEF Spec, ImplementsLifecycle, L!Spec

-----------------------------------------------------------------------------
(***************************************************************************)
(* The released sum.  Sums(log) is a recursion over the log; it is shown   *)
(* to exist and to extend by one event, as Fold was.                       *)
(***************************************************************************)
LEMMA SumsDef ==
  ASSUME NEW S, NEW log \in Seq(S)
  PROVE  Sums(log) = [n \in 0 .. Len(log) |->
                        IF n = 0 THEN 0 ELSE Sums(log)[n - 1] + AmountOf(log[n])]
PROOF
  <1>. DEFINE Eq(g, m) ==
                g = [n \in 0 .. m |-> IF n = 0 THEN 0 ELSE g[n - 1] + AmountOf(log[n])]
              Good == {m \in Nat : \E g : Eq(g, m)}
  <1>1. 0 \in Good
    <2>1. Eq([n \in 0 .. 0 |-> 0], 0)
      OBVIOUS
    <2>. QED  BY <2>1
  <1>2. ASSUME NEW m \in Nat, m \in Good
        PROVE  m + 1 \in Good
    <2>1. PICK g : Eq(g, m)  BY <1>2
    <2>. DEFINE h == [n \in 0 .. m + 1 |->
                        IF n = m + 1 THEN g[m] + AmountOf(log[m + 1]) ELSE g[n]]
    <2>2. \A n \in 0 .. m + 1 :
            h[n] = IF n = 0 THEN 0 ELSE h[n - 1] + AmountOf(log[n])
      <3>. TAKE n \in 0 .. m + 1
      <3>1. CASE n = 0  BY <2>1, <3>1
      <3>2. CASE n = m + 1
        <4>1. h[n] = g[m] + AmountOf(log[n])  BY <3>2
        <4>2. h[n - 1] = g[m]  BY <3>2
        <4>. QED  BY <4>1, <4>2, <3>2
      <3>3. CASE n \in 1 .. m
        <4>1. h[n] = g[n] /\ h[n - 1] = g[n - 1]  BY <3>3
        <4>2. g[n] = g[n - 1] + AmountOf(log[n])
          <5>. HIDE DEF h
          <5>. QED BY <2>1, <3>3
        <4>. HIDE DEF h
        <4>. QED  BY <4>1, <4>2, <3>3
      <3>. QED  BY <3>1, <3>2, <3>3
    <2>3. Eq(h, m + 1)  BY <2>2
    <2>. HIDE DEF h, Eq
    <2>4. \E f : Eq(f, m + 1)  BY <2>3
    <2>. QED  BY <2>4
  <1>3. Nat \subseteq Good
    <2>. HIDE DEF Good
    <2>. QED  BY <1>1, <1>2, SetInduction
  <1>4. \E g : Eq(g, Len(log))
    BY <1>3, LenProperties
  <1>. QED  BY <1>4 DEF Sums

LEMMA SumsSteps ==
  ASSUME NEW S, NEW log \in Seq(S)
  PROVE  /\ Sums(log)[0] = 0
         /\ \A n \in 1 .. Len(log) :
              Sums(log)[n] = Sums(log)[n - 1] + AmountOf(log[n])
PROOF
  <1>. DEFINE f == Sums(log)
  <1>1. Len(log) \in Nat  BY LenProperties
  <1>2. f = [n \in 0 .. Len(log) |-> IF n = 0 THEN 0 ELSE f[n - 1] + AmountOf(log[n])]
    BY SumsDef
  <1>. HIDE DEF f
  <1>3. f[0] = 0  BY <1>1, <1>2
  <1>4. \A n \in 1 .. Len(log) : f[n] = f[n - 1] + AmountOf(log[n])
    BY <1>1, <1>2
  <1>. QED  BY <1>3, <1>4 DEF f

\* The total of a log grows by the amount of the event appended to it.
LEMMA TotalAppend ==
  ASSUME NEW log \in Seq(ArsEvent), NEW event \in ArsEvent
  PROVE  TotalReleased(Append(log, event)) = TotalReleased(log) + AmountOf(event)
PROOF
  <1>. DEFINE longer == Append(log, event)
  <1>1. /\ longer \in Seq(ArsEvent) /\ Len(log) \in Nat
        /\ Len(longer) = Len(log) + 1 /\ longer[Len(log) + 1] = event
        /\ \A n \in 1 .. Len(log) : longer[n] = log[n]
    OBVIOUS
  <1>. HIDE DEF longer
  <1>. DEFINE Good == {n \in Nat : n <= Len(log) => Sums(longer)[n] = Sums(log)[n]}
  <1>2. 0 \in Good  BY <1>1, SumsSteps
  <1>3. ASSUME NEW n \in Nat, n \in Good
        PROVE  n + 1 \in Good
    <2>. SUFFICES ASSUME n + 1 <= Len(log)
                  PROVE  Sums(longer)[n + 1] = Sums(log)[n + 1]
      OBVIOUS
    <2>1. Sums(longer)[n] = Sums(log)[n]  BY <1>1, <1>3
    <2>2. n + 1 \in 1 .. Len(log) /\ n + 1 \in 1 .. Len(longer) /\ (n + 1) - 1 = n
      BY <1>1
    <2>3. Sums(longer)[n + 1] = Sums(longer)[n] + AmountOf(longer[n + 1])
      BY <1>1, <2>2, SumsSteps
    <2>4. Sums(log)[n + 1] = Sums(log)[n] + AmountOf(log[n + 1])
      BY <2>2, SumsSteps
    <2>. QED  BY <1>1, <2>1, <2>2, <2>3, <2>4
  <1>4. Nat \subseteq Good
    <2>. HIDE DEF Good
    <2>. QED  BY <1>2, <1>3, SetInduction
  <1>5. Sums(longer)[Len(log)] = Sums(log)[Len(log)]
    BY <1>1, <1>4
  <1>6. Sums(longer)[Len(log) + 1] = Sums(longer)[Len(log)] + AmountOf(event)
    <2>1. Len(log) + 1 \in 1 .. Len(longer) /\ (Len(log) + 1) - 1 = Len(log)
      BY <1>1
    <2>. QED  BY <1>1, <2>1, SumsSteps
  <1>. QED  BY <1>1, <1>5, <1>6 DEF longer, TotalReleased

LEMMA NextReleasedIsLogged ==
  IInv /\ ReleasedIsLogged /\ [Next]_vars => ReleasedIsLogged'
PROOF
  <1>. SUFFICES ASSUME IInv, ReleasedIsLogged, [Next]_vars PROVE ReleasedIsLogged'
    OBVIOUS
  <1>1. ASSUME NEW event \in ArsEvent, AppendEvent(event) PROVE ReleasedIsLogged'
    <2>. DEFINE id == event.jobId
    <2>1. /\ id \in JobIds
          /\ Current(id)' = ApplyEvent(Current(id), event) /\ Current(id)' \in Job
          /\ \A j \in JobIds \ {id} : Current(j)' = Current(j)
      BY <1>1, AppendApplies
    <2>2. logs' = [logs EXCEPT ![id] = Append(logs[id], event)]
      BY <1>1 DEF AppendEvent
    <2>3. ASSUME NEW j \in JobIds \ {id}, logs'[j] # <<>>
          PROVE  Current(j)'.releasedAtomic = TotalReleased(logs'[j])
      <3>1. logs'[j] = logs[j]  BY <2>2, <2>3 DEF IInv, TypeOK
      <3>. QED  BY <2>1, <2>3, <3>1 DEF ReleasedIsLogged, KnownJobs
    <2>4. Current(id)'.releasedAtomic = TotalReleased(logs'[id])
      <3>1. /\ logs[id] \in Seq(ArsEvent)
            /\ logs'[id] = Append(logs[id], event)
        BY <2>1, <2>2, CurrentJob DEF IInv, TypeOK
      <3>2. TotalReleased(logs'[id]) = TotalReleased(logs[id]) + AmountOf(event)
        BY <3>1, TotalAppend
      <3>3. CASE logs[id] = <<>>
        <4>1. Current(id) = NoJob  BY <2>1, <3>3, CurrentJob
        <4>2. event.type = "JobOpened" /\ Current(id)' = OpenedJob(event)
          BY <2>1, <4>1, ApplyFirst, NoJobAssumption
        <4>3. Current(id)'.releasedAtomic = 0 /\ AmountOf(event) = 0
          BY <4>2 DEF OpenedJob, AmountOf
        <4>4. TotalReleased(logs[id]) = 0
          BY <3>1, <3>3, SumsSteps DEF TotalReleased
        <4>. QED  BY <3>2, <4>3, <4>4
      <3>4. CASE logs[id] # <<>>
        <4>1. Current(id) \in Job /\ Current(id).jobId = id
          BY <2>1, <3>4, CurrentJob
        <4>2. Current(id).releasedAtomic = TotalReleased(logs[id])
          BY <2>1, <3>4 DEF ReleasedIsLogged, KnownJobs
        <4>3. event.type # "JobOpened"
          BY <2>1, <4>1, NoJobAssumption DEF ApplyEvent
        <4>4. Current(id)'.releasedAtomic = Current(id).releasedAtomic + AmountOf(event)
          <5>. DEFINE previous == logs[id][Len(logs[id])]
                      old == Current(id)
          <5>1. previous \in ArsEvent
            BY <3>1, <3>4, EmptySeq, LenProperties, ElementOfSeq
          <5>2. old.state = StateAfter(previous)
            BY <2>1, <3>4, CurrentJob
          <5>3. ApplyEvent(old, event) # Illegal
            BY <2>1, NoJobAssumption
          <5>4. old \in Job  BY <4>1
          <5>5. /\ ~ IsTerminal(old.state) /\ old.jobId = event.jobId
                /\ old.state \in AllowedIn[event.type]
            <6>. HIDE DEF previous, old
            <6>. QED  BY <5>1, <5>2, <5>3, <5>4, ApplyNext
          <5>6. ApplyEvent(old, event).releasedAtomic = ReleasedWith(old, event)
            <6>. HIDE DEF old
            <6>. QED  BY <4>3, <5>4, <5>5, ApplyAccepted
          <5>. QED  BY <2>1, <5>6 DEF ReleasedWith
        <4>. QED  BY <3>2, <4>2, <4>4
      <3>. QED  BY <3>3, <3>4
    <2>. QED  BY <2>3, <2>4 DEF ReleasedIsLogged, KnownJobs
  <1>2. ASSUME UNCHANGED logs PROVE ReleasedIsLogged'
    BY <1>2 DEF ReleasedIsLogged, KnownJobs, Current
  <1>. QED
    BY <1>1, <1>2 DEF Next, Serve, RejectEvent, ReadJob, vars

\* The principal a job reports is the sum of the draws in its log, for logs
\* of any length.
THEOREM SpecReleasedIsLogged == Spec => []ReleasedIsLogged
PROOF
  <1>1. Init => ReleasedIsLogged  BY DEF Init, ReleasedIsLogged, KnownJobs
  <1>. QED  BY <1>1, SpecIInv, NextReleasedIsLogged, PTL DEF Spec
=============================================================================
