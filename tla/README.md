# A formal model of ARS-Solana

This directory is a TLA+ development of the ARS-Solana reference
implementation: the event-sourced principal track in TypeScript (`src/`), its
Python mirror (`python/src/telaro_ars/`), the ingestion of on-chain events, the
conformance harness, the instruction builders with the settlement clients on top
of them, and the x402 payment gate. TLC checks every model on small
instances; TLAPS proves every safety property of theirs, and both refinements, for every
instance.

## 1. The system

| Component | Code | State | Operations |
| --- | --- | --- | --- |
| Event union | `src/events.ts`, `events.py` | none | seven event types |
| State machine | `src/state.ts` | none (`Job` is derived) | `applyEvent`, `replay` |
| Python state machine | `state.py` | none | `apply_event`, `replay` |
| Event store | `src/store.ts` | a `Map` from job id to log | `append`, `log`, `job`, `jobIds` |
| Ingestion | `src/ingest.ts` | none | `toArsEvent` |
| Settlement contract, client | `src/settlement.ts`, `src/client.ts` | sender, program id | five methods that each send one transaction |
| Instruction builders | `src/binding.ts`, `binding.py`, `pda.py`, `constants.py` | none | one builder and, in Python, one intent per method |
| Python settlement, ABC | `settlement.py`, `abc.py` | a resolver | five methods, three of which raise |
| Conformance harness, CLI | `conformance.py`, `conformance_cli.py` | a report per run | `self-test`, `run`, `dump-vectors` |
| x402 gate | `x402.py` | none of its own | `apply_x402_gate`, the hosted lookup |
| Entry points | `index.ts`, `__init__.py` | none | re-exports |

How they interact. A settlement layer (outside this repository) appends the
off-chain half of a job: `JobOpened`, `UnderwritingStarted`,
`UnderwritingDecided`. It reads the job from the store and sends
`releasePrincipal` through the client. The telaro program (outside) emits
events; an indexer (outside) turns each into an ARS event with `toArsEvent`,
supplying the job id for claims and draws, and appends it. `append` validates by
replaying. The harness replays fixed logs against any implementation. The gate
reads agent profiles from a hosted indexer and answers requests of a service.

What is hard in it:

- *Ordering and repetition.* Nothing in an ARS event identifies the on-chain
  event it came from; the indexer may deliver late, twice, or without a job id,
  and the store decides from the state alone.
- *Stale reads.* `job()` hands out a value; settlement acts on it later.
- *Two implementations of one state machine*, kept equal by hand.
- *Two events for one ruling*, two claims for one action: the first to arrive
  closes the job.
- *Exceptions in the middle of a loop or a request*: the harness and the gate
  catch some and not others.
- *Profiles that change* between the request, the lookup and the decision, and
  lookups that lag behind or answer without an agent.
- *A call in flight*: a promise may reject while its transaction is on the way;
  the program sees bytes and positions, never the parameters of the call.

What makes each part correct: every stored log is a lifecycle and replays; a
job's released sum is its log's; both folds agree; whatever a log says of
evidence, verdicts and draws, the chain said; verdicts and actions arrive in
the end; a report scores every vector exactly once and its exit code is the
verdict; a pass was earned and a refusal true of what the
lookup was told; every request is answered; an
instruction that executes does what its caller asked for, to the unit, and one
that rejected cleanly moved nothing.

## 2. The modules

    Lifecycle                     the abstract specification of a store
     '- WitnessedLifecycle        of a store fed from a chain: every move has a witness
    ArsState                      events, applyEvent, replay, the grammar of logs
     |- StatePy - Parity          the Python fold; both folds on one raw log
     |- Corpus                    the event logs of the conformance corpus
     |- EventStore                append / job / jobIds; refines Lifecycle
     '- Ingest - IngestTable      toArsEvent; the table of SPEC.md
         '- JobPipeline           EventStore + toArsEvent + program, indexer, settlement;
                                  refines WitnessedLifecycle
    Conformance                   harness and CLI
    X402Gate                      gate, registry, indexer
    Binding                       builders, intents, addresses
     |- ViewBondVectors           the view_bond vectors of the conformance corpus
     '- Settlement                contract and clients over Binding, chain and program

`MC*` modules hold the constants of the runs. The theorems about a module are in
the `*Proofs` module of its name; `InductionLemmas` holds what they share:
induction, digits to a base, sums over finite sets.

**ArsState** follows `state.ts` guard by guard. `ApplyEvent(job, event)` is a
value: a `Job`, `Illegal` (it threw) or `NoJob`: the `switch` has no default, so
an event type outside the union falls through and `undefined` is returned,
which every caller takes for the null job. `Fold` is the loop of `replay`.
`LegalLog` says, without jobs, which event may follow which: the diagram of the
repository's README as a grammar. Agent, requestor and exposure are one value of
`Terms`, since every transition copies them; `actionHash` and `failureCode` are
read by nothing and left out.

**EventStore**: `logs` is the `Map`; `append` contains no `await` between
replaying and storing, so it is one step (`AppendEvent` or, throwing,
`RejectEvent`). `seen[r]` is what `job()` last gave a reader, who keeps it while
others append. `UntypedSpec` adds callers that pass on an event type the
compiler never saw, for instance out of a JSON file.

**StatePy, Parity**: `apply_event` as it is written in Python, with its final
`raise`. `Parity` feeds one raw log (any typed events, any job ids, unvalidated)
to both loops, one event at a time. **Corpus** holds the state and illegal
vectors of `conformance.py`, amounts counted in units of 500 USDC. The run
reaches each of their logs, and `CorpusReplaysAsExpected` holds both folds to
what the corpus expects of them.

**Ingest**: `toArsEvent` as a function of payload and context. `Hex` keeps a job
id apart from the hash it is the text of.

**JobPipeline**: `ledger` is what the program emitted, `delivered[n]` how often
entry `n` reached `toArsEvent`, `refused` the entries whose `append` threw,
`expired` the jobs whose dispute window is over. The program's, the indexer's
and settlement's behaviour is external and taken from what `ingest.ts`,
`events.ts` and `SPEC.md` say of them: a draw is sent for a job last seen
releasable or executing, an action is recorded once, before, between or after
the draws (nothing in the code says that the agent waits for its principal), a
claim is filed while the window is open, a ruling emits `ArbiterRuled` and
`ClaimResolved` in either order, settlement closes clean a job it read as
`EVIDENCE_SUBMITTED` after the window ended. `InOrder`, `MaxDeliveries` and
`MayMissJobId` choose the indexer, `MayActEarly` whether an action may precede
every draw. A log takes evidence of an executing job only, so that what concerns
an action and its claims is stated of jobs that drew before they acted
(`Timely`); of the others, `StateIsDelivered` says that they are left behind.

**Lifecycle, WitnessedLifecycle** are the abstract specifications. The first is the
diagram of the repository's README with the released sum, no logs and no events;
`EventStore` implements it. The second adds what the chain knows of a job (the
draws made, whether an action was recorded, a claim filed, a claim ruled paid or
unpaid) and lets a job take a step past underwriting only on such a fact: an
amount is released only if it was drawn, a dispute enters only if there is a
claim, a job closes as upheld only on a paid ruling. It knows no ledger, no
delivery and no order, so it says what the pipeline owes its reader under
every indexer; `JobPipeline` implements it (`ImplementsWitnessed`), each of its
steps being one move of one job, one new fact, or a stutter.

**Conformance**: one invocation after another, each with a command and its
options, running the three loops over arbitrary answers, then returning, issuing
a certificate, or failing to sign or write it; `dump-vectors` and a target with
no known transport run nothing. An answer is what the harness can tell apart: a
match, a mismatch, the transition error (or HTTP 400), another 4xx, any other
error. The third loop of the Python transports has no `except`, and the second
one's names whatever the target exports as `ARSTransitionError`: if that is no
exception class, catching with it raises in turn. Both are `Uncaught`. `Right`
is what the documents ask of an answer and `Tolerated` what the HTTP transport
takes for it. Subject, time and fingerprint of a certificate are left out:
nothing in the code reads them back.

**X402Gate**: requests in flight over a registry of profiles that changes. A
request is received (header decoded, payer extracted), looked up and decided.
The lookup is `Served` an agent or a 404; the indexer may also answer 200
without an agent (`ServedNoAgent`, which the gate cannot tell from a 404); or it
raises (`LookupFails`: another status, a reply that is no JSON, the time-out). A
route in `Cached` looks up in a mirror, which serves any profile the payer ever
had. A header is the point at which decoding stops, or a transaction: its
signers and which of them signed. `held[r]` records the profiles that `r` may be
served: those the payer had while it was looked up, and before, if a mirror is
asked. `empty` records who was answered without an agent.

**Binding**: the five builders and five intents of `binding.py` over the
addresses of `pda.py`. An instruction is its program, its account list with
signer and writable flags, its name (what the discriminator hashes) and its data
as a sequence of bytes, least significant first; an argument outside its width is
a `ValueError`. A derived address is its seeds and its program, so that equal
addresses have equal origins. The builders that `binding.ts` calls belong to
`@telaro/sdk`; `binding.py:15-18` says that both languages build the same bytes,
and the model gives them one definition. **ViewBondVectors** holds the
`view_bond` vectors of `conformance.py`.

**Settlement**: calls of the five methods in flight, by three clients: the
TypeScript `TelaroSettlement`, a Python caller who builds, reviews the intent and
sends, and the Python `TelaroSettlement`, which returns intents and sends
nothing (`CallDescribes`) or raises. `Call` builds the instruction and hands it
to the sender (`CallRaises` when the builder or the sender throws); `Send`,
`SendFails` are what follows the blockhash; `Resolve`, `ConfirmError`,
`ConfirmExpiry` and `LoseConfirmation` are the ways `sendAndConfirmTransaction`
ends. `tx[c]` is what the chain does with the transaction, whether or not its
sender still waits. The promise rejects in three ways a caller could tell apart
by the error: before sending, by the program, in doubt. The program (external)
takes accounts by position, derives its own addresses, reads numbers from the
data, and moves money between token accounts as `SPEC.md` section 2 says; frozen,
over-leveraged or cooling down is one flag, `barred`, that changes at any time. A
retry is another call with the same parameters. `ExecutedAsAsked` and
`RefusedForCause` are stated with the parameters of the call, never with its
instruction: encoding, account order and derivation lie between the two. A slash
rejects the claim if its Python caller asks for another action than 0, and then
moves nothing. Intents are kept as they are written, and no property is stated of
them: section 5 lists where they and the instructions differ.

Operators that nothing uses, each standing directly above a definition with the
same parameters, are plausible mistakes in that definition (`DrawnOnceOnly`,
`LastDrawOnly`, ...). Put in its place they make one property fail; this is how
each property is known to depend on the code. `PROJECT.json` pairs them.

## 3. The runs

| Run | Module, cfg | Shows |
| --- | --- | --- |
| `store` | MCEventStore, EventStore.cfg | stored logs are lifecycles and sum up; reads are history; Lifecycle is refined |
| `store_foreign_replay` | EventStore, StoreForeignReplay.cfg | *violation*: an untyped event is stored and the log no longer replays |
| `parity` | MCParity, Parity.cfg | both folds agree on every raw log, accept the grammar and give the corpus's answers |
| `pipeline_ordered` | MCJobPipeline, PipelineOrdered.cfg | with ordered delivery, what the log says of evidence, dispute and verdict is what the chain did, a job is where its delivered entries put it, and draws are refused only when late |
| `pipeline_lossy` | MCJobPipeline, PipelineLossy.cfg | what survives reordering, repetition and unresolved ids: WitnessedLifecycle is refined |
| `pipeline_live` | MCJobPipeline, PipelineLive.cfg | verdicts close jobs, actions become evidence |
| `pipeline_clean_close` | MCJobPipeline, PipelineCleanClose.cfg | *violation*: `no_dispute` on a disputed job |
| `ingest_table` | MCIngestTable, IngestTable.cfg | *violation*: events of SPEC.md's table that are not mapped |
| `conformance` | MCConformance, Conformance.cfg | no vector lost or run twice, the verdict as exact as the transport lets it be |
| `x402_gate` | MCX402Gate, X402Gate.cfg | passes earned, refusals true of what the lookup was told, requests answered |
| `settlement` | MCSettlement, Settlement.cfg | what executes is what was asked, refusals have a cause, clean rejections moved nothing, promises settle |
| `x402_total` | MCX402Gate, X402Total.cfg | *violation*: the gate raises instead of returning a result |

Bounds, and why they are enough.

- `store`: two jobs (an append must leave the other alone; job ids are
  interchangeable, hence symmetry), one reader, one amount, `MaxLog` 7: the
  longest lifecycle has seven events with one draw; shorter ones have several.
- `parity`: two job ids, two terms, amounts 0, 1 and 2, eight events; once both
  folds have thrown they stay there, so longer illegal logs add nothing.
- `pipeline_*`: one job, two claims and two draws in order (claims race claims,
  draws race the action); one of each when every entry may come twice in any
  order. `pipeline_lossy` keeps one outcome and one ruling of an arbiter: with the
  builder's own resolutions a claim still ends paid or unpaid, by either of two
  events; the other values are in `pipeline_ordered`. It also leaves out the action
  before the draw: where entries arrive in any order, a log cannot tell. That
  evidence goes to the job it was recorded for is beyond runs with one job; the
  theorem `SpecEvidenceIsOnChain` has any number. `MaxLog` is above what a job
  can accept. Status 4 stands for every
  resolved status but 1, 3 and 7: `claimStatusResolution` reads no more.
- `conformance`: two state vectors and one of each other set; `MaxRuns`
  bounds the certificates; with two, an invocation follows one that certified.
- `settlement`: two calls, of any client and method, and an arbiter: enough for
  two draws on one pool, two hands on one bond or claim, and for a call and its
  retry; the pool and the bond cover either amount and not every pair. `Base` 2
  makes a byte a binary digit: a u64 keeps its eight places and ends at 255, a
  u16 its two, so that the requests hold the first and the last number of a width
  and the one beyond; no builder and no program operator reads `Base` otherwise.
  The thresholds of `constants.py` are scaled alike (`MinBond` 1, `CreditScore`
  2). The program runs at an address other than the default of the builders, so
  an address derived under the default shows. Requests have every method in both
  languages, complete and with each default left in place, with signers missing
  and wrong, and a slash that rejects the claim.
- `x402_gate`: two requests, two accounts, one change of the registry, every
  broken header, three ways to sign, with an unsigned key before the payer's
  among them; one request looks up at the indexer, the other in a mirror;
  profiles at, below and without a threshold.

`CHECK_DEADLOCK FALSE` wherever the system may stop: all jobs closed, all
entries delivered, all requests answered, the bound of a log or of the changes
reached.

Fairness. `PipelineLive` assumes weak fairness of the indexer as a whole, in
order: an indexer that is meant to feed the store keeps doing so; the program
and settlement owe nothing. `Conformance` assumes nothing and claims no
liveness: a Python target is called without any time-out
(`conformance_cli.py:167`, `194`, `209`, `222`). What it does state is that
every turn taken is one turn less to take (`EveryTurnCounts`). `X402Gate`
assumes that a request being handled goes on: `http_profile_lookup` has
`timeout_s`, so it raises even if the indexer never comes back; the indexer
itself is under no fairness. `timeout_s` bounds the silence of a connection and
not the length of a reply, so a reply that trickles in forever is excluded here,
and a custom lookup has to return by its own means. `Settlement` assumes that an
RPC request is answered or fails, that an existing confirmation is seen, and
that the chain decides on a transaction: it goes on producing blocks, so that an
unlucky transaction outlives its blockhash. A broken connection is possible and
never assumed.

## 4. What is proved

Every theorem holds for all constants that satisfy the named assumptions, which
TLC evaluates on every run:

- amounts are naturals; `NoJob` and `Illegal` are two values outside `Job`,
  `NoId` and `NoEvent` outside job ids and events; foreign types are outside the
  union, `OtherNames` outside the events that `toArsEvent` names; bounds are
  naturals;
- the text of an action hash is a job id; there is a time, and the four status
  codes that the program's verdicts carry are status codes;
- the jobs, terms, claim and amounts of the corpus are among those of the model;
- a vector set is not empty; the gate's accounts, profiles and headers are of the
  shapes that `GateAssumption` lists;
- a byte has at least two values; calls are finitely many, their requests well
  typed, balances naturals, and `None` is no account.

None of them bounds how many jobs, claims, draws, deliveries, requests, calls,
vectors or invocations there are, or how long a log or the ledger grows.

**InductionLemmas.** The library's induction theorems take a predicate as a
parameter, which no available prover instantiates. `SetInduction`, from the
library's minimum principle `WFMin`, states induction for a set of naturals. With
it: the digits of a number to a base (`NextDigit`), and the sum of a function
over a finite set, which the community modules define by recursion over an
arbitrary choice of the next element. The sum exists (`SumIsDefined`), does not
depend on the order (`SumIsUnique`, `SumRemove`), is additive and monotonic.

**ArsStateProofs.** `Fold` is shown to be the recursion it is written as and
to extend by one event (`FoldAppend`); `ApplyEvent` of a typed event on a job
gives a job in the state of `Target`, with the amount added, or `Illegal`
exactly when the event may not follow. `ReplayAcceptsLegalLogs`: for every
typed log, `replay` throws if and only if the log is not in the grammar.

**EventStoreProofs.** The inductive invariant is: the types, every known log
is a legal log of its own job id, and every job seen is the replay of a prefix.
Legality is what makes it inductive: "the stored log replays" alone does not
say what the next append does; with the grammar, `ReplayAcceptsLegalLogs`
turns an accepted append into a longer legal log (`LegalAppend`). From it
`TypeOK`, `StoredLogsAreLegal`, `StoredLogsReplay`, `SeenIsHistory`,
`ReleasedIsLogged` (the sum over the log's events extends by one as `Fold` does)
and, step by step, `ImplementsLifecycle`: an append is one move of one job and
everything else a stutter. `StoredLogsReplay` is what `store.ts` promises; for
callers that keep to the types it follows from legality, which the run checks, and
`store_foreign_replay` shows that it needs them.

**ParityProofs.** The invariant relates both accumulators to the fold of the
log; each step of the Python fold is shown equal to the TypeScript one, guard by
guard. `ReplaysAgree` and `AcceptsExactlyLegalLogs` follow for every log, and
`CorpusReplaysAsExpected` by replaying the state vectors one event at a time
(`ReplaysTo`, `EventReplays`) and finding in each illegal vector an event that may
not stand where it stands.

**JobPipelineProofs.** Every step is first put into one of six shapes
(`NextCases`): the program emits entries that are true and have a cause; a
delivery is skipped, lands in a log or bounces off it; settlement appends or
looks. Three invariants are shown inductive over these.

- `IInv`, whatever the indexer does: logs are legal; a ledger entry says what
  happened and comes after the entry that caused it (`LedgerIsTrue`); an action
  is recorded once (`ActedOnce`); and what was once underwritten stays so
  (`SeenHasPassed`, `DrawnHasPassed`), which is all that a settlement acting on
  old reads can rely on. Stages are read off the last event of a log, and no
  append takes a job back to an earlier one (`Onwards`). It yields `TypeOK`,
  `EvidenceIsOnChain`, `ClosedOnARealVerdict` and `ReleasedWithinDeliveries`,
  the last by following both sums through each step.
- `StageWasDelivered`, whatever the indexer does: a job that has come as far as a
  draw, an action, a claim or a ruling takes it had one delivered, or was closed
  clean.
- `OrderedInv`, if entries are delivered in ledger order and every job id is
  resolved (`Ordered`): what was delivered is an initial part of the ledger, and
  a delivered draw, or a delivered action, claim or ruling of a job that drew
  before it acted, has its job at least executing, evidenced, disputed or closed
  (`DeliveredHasReached`). A draw may bounce, but only off a job that has
  evidence; a timely action, a claim or a ruling therefore never bounces off a
  job that still waits for one. If entries are delivered once, evidence is
  always of a timely action (`EvidenceInTime`): what lands as evidence finds the
  job executing, hence after a delivered draw. What a log tells of its dispute
  is then the first claim and the first verdict of the ledger (`LogsTell`): an
  entry that lands is the first of its kind to be delivered (`LandsFirst`), and
  delivery is in order. From it `VerdictFollowsDispute`, however often an entry
  is delivered, and `RefusedDrawsAreLate`, if it is delivered at most once.

One says that what a job shows was delivered, the other that what was delivered
shows; with every ruling coming after its claim (`RuledWasClaimed`) they are
`StateIsDelivered`: the state of a job that drew before it acted is a function of
what was delivered to it and of its clean close. This is the safety part
of `VerdictClosesJob` and `ActionBecomesEvidence`: the log never leaves an
entry behind, so that a verdict closes its job as soon as it is delivered, and
liveness is left with the indexer's fairness alone.

`SpecImplementsWitnessed` goes through the same six shapes. An emission adds at
most one draw or one fact about one job, and its cause is one of the facts before
it (`ToldByEmission`, `EmissionMoves`); an event that lands in a log moves its job
along `MayFollow`, and `LedgerIsTrue` gives the witness (`AppendMoves`); all else
leaves the image alone.

`DeliveredDrawsAreCounted` needs the job ids and at most one delivery of an
entry, in whatever order: the theorem is wider than the run, which delivers in
order.

**ConformanceProofs.** During a run the loops before the current one are full,
the current one is in step with the answers and the later ones are empty
(`Running`). With what is left when it ends (`Finished`) and what a certificate
was stamped with (`Stamped`), this gives the four
invariants and the action properties `CertificateMatchesExit` and `EveryTurnCounts`.
The second is a variant function: a natural number that every turn of the
harness decreases (`TurnsOfARun`), so that no invocation takes more turns than there
are vectors and one.

**X402GateProofs.** The invariant says, for each stage of a request, what the
earlier ones established (`RequestInv`): the payer is the one of its header and
its current profile is among those held, the profile decided on is one of them or
none at all after a reply without an agent, and the code is an outcome that this
header and such a profile can have. `PassWasEarned`, `RefusalWasTrue` and
`PaymentRequiredIsFinal` follow.

**SettlementProofs.** `NumberReads`: for every base and every width up to eight,
the program reads from the bytes of an integer argument the number that was
written, so encoding is injective on its range. With it, for each of the five
methods, the instruction a call built is read back as the call's parameters, and
the fate of its transaction agrees with its stage (`CallOK`); an executed slash
decided the claim for good (`Decided`), and the money moved for a method is the
sum of what its executed calls asked for (`Booked`). `TypeOK`, `ResolvedIsDone`
and `MovedWithinCalls` follow from the invariant, the action properties
`ExecutedAsAsked` and `RefusedForCause` from it and the step that executes or
refuses.

Only model-checked:

- liveness (`VerdictClosesJob`, `ActionBecomesEvidence`,
  `EveryRequestIsAnswered`, `CallsSettle`): it rests on fairness, thus on
  `ENABLED`, which the prover does not handle. The safety half of the first two
  is proved: `StateIsDelivered`;
- the four violations, which a behaviour shows and a theorem cannot.

## 5. Where the code and its documents differ

The four violation runs, each against a sentence of the repository: the promise
of `store.ts`, the meaning of `no_dispute` in `events.ts`, the event table of
`SPEC.md`, and the "discriminated `GateResult`" of `x402.py`. `PROJECT.json`
quotes them. Other differences met while modelling and not run:

- `state.py:8-11` says both folds produce an identical `Job` from the same log;
  on an event type outside the union Python raises and TypeScript goes on.
- `binding.py:8-9` calls the intents "the source of truth for account ordering",
  and `binding.py:121-122` promises the writable flags; those of `withdraw_bond` and
  `process_pool_yield` name accounts in another order than the builders, all but the
  first leave out derived accounts, three mark a signer as writable whom the
  builder does not (`binding.py:155`, `172`, `191` against `302`, `327`, `357`), and
  `release_principal_intent` lists no signer at all. What is left to promise,
  that an intent names the program and the instruction, would hold by its text.
- `binding.py:114-115` says an intent is converted by the matching builder; the
  intent has neither the parameters nor, for a premium, the source account. Its
  `release_principal` form shows `params.credit_line`, which the builder ignores
  and derives again.
- `binding.py:91` documents `underwriter` as the pool or the insurance vault, the
  receiver; without `source_ata` the builder takes it for the source
  (`binding.py:350`), and the premium always goes to the pool.
- `abc.py:64` speaks of six in-scope methods; five are declared. `__init__.py:5-6`
  says the package implements `CollateralVault`; nothing does. `settlement.py:5-6`
  promises a real `view_bond` instruction for `lock_collateral`; it returns an
  intent.
- `conformance_cli.py:62` calls a certificate a declaration that an
  implementation passes; `main` writes one for a failed run too, with the counts
  that say so.
- `conformance_cli.py:77-79` says that re-issued certificates share a
  fingerprint; it hashes the time of issue.
- `conformance_cli.py:252-253` asks for HTTP 400 on an illegal log, as
  `SPEC.md:187` asks for the transition error; any 4xx is accepted, so that a
  server without `/replay` passes the illegal set with its 404s. `VerdictIsExact` says
  of an HTTP run only what is left then.
- `conformance_cli.py:211` catches whatever a target exports under the name
  `ARSTransitionError`; if that is no exception class, the harness itself raises.
- `x402.py:280-281` says that the lookup returns `None` on 404; it does so too for
  a reply that is no object or has no `agent` (line 301), and the gate then tells a
  bonded payer, as it says at line 238, that it has no agent registered.
  `RefusalWasTrue` makes that exception.
- `settlement.ts:5` says that 6 of the 8 settlement methods map onto
  instructions of the program; its own map names instructions for five, the
  three fee methods having none.
- `x402.py:4` and `114` speak of the transfer authority; `extract_payer` returns the
  first account that signed, which is the authority only if it signs first.

Three consequences of the code that contradict no document, and that a user of it
should know. A draw delivered twice is counted twice: no event says which chain event
it came from, and `ReleasedWithinDeliveries` bounds the double count without
excluding it. With two claims on one action, a log takes the first dispute and the
first verdict, which may be of different claims: `Closed` names none. An action
recorded, and delivered, before the first draw of its job is refused for good,
and with it every claim and verdict on it; only a second delivery after the draw
could bring it in.

## 6. What is not modelled, and what comes next

Not modelled: cryptography (a signature is who signed, a discriminator and a
derived address what they are the hash of), console output, the JSON of
`as_json`, what `argparse` itself refuses, `CollateralVault` and `DepositInfo` (which
nothing implements), `score_feed_pda` (which nothing calls), re-exports. The
telaro program, the indexer, the settlement layer and the registry are modelled
only as the code in `src/` relies on them.

Left for later: composition of `Settlement` with `JobPipeline`, so that a draw
that rejected in doubt and is sent again can be followed into the log. Each half is
covered alone (`MovedWithinCalls` bounds what the retries draw,
`DeliveredDrawsAreCounted` what the log makes of the draws); together they are
beyond the reach of TLC with two calls and two draws.
