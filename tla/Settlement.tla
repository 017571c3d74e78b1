------------------------------ MODULE Settlement ------------------------------
(***************************************************************************)
(* Settlement calls in flight: the contract (abc.py, the maps of           *)
(* settlement.ts and settlement.py) and its three clients:                 *)
(*   "ts"      TelaroSettlement of client.ts, with the builders of         *)
(*             binding.ts, over a connectionSender                         *)
(*   "python"  a caller of the builders of binding.py, who sends what they *)
(*             return with a client of its own                             *)
(*   "layer"   TelaroSettlement of settlement.py, which sends nothing      *)
(*                                                                         *)
(* Outside src/: sendAndConfirmTransaction of web3.js (the Python caller's *)
(* client is taken to be like it), the chain, and the telaro program.  A   *)
(* transaction that was sent may be executed, refused by the program, or   *)
(* never be included; its sender may stop waiting for it in any of these   *)
(* cases, and a promise that rejects says nothing about what happens to    *)
(* the transaction afterwards.  The program reads an instruction from its  *)
(* data and its accounts, and from nothing else.                           *)
(***************************************************************************)
EXTENDS Binding

CONSTANTS Calls,        \* calls of the five methods
          Requests,     \* what they may ask for
          Deployed,     \* the program there is
          Controller, Source, Claimer,  \* wallets: the agent's controller, the
                        \* payer of premiums, the harmed party
          Claim,        \* the address of the one claim against the agent
          Claimed,      \* its amount
          Score,        \* the agent's score
          MinBond, CreditScore,  \* the program's MIN_BOND_USDC, MIN_SCORE_FOR_CREDIT
          Funds         \* what each token account holds at first

VARIABLES stage,    \* stage[c]: how far the promise of c is
          request,  \* request[c]: method, parameters and signers of c
          ix,       \* ix[c]: the instructions c hands to its sender
          intent,   \* intent[c]: what c was described as, None without a description
          tx,       \* tx[c]: the fate of the transaction of c
          tokens,   \* tokens[a]: the balance of token account a
          claim,    \* the state of the claim
          barred,   \* the agent is frozen, over-leveraged or cooling down
          moved     \* moved[i]: what executed instructions of name i moved

accounts == <<tokens, claim, moved>>
vars == <<stage, request, ix, intent, tx, accounts, barred>>

Agent == agent_pda(Controller, Deployed)
Bond == bond_vault_pda(Agent, Deployed)
Pool == pool_vault_pda(Deployed)
Ata(owner) == <<"ata", owner>>

TokenAccounts == {Bond, Pool, Ata(Controller), Ata(Source), Ata(Claimer)}

-----------------------------------------------------------------------------
\* The contract: the methods, and the instructions that may back each.
SettlementLayer ==
  {"lock_collateral", "slash_collateral", "unlock_collateral", "pay_premium",
   "release_principal"}

TELARO_SETTLEMENT_MAP ==
  [lock_collateral   |-> {"view_bond"},
   slash_collateral  |-> {"resolve_claim", "arbiter_resolve"},
   unlock_collateral |-> {"withdraw_bond"},
   pay_premium       |-> {"process_pool_yield", "fund_insurance"},
   release_principal |-> {"request_credit"},
   lock_fee |-> {}, release_fee |-> {}, refund_fee |-> {}]

InstructionNames == UNION {TELARO_SETTLEMENT_MAP[m] : m \in SettlementLayer}

\* The parameters of a method: of the two TypeScript methods that differ, the
\* source and the controller are the keyword.
ParamsOf ==
  [lock_collateral   |-> LockCollateralParams,
   slash_collateral  |-> SlashCollateralParams,
   unlock_collateral |-> UnlockCollateralParams,
   pay_premium       |-> PayPremiumParams,
   release_principal |-> ReleasePrincipalParams]

\* What the abstract methods take; only the arguments that are read.
AbstractParams ==
  [agent_id : Pubkeys, amount : Int]
    \cup [payer : Pubkeys, underwriter : Pubkeys, amount : Int]

ASSUME SettlementAssumption ==
  /\ IsFiniteSet(Calls)
  /\ Claimed \in Nat /\ Score \in Nat /\ MinBond \in Nat /\ CreditScore \in Nat
  /\ Funds \in [TokenAccounts -> Nat]
  /\ None \notin TokenAccounts \cup {Controller}
  /\ \A r \in Requests :
       /\ r.method \in SettlementLayer
       /\ \/ r.client = "layer" /\ r.params \in AbstractParams
          \/ r.client \in {"ts", "python"} /\ r.params \in ParamsOf[r.method]

-----------------------------------------------------------------------------
\* binding.ts: one builder per method.  resolve_claim takes an action, the
\* amount paid is the claim's own.
RESOLVE_REJECT == 1
RESOLVE_ACCEPT == 0

lockCollateralIx(params, programId) == build_view_bond_ix(params, programId)
slashCollateralIx(params, programId) ==
  build_resolve_claim_ix(params, programId, RESOLVE_ACCEPT)
unlockCollateralIx(params, programId) == build_withdraw_bond_ix(params, programId)
payPremiumIx(params, programId, sourceAta) ==
  build_process_pool_yield_ix(params, programId, sourceAta)
releasePrincipalIx(params, programId, controller) ==
  build_request_credit_ix(params, programId, controller)

\* A client that names no program gets the devnet one.
ProgramOf(r) == IF r.program = None THEN PROGRAM_ID_DEVNET ELSE r.program

\* The instruction a method of TelaroSettlement (client.ts) builds.
BuiltFor(r) ==
  CASE r.method = "lock_collateral" -> lockCollateralIx(r.params, ProgramOf(r))
    [] r.method = "slash_collateral" -> slashCollateralIx(r.params, ProgramOf(r))
    [] r.method = "unlock_collateral" -> unlockCollateralIx(r.params, ProgramOf(r))
    [] r.method = "pay_premium" ->
         payPremiumIx(r.params, ProgramOf(r), r.keyword)
    [] r.method = "release_principal" ->
         releasePrincipalIx(r.params, ProgramOf(r), r.keyword)

\* The builder of binding.py that serves a method.
BuiltInPython(r) ==
  CASE r.method = "lock_collateral" -> build_view_bond_ix(r.params, ProgramOf(r))
    [] r.method = "slash_collateral" ->
         build_resolve_claim_ix(r.params, ProgramOf(r),
                                IF r.keyword = None THEN 0 ELSE r.keyword)
    [] r.method = "unlock_collateral" ->
         build_withdraw_bond_ix(r.params, ProgramOf(r))
    [] r.method = "pay_premium" ->
         build_process_pool_yield_ix(r.params, ProgramOf(r), r.keyword)
    [] r.method = "release_principal" ->
         build_request_credit_ix(r.params, ProgramOf(r), r.keyword)

Built(r) == IF r.client = "ts" THEN BuiltFor(r) ELSE BuiltInPython(r)

\* The intent of binding.py for the same method and parameters.
IntentOf(r) ==
  CASE r.method = "lock_collateral" ->
         lock_collateral_intent(r.params, ProgramOf(r))
    [] r.method = "slash_collateral" ->
         slash_collateral_intent(r.params, ProgramOf(r))
    [] r.method = "unlock_collateral" ->
         unlock_collateral_intent(r.params, ProgramOf(r))
    [] r.method = "pay_premium" -> pay_premium_intent(r.params, ProgramOf(r))
    [] r.method = "release_principal" ->
         release_principal_intent(r.params, ProgramOf(r))

\* TelaroSettlement of settlement.py: two methods return an intent for the
\* devnet program, three raise NotImplementedError.  The abstract method
\* having no score to ask for, none is asked for.
Implemented == {"lock_collateral", "pay_premium"}

lock_collateral(agent_id, amount) ==
  lock_collateral_intent(
    [agent |-> agent_id, min_bond_atomic |-> amount, min_score |-> 0],
    PROGRAM_ID_DEVNET)
pay_premium(payer, underwriter, amount) ==
  pay_premium_intent(
    [payer |-> payer, underwriter |-> underwriter, amount_atomic |-> amount],
    PROGRAM_ID_DEVNET)

Described(r) ==
  CASE r.method = "lock_collateral" -> lock_collateral(r.params.agent_id, r.params.amount)
    [] r.method = "pay_premium" ->
         pay_premium(r.params.payer, r.params.underwriter, r.params.amount)

\* run: the sender is given one instruction per call.
InsuredToo(r) ==
  IF r.method = "pay_premium"
    THEN <<Built(r), [Built(r) EXCEPT !.disc = "fund_insurance"]>>
    ELSE <<Built(r)>>
Handed(r) == <<Built(r)>>

\* The promise of a call: pending in "blockhash" and "confirming", fulfilled
\* with the signature in "resolved", with an intent in "described", and
\* rejected in the others: before anything was sent (thrown, where the
\* builder does), by an error of the program, or while the fate of the
\* transaction is not known to the client.
Rejections == {"unsent", "refused", "inDoubt"}
Stages == {"idle", "blockhash", "confirming", "resolved", "described"} \cup Rejections
Fates == {"none", "flying", "executed", "failed", "expired"}

Init ==
  /\ stage = [c \in Calls |-> "idle"]
  /\ request \in [Calls -> Requests]
  /\ ix = [c \in Calls |-> <<>>]
  /\ intent = [c \in Calls |-> None]
  /\ tx = [c \in Calls |-> "none"]
  /\ tokens = Funds /\ claim = "open" /\ barred = FALSE
  /\ moved = [i \in InstructionNames |-> 0]

-----------------------------------------------------------------------------
\* An argument out of range, a method that is not implemented, or no fee payer.
Raises(r) ==
  IF r.client = "layer" THEN r.method \notin Implemented
  ELSE Built(r) = ValueError \/ r.signers = <<>>

\* A method is called: it builds its instruction and calls the sender, which
\* asks for a blockhash.  A Python caller looks at the intent first.
Call(c) ==
  /\ stage[c] = "idle"
  /\ request[c].client # "layer" /\ ~ Raises(request[c])
  /\ ix' = [ix EXCEPT ![c] = Handed(request[c])]
  /\ intent' = [intent EXCEPT ![c] =
                  IF request[c].client = "ts" THEN None ELSE IntentOf(request[c])]
  /\ stage' = [stage EXCEPT ![c] = "blockhash"]
  /\ UNCHANGED <<request, tx, accounts, barred>>

CallDescribes(c) ==
  /\ stage[c] = "idle"
  /\ request[c].client = "layer" /\ ~ Raises(request[c])
  /\ intent' = [intent EXCEPT ![c] = Described(request[c])]
  /\ stage' = [stage EXCEPT ![c] = "described"]
  /\ UNCHANGED <<request, ix, tx, accounts, barred>>

CallRaises(c) ==
  /\ stage[c] = "idle" /\ Raises(request[c])
  /\ stage' = [stage EXCEPT ![c] = "unsent"]
  /\ UNCHANGED <<request, ix, intent, tx, accounts, barred>>

Keys(i) == {meta.pubkey : meta \in ToSet(i.accounts)}
SigningKeys(i) ==
  {meta.pubkey : meta \in {m \in ToSet(i.accounts) : m.is_signer}}

\* Every key that must sign does, and every signer but the fee payer, which
\* is the first, is an account of an instruction.
Signed(c) ==
  /\ \A i \in ToSet(ix[c]) : SigningKeys(i) \subseteq ToSet(request[c].signers)
  /\ \A k \in 2 .. Len(request[c].signers) :
       \E i \in ToSet(ix[c]) : request[c].signers[k] \in Keys(i)

\* The blockhash arrives; the transaction is signed and sent.
Send(c) ==
  /\ stage[c] = "blockhash" /\ Signed(c)
  /\ stage' = [stage EXCEPT ![c] = "confirming"]
  /\ tx' = [tx EXCEPT ![c] = "flying"]
  /\ UNCHANGED <<request, ix, intent, accounts, barred>>

\* The promise of c settles with nothing else changing.
Settles(c, outcome) ==
  /\ stage' = [stage EXCEPT ![c] = outcome]
  /\ UNCHANGED <<request, ix, intent, tx, accounts, barred>>

\* No blockhash, a signature missing, or the simulation before sending fails.
SendFails(c) == stage[c] = "blockhash" /\ Settles(c, "unsent")

\* The confirmation arrives and run returns the signature.
ResolveUnawaited(c) == stage[c] = "confirming" /\ Settles(c, "resolved")
Resolve(c) ==
  stage[c] = "confirming" /\ tx[c] = "executed" /\ Settles(c, "resolved")

\* The confirmation carries an error of the program.
ConfirmError(c) ==
  stage[c] = "confirming" /\ tx[c] = "failed" /\ Settles(c, "refused")

\* The blockhash of the transaction is too old for it to be included.
PollsOn(c) == stage[c] = "confirming" /\ tx[c] = "expired" /\ UNCHANGED vars
ConfirmExpiry(c) ==
  stage[c] = "confirming" /\ tx[c] = "expired" /\ Settles(c, "inDoubt")

\* The connection breaks while the client sends or waits, whatever becomes of
\* the transaction.
LoseConfirmation(c) == stage[c] = "confirming" /\ Settles(c, "inDoubt")

-----------------------------------------------------------------------------
(***************************************************************************)
(* The program.  It takes its accounts by position, derives the addresses  *)
(* it owns itself, and reads its arguments from the data.                  *)
(***************************************************************************)
Key(i, k) == i.accounts[k].pubkey
Number(i, first, width) ==
  SumFunction([k \in 0 .. width - 1 |-> i.data[first + k] * Weight[k]])

\* The arguments as the program reads them.
Args(i) ==
  CASE i.disc = "view_bond" ->
         [min_bond |-> Number(i, 1, 8), min_score |-> Number(i, 9, 2)]
    [] i.disc = "resolve_claim" -> [action |-> Number(i, 1, 1)]
    [] OTHER -> [amount |-> Number(i, 1, 8)]

\* The addresses the program insists on, by position.
Constrained(i) ==
  CASE i.disc = "view_bond" -> <<<<1, Agent>>>>
    [] i.disc = "resolve_claim" ->
         <<<<1, Claim>>, <<2, Agent>>, <<4, Bond>>,
           <<5, deposit_vault_pda(Claim, Deployed)>>, <<7, Controller>>>>
    [] i.disc = "withdraw_bond" -> <<<<1, Agent>>, <<3, Bond>>, <<5, Controller>>>>
    [] i.disc = "process_pool_yield" ->
         <<<<1, pool_config_pda(Deployed)>>, <<2, Pool>>>>
    [] i.disc = "request_credit" ->
         <<<<1, Agent>>, <<2, credit_line_pda(Agent, Deployed)>>, <<3, Bond>>,
           <<4, pool_config_pda(Deployed)>>, <<5, Pool>>,
           <<6, pool_mint_auth_pda(Deployed)>>, <<7, Controller>>>>

\* The position of the account that has to sign.
Signatory(i) ==
  CASE i.disc = "view_bond" -> {}
    [] i.disc = "resolve_claim" -> {7}
    [] i.disc = "withdraw_bond" -> {5}
    [] i.disc = "process_pool_yield" -> {4}
    [] i.disc = "request_credit" -> {7}

\* The token transfers: from which position to which, and how much.  A
\* credit goes where the accounts leave room for it, into the bond.
Transfers(i) ==
  CASE i.disc = "view_bond" -> {}
    [] i.disc = "resolve_claim" ->
         IF Args(i).action = 0 THEN {[from |-> 4, to |-> 6, amount |-> Claimed]} ELSE {}
    [] i.disc = "withdraw_bond" -> {[from |-> 3, to |-> 4, amount |-> Args(i).amount]}
    [] i.disc = "process_pool_yield" ->
         {[from |-> 3, to |-> 2, amount |-> Args(i).amount]}
    [] i.disc = "request_credit" -> {[from |-> 5, to |-> 3, amount |-> Args(i).amount]}

\* A token account pays when it is written to, holds enough, and is the
\* program's own or that of the wallet that signs.
Payable(i, t) ==
  /\ i.accounts[t.from].is_writable /\ i.accounts[t.to].is_writable
  /\ {Key(i, t.from), Key(i, t.to)} \subseteq TokenAccounts
  /\ tokens[Key(i, t.from)] >= t.amount
  /\ i.disc = "process_pool_yield" => Key(i, t.from) = Ata(Key(i, 4))

\* What the program asks beyond accounts and funds.
Policy(i) ==
  CASE i.disc = "view_bond" ->
         /\ ~ barred
         /\ tokens[Bond] >= Args(i).min_bond /\ Score >= Args(i).min_score
    [] i.disc = "resolve_claim" -> claim = "open" /\ Args(i).action \in {0, 1}
    [] i.disc = "withdraw_bond" ->
         ~ barred /\ claim # "open" /\ tokens[Bond] >= MinBond + Args(i).amount
    [] i.disc = "process_pool_yield" -> TRUE
    [] i.disc = "request_credit" -> ~ barred /\ Score >= CreditScore

Accepts(i) ==
  /\ i.program_id = Deployed
  /\ \A k \in ToSet(Constrained(i)) : Key(i, k[1]) = k[2]
  /\ \A k \in Signatory(i) : i.accounts[k].is_signer
  /\ \A t \in Transfers(i) : Payable(i, t)
  /\ Policy(i)

Moving(from, to, amount) == [tokens EXCEPT ![from] = @ - amount, ![to] = @ + amount]

\* The chain includes a transaction: the program executes its instruction.
Execute(c) ==
  /\ tx[c] = "flying"
  /\ \E i \in ToSet(ix[c]) :
       /\ Accepts(i)
       /\ IF Transfers(i) = {} THEN UNCHANGED <<tokens, moved>>
          ELSE \E t \in Transfers(i) :
                 /\ tokens' = Moving(Key(i, t.from), Key(i, t.to), t.amount)
                 /\ moved' = [moved EXCEPT ![i.disc] = @ + t.amount]
       /\ claim' = IF i.disc # "resolve_claim" THEN claim
                   ELSE IF Args(i).action = 0 THEN "paid" ELSE "rejected"
  /\ tx' = [tx EXCEPT ![c] = "executed"]
  /\ UNCHANGED <<stage, request, ix, intent, barred>>

\* The program, or no program at that address, returns an error.
Refuse(c) ==
  /\ tx[c] = "flying"
  /\ \E i \in ToSet(ix[c]) : ~ Accepts(i)
  /\ tx' = [tx EXCEPT ![c] = "failed"]
  /\ UNCHANGED <<stage, request, ix, intent, accounts, barred>>

Expire(c) ==
  /\ tx[c] = "flying"
  /\ tx' = [tx EXCEPT ![c] = "expired"]
  /\ UNCHANGED <<stage, request, ix, intent, accounts, barred>>

\* The arbiter rules on the claim before anybody accepts it.
ArbiterResolves ==
  /\ claim = "open"
  /\ \/ /\ tokens[Bond] >= Claimed
        /\ claim' = "paid" /\ tokens' = Moving(Bond, Ata(Claimer), Claimed)
     \/ claim' = "rejected" /\ UNCHANGED tokens
  /\ UNCHANGED <<stage, request, ix, intent, tx, barred, moved>>

\* The agent is frozen, takes on leverage, or acts; or thaws and cools down.
Reassess ==
  /\ barred' = ~ barred
  /\ UNCHANGED <<stage, request, ix, intent, tx, accounts>>

-----------------------------------------------------------------------------
Client(c) == Send(c) \/ SendFails(c) \/ Resolve(c) \/ ConfirmError(c)
               \/ ConfirmExpiry(c) \/ LoseConfirmation(c)
Chain(c) == Execute(c) \/ Refuse(c) \/ Expire(c)

Next == \/ ArbiterResolves \/ Reassess
        \/ \E c \in Calls : \/ Call(c) \/ CallDescribes(c) \/ CallRaises(c)
                            \/ Client(c) \/ Chain(c)

Spec == Init /\ [][Next]_vars

\* Every RPC request is answered or fails, a confirmation that exists is
\* seen, and blocks go on being produced.  That a connection breaks is not
\* owed to anybody.
Answers(c) == Send(c) \/ SendFails(c) \/ Resolve(c) \/ ConfirmError(c)
                \/ ConfirmExpiry(c)
FairSpec ==
  /\ Spec
  /\ \A c \in Calls : WF_vars(Answers(c)) /\ WF_vars(Chain(c))

-----------------------------------------------------------------------------
\* The types of the variables.
TypeOK ==
  /\ stage \in [Calls -> Stages]
  /\ request \in [Calls -> Requests]
  /\ \A c \in Calls :
       /\ Len(ix[c]) <= 1
       /\ \A i \in ToSet(ix[c]) :
            i.disc \in InstructionNames /\ i.data \in Seq(0 .. Base - 1)
       /\ intent[c] # None => intent[c].method \in InstructionNames
  /\ tx \in [Calls -> Fates]
  /\ tokens \in [TokenAccounts -> Nat]
  /\ claim \in {"open", "paid", "rejected"} /\ barred \in BOOLEAN
  /\ moved \in [InstructionNames -> Nat]

\* A slash accepts the claim, unless its caller, in Python, asks for another
\* action.
Accepting(r) == r.client = "ts" \/ r.keyword \in {None, 0}

\* A call that resolved was executed, by an instruction the contract names
\* for its method, and a resolved slash decided the claim its way: the client
\* awaits the confirmation, and RESOLVE_ACCEPT is the paying action even
\* when the arbiter and other calls race for the claim.
ResolvedIsDone ==
  \A c \in Calls : stage[c] = "resolved" =>
    /\ tx[c] = "executed"
    /\ \E i \in ToSet(ix[c]) :
         i.disc \in TELARO_SETTLEMENT_MAP[request[c].method]
    /\ request[c].method = "slash_collateral" =>
         claim = IF Accepting(request[c]) THEN "paid" ELSE "rejected"

\* What a call asks the program to move.
Worth(r) ==
  IF r.client = "layer" \/ r.method = "lock_collateral" THEN 0
  ELSE IF r.method = "slash_collateral" THEN IF Accepting(r) THEN Claimed ELSE 0
  ELSE r.params.amount_atomic

Asked(m, stages) ==
  SumFunctionOnSet([c \in Calls |-> Worth(request[c])],
                   {c \in Calls : request[c].method = m /\ stage[c] \in stages})

\* What the program moved for a method.
Moved(m) == SumFunctionOnSet(moved, TELARO_SETTLEMENT_MAP[m])

\* For every method, the money moved is at least what its resolved calls
\* asked for, and at most that plus what its pending and its doubtful calls
\* asked for: a call that rejected before sending, or with an error of the
\* program, moved nothing and may be repeated, and so did one that only
\* described its instruction; a doubtful one may have moved its amount, and
\* repeating it may move it twice.
MovedWithinCalls ==
  \A m \in SettlementLayer :
    /\ Asked(m, {"resolved"}) <= Moved(m)
    /\ Moved(m) <= Asked(m, {"resolved", "confirming", "inDoubt"})

\* The promise of a call is fulfilled or rejected in the end, although the
\* transaction may never be included: the wait ends with its blockhash.
CallsSettle ==
  \A c \in Calls : stage[c] = "blockhash" ~> stage[c] \in {"resolved"} \cup Rejections

\* The money and the conditions of a request, said of its parameters.
Due(r) ==
  LET p == r.params
  IN  CASE r.method = "lock_collateral" ->
             /\ ~ barred
             /\ tokens[Bond] >= p.min_bond_atomic /\ Score >= p.min_score
        [] r.method = "slash_collateral" ->
             claim = "open" /\ (Accepting(r) => tokens[Bond] >= Claimed)
        [] r.method = "unlock_collateral" ->
             ~ barred /\ claim # "open" /\ tokens[Bond] >= MinBond + p.amount_atomic
        [] r.method = "pay_premium" -> tokens[Ata(p.payer)] >= p.amount_atomic
        [] r.method = "release_principal" ->
             ~ barred /\ Score >= CreditScore /\ tokens[Pool] >= p.amount_atomic

Paid(r) ==
  LET p == r.params
  IN  CASE r.method = "lock_collateral" -> tokens
        [] r.method = "slash_collateral" ->
             IF Accepting(r) THEN Moving(Bond, p.claimer_bond_ata, Claimed) ELSE tokens
        [] r.method = "unlock_collateral" ->
             Moving(Bond, p.controller_bond_ata, p.amount_atomic)
        [] r.method = "pay_premium" -> Moving(Ata(p.payer), Pool, p.amount_atomic)
        [] r.method = "release_principal" -> Moving(Pool, Bond, p.amount_atomic)

\* An instruction that executes does what its call asked for, to the unit:
\* bond, score, claim and funds were as the parameters demand, and exactly
\* the amount asked for went from the account that owes it to the one it is
\* owed to.  Parameters become bytes and account lists in between; amounts
\* at the ends of u64, and defaults left in place, are among the requests.
ExecutedAsAsked ==
  [][\A c \in Calls :
       tx[c] # "executed" /\ tx'[c] = "executed" =>
         Due(request[c]) /\ tokens' = Paid(request[c])]_vars

\* The program is the deployed one, every keyword with an unusable default is
\* given, and the accounts named are the agent's, the claim's and the payer's.
Complete(r) ==
  LET p == r.params
  IN  /\ r.client # "layer" /\ ProgramOf(r) = Deployed
      /\ CASE r.method = "lock_collateral" -> p.agent = Agent
           [] r.method = "slash_collateral" ->
                /\ p.agent = Agent /\ p.claim = Claim /\ p.signer = Controller
                /\ p.claimer_bond_ata \in TokenAccounts
                /\ Accepting(r) \/ r.keyword = 1
           [] r.method = "unlock_collateral" ->
                /\ p.agent = Agent /\ p.controller = Controller
                /\ p.controller_bond_ata \in TokenAccounts
           [] r.method = "pay_premium" ->
                r.keyword = Ata(p.payer) /\ r.keyword \in TokenAccounts
           [] r.method = "release_principal" ->
                p.agent = Agent /\ r.keyword = Controller

\* A call that leaves nothing out is refused by the program only for what its
\* caller can look up: the claim, the agent's standing, or funds.
\* An account derived from the wrong seeds or under another program, or an
\* account in another's place, would have it refused always.
RefusedForCause ==
  [][\A c \in Calls :
       tx[c] # "failed" /\ tx'[c] = "failed" /\ Complete(request[c]) =>
         ~ Due(request[c])]_vars
=============================================================================
