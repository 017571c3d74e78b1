---------------------------- MODULE MCSettlement ----------------------------
(***************************************************************************)
(* Settlement with requests of every client and method: the view_bond      *)
(* vectors of the conformance corpus, amounts within and beyond u64,       *)
(* signers missing, unknown and complete, and defaults left in place.      *)
(***************************************************************************)
EXTENDS Settlement, ViewBondVectors

CONSTANTS FeePayer, Mint

AllPubkeys ==
  {FeePayer, Mint, Controller, Source, Claimer, Claim, Agent, Pool,
   Ata(Controller), Ata(Source), Ata(Claimer), credit_line_pda(Agent, Deployed),
   credit_line_pda(Agent, PROGRAM_ID_DEVNET)}

InitialFunds ==
  [a \in TokenAccounts |->
     CASE a = Bond -> 3 [] a = Pool -> 2 [] a = Ata(Source) -> 2 [] OTHER -> 0]

Asks(client, method, params, keyword, signers) ==
  [client |-> client, method |-> method, params |-> params, program |-> Deployed,
   keyword |-> keyword, signers |-> signers]

Lock(client, bond, score) ==
  Asks(client, "lock_collateral",
       [agent |-> Agent, min_bond_atomic |-> bond, min_score |-> score],
       None, <<FeePayer>>)
Slash(client, keyword, signers) ==
  Asks(client, "slash_collateral",
       [claim |-> Claim, agent |-> Agent, bond_mint |-> Mint,
        claimer_bond_ata |-> Ata(Claimer), signer |-> Controller],
       keyword, signers)
Unlock(client, amount, signers) ==
  Asks(client, "unlock_collateral",
       [agent |-> Agent, bond_mint |-> Mint, controller |-> Controller,
        controller_bond_ata |-> Ata(Controller), amount_atomic |-> amount],
       None, signers)
Premium(client, amount, source, signers) ==
  Asks(client, "pay_premium",
       [payer |-> Source, underwriter |-> Pool, amount_atomic |-> amount],
       source, signers)
Release(client, amount, controller, signers) ==
  Asks(client, "release_principal",
       [agent |-> Agent, credit_line |-> credit_line_pda(Agent, Deployed),
        amount_atomic |-> amount],
       controller, signers)

ByController == <<FeePayer, Controller>>
BySource == <<FeePayer, Source>>
Max64 == Base ^ 8 - 1

TypescriptRequests ==
  {Lock("ts", 1, 2), Slash("ts", None, ByController), Slash("ts", None, <<>>),
   Unlock("ts", 1, ByController), Unlock("ts", 2, <<FeePayer, Source>>),
   Premium("ts", 1, Ata(Source), BySource),
   Release("ts", 1, Controller, ByController)}

PythonRequests ==
  {Lock("python", v.min_bond_atomic, v.min_score) : v \in VIEW_BOND_VECTORS}
  \cup
  {Lock("python", 1, Base ^ 2),
   Slash("python", None, <<Controller>>), Slash("python", 1, ByController),
   Slash("python", Base, ByController),
   Unlock("python", 2, ByController), Unlock("python", -1, ByController),
   Premium("python", 2, Ata(Source), BySource),
   Premium("python", Max64 + 1, Ata(Source), BySource),
   Premium("python", 1, None, BySource),
   Release("python", 1, Controller, ByController),
   Release("python", 1, None, ByController),
   [Release("python", 2, Controller, ByController) EXCEPT
      !.program = None,
      !.params.credit_line = credit_line_pda(Agent, PROGRAM_ID_DEVNET)]}

LayerRequests ==
  {[client |-> "layer", method |-> "lock_collateral",
    params |-> [agent_id |-> Agent, amount |-> 1]],
   [client |-> "layer", method |-> "pay_premium",
    params |-> [payer |-> Source, underwriter |-> Pool, amount |-> 1]],
   [client |-> "layer", method |-> "release_principal",
    params |-> [agent_id |-> Agent, amount |-> 1]]}

AllRequests == TypescriptRequests \cup PythonRequests \cup LayerRequests
=============================================================================
