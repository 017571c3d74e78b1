------------------------------ MODULE Binding ------------------------------
(***************************************************************************)
(* The instruction builders of binding.py, over the addresses of pda.py:   *)
(* what each instruction carries, and the intent that describes it.  The   *)
(* builders of @telaro/sdk, which binding.ts calls, have the same layouts  *)
(* (binding.py, lines 15-18).                                              *)
(*                                                                         *)
(* A byte has Base values here, so that a u64 is a number TLC can hold:    *)
(* with Base 2 it has eight binary digits and ends at 255.  A derived      *)
(* address is its seeds and its program, a discriminator the name it is    *)
(* the hash of.  None is Python's None, ValueError a call that raised it.  *)
(* job_id, which no builder reads, is left out of the parameters.          *)
(***************************************************************************)
EXTENDS Integers, SequencesExt

CONSTANTS Base,               \* the values of one byte
          Pubkeys,            \* the addresses callers pass
          PROGRAM_ID_DEVNET,  \* the program the builders default to
          TOKEN_PROGRAM_ID, SYSTEM_PROGRAM_ID,
          None, ValueError

ASSUME BaseAssumption == Base \in Nat \ {0, 1}

-----------------------------------------------------------------------------
\* pda.py
agent_pda(controller, program_id) == <<"agent", controller, program_id>>
bond_vault_pda(agent, program_id) == <<"vault", agent, program_id>>
deposit_vault_pda(claim, program_id) == <<"deposit", claim, program_id>>
credit_line_pda(agent, program_id) == <<"credit-line", agent, program_id>>
pool_config_pda(program_id) == <<"pool-config", program_id>>
pool_vault_pda(program_id) == <<"pool-vault", program_id>>
pool_mint_auth_pda(program_id) == <<"pool-mint-auth", program_id>>

-----------------------------------------------------------------------------
\* Integer arguments: an argument is a value and its width in bytes.
U8(value) == <<value, 1>>
U16(value) == <<value, 2>>
U64(value) == <<value, 8>>

\* What a one is worth in each byte of an integer: Base ^ k.
Weight[k \in 0 .. 8] == IF k = 0 THEN 1 ELSE Base * Weight[k - 1]

Fits(value, width) == value \in 0 .. Weight[width] - 1

\* value.to_bytes(width, "little")
LittleEndian(value, width) ==
  [k \in 1 .. width |-> (value \div Weight[k - 1]) % Base]

Encoded(args) ==
  FlattenSeq([k \in DOMAIN args |-> LittleEndian(args[k][1], args[k][2])])

AccountMeta(pubkey, is_signer, is_writable) ==
  [pubkey |-> pubkey, is_signer |-> is_signer, is_writable |-> is_writable]
ReadOnly(pubkey) == AccountMeta(pubkey, FALSE, FALSE)
Writable(pubkey) == AccountMeta(pubkey, FALSE, TRUE)

\* An encoded instruction, unless one of its arguments is out of range.
Instruction(program_id, accounts, name, args) ==
  IF \A k \in DOMAIN args : Fits(args[k][1], args[k][2])
  THEN [program_id |-> program_id, accounts |-> accounts, disc |-> name,
        data |-> Encoded(args)]
  ELSE ValueError

-----------------------------------------------------------------------------
\* The parameters of the five methods.
LockCollateralParams == [agent : Pubkeys, min_bond_atomic : Int, min_score : Int]
SlashCollateralParams ==
  [claim : Pubkeys, agent : Pubkeys, bond_mint : Pubkeys,
   claimer_bond_ata : Pubkeys, signer : Pubkeys]
UnlockCollateralParams ==
  [agent : Pubkeys, bond_mint : Pubkeys, controller : Pubkeys,
   controller_bond_ata : Pubkeys, amount_atomic : Int]
PayPremiumParams == [payer : Pubkeys, underwriter : Pubkeys, amount_atomic : Int]
ReleasePrincipalParams ==
  [agent : Pubkeys, credit_line : Pubkeys, amount_atomic : Int]

\* The five builders.
ScoreUnread(params, program_id) ==
  Instruction(program_id, <<ReadOnly(params.agent)>>, "view_bond",
              <<U64(params.min_bond_atomic), U16(0)>>)
build_view_bond_ix(params, program_id) ==
  Instruction(program_id, <<ReadOnly(params.agent)>>, "view_bond",
              <<U64(params.min_bond_atomic), U16(params.min_score)>>)

build_resolve_claim_ix(params, program_id, action) ==
  Instruction(program_id,
    <<Writable(params.claim),
      Writable(params.agent),
      ReadOnly(params.bond_mint),
      Writable(bond_vault_pda(params.agent, program_id)),
      Writable(deposit_vault_pda(params.claim, program_id)),
      Writable(params.claimer_bond_ata),
      AccountMeta(params.signer, TRUE, FALSE),
      ReadOnly(TOKEN_PROGRAM_ID)>>,
    "resolve_claim", <<U8(action)>>)

build_withdraw_bond_ix(params, program_id) ==
  Instruction(program_id,
    <<Writable(params.agent),
      ReadOnly(params.bond_mint),
      Writable(bond_vault_pda(params.agent, program_id)),
      Writable(params.controller_bond_ata),
      AccountMeta(params.controller, TRUE, FALSE),
      ReadOnly(TOKEN_PROGRAM_ID)>>,
    "withdraw_bond", <<U64(params.amount_atomic)>>)

\* The source of the premium defaults to the underwriter.
build_process_pool_yield_ix(params, program_id, source_ata) ==
  LET source == IF source_ata = None THEN params.underwriter ELSE source_ata
  IN  Instruction(program_id,
        <<Writable(pool_config_pda(program_id)),
          Writable(pool_vault_pda(program_id)),
          Writable(source),
          AccountMeta(params.payer, TRUE, FALSE),
          ReadOnly(TOKEN_PROGRAM_ID)>>,
        "process_pool_yield", <<U64(params.amount_atomic)>>)

\* The controller defaults to the agent; the credit line is always derived.
CreditAccounts(params, controller, line, program_id) ==
  <<Writable(params.agent),
    Writable(line),
    Writable(bond_vault_pda(params.agent, program_id)),
    Writable(pool_config_pda(program_id)),
    Writable(pool_vault_pda(program_id)),
    ReadOnly(pool_mint_auth_pda(program_id)),
    AccountMeta(IF controller = None THEN params.agent ELSE controller, TRUE, TRUE),
    ReadOnly(TOKEN_PROGRAM_ID),
    ReadOnly(SYSTEM_PROGRAM_ID)>>
LineOfDevnet(params, program_id, controller) ==
  Instruction(program_id,
    CreditAccounts(params, controller,
                   credit_line_pda(params.agent, PROGRAM_ID_DEVNET), program_id),
    "request_credit", <<U64(params.amount_atomic)>>)
build_request_credit_ix(params, program_id, controller) ==
  Instruction(program_id,
    CreditAccounts(params, controller,
                   credit_line_pda(params.agent, program_id), program_id),
    "request_credit", <<U64(params.amount_atomic)>>)

-----------------------------------------------------------------------------
\* The intents: a description that encodes nothing and checks no range.  An
\* account is its role, its address, and whether it signs and is written.
InstructionIntent(method, program_id, accounts, args) ==
  [method |-> method, program_id |-> program_id, accounts |-> accounts,
   args |-> args]

lock_collateral_intent(params, program_id) ==
  InstructionIntent("view_bond", program_id,
    <<<<"agent", params.agent, FALSE, FALSE>>>>,
    [min_bond |-> params.min_bond_atomic, min_score |-> params.min_score])

slash_collateral_intent(params, program_id) ==
  InstructionIntent("resolve_claim", program_id,
    <<<<"claim", params.claim, FALSE, TRUE>>,
      <<"agent", params.agent, FALSE, TRUE>>,
      <<"bond_mint", params.bond_mint, FALSE, FALSE>>,
      <<"claimer_bond_ata", params.claimer_bond_ata, FALSE, TRUE>>,
      <<"signer", params.signer, TRUE, TRUE>>>>,
    [action |-> 0])

unlock_collateral_intent(params, program_id) ==
  InstructionIntent("withdraw_bond", program_id,
    <<<<"agent", params.agent, FALSE, TRUE>>,
      <<"bond_mint", params.bond_mint, FALSE, FALSE>>,
      <<"controller", params.controller, TRUE, TRUE>>,
      <<"controller_bond_ata", params.controller_bond_ata, FALSE, TRUE>>>>,
    [amount |-> params.amount_atomic])

pay_premium_intent(params, program_id) ==
  InstructionIntent("process_pool_yield", program_id,
    <<<<"payer", params.payer, TRUE, TRUE>>,
      <<"underwriter", params.underwriter, FALSE, TRUE>>>>,
    [amount |-> params.amount_atomic])

release_principal_intent(params, program_id) ==
  InstructionIntent("request_credit", program_id,
    <<<<"agent", params.agent, FALSE, TRUE>>,
      <<"credit_line", params.credit_line, FALSE, TRUE>>>>,
    [amount |-> params.amount_atomic])
=============================================================================
