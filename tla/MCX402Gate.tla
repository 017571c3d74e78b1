----------------------------- MODULE MCX402Gate -----------------------------
(***************************************************************************)
(* X402Gate over two accounts: every broken header, and payments of alice, *)
(* unsigned, signed, and signed by bob before her; profiles at, below and  *)
(* without the thresholds of the policy.                                   *)
(***************************************************************************)
EXTENDS X402Gate

CONSTANTS alice, bob, missing, malformed

TwoAccounts == {alice, bob}

Signer(key, signed) == [key |-> key, signed |-> signed]
SmallHeaders ==
  {[shape |-> s] : s \in Broken} \cup
  {[shape |-> "transaction", signers |-> l] :
     l \in {<<Signer(alice, FALSE)>>,
            <<Signer(bob, TRUE), Signer(alice, TRUE)>>,
            <<Signer(bob, FALSE), Signer(alice, TRUE)>>}}

Profile(f, s, b) == [frozen |-> f, score |-> s, bond |-> b]
SmallProfiles ==
  {Profile(FALSE, 7, 5), Profile(TRUE, 7, 5), Profile(FALSE, 6, 5),
   Profile(FALSE, 7, missing), Profile(FALSE, malformed, 5)}
=============================================================================
