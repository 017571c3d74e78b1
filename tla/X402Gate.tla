------------------------------ MODULE X402Gate ------------------------------
(***************************************************************************)
(* The payment gate of python/src/telaro_ars/x402.py, in a service that    *)
(* handles several requests at a time, over a registry of agent profiles   *)
(* that changes meanwhile.                                                 *)
(*                                                                         *)
(* The registry, the hosted indexer in front of it and the mirrors a       *)
(* caller may look profiles up in are outside src/.  The gate reads one    *)
(* profile once per request.  The indexer, or a decoder of the accounts,   *)
(* serves what the registry holds at that instant; a cached mirror serves  *)
(* anything it held until then.                                            *)
(***************************************************************************)
EXTENDS Integers, Sequences, FiniteSetsExt

CONSTANTS Requests,
          Cached,      \* those whose route looks profiles up in a mirror
          Headers,     \* the x-payment headers a client may send
          Accounts,    \* keys that sign payments
          Profiles,    \* what the registry may hold for an account
          NoProfile,   \* None: the account is not registered
          Missing,     \* a field that is absent, None, or empty
          Malformed,   \* a field that int() does not take
          NoPayer,     \* payer is None, or the result has no payer
          MinScore, MinBond,  \* GatePolicy
          MaxChanges   \* bound on the changes of the registry

\* Shapes of a header before a transaction is reached, in the order of the
\* gate's checks.
Broken == {"absent", "undecodable", "notAnObject", "noTransaction", "unparsable"}

\* The others carry a transaction: its required signers in message order,
\* and which of them signed.

Fields == Int \cup {Missing, Malformed}
Unusable == {"NO_PAYMENT", "MALFORMED_PAYMENT", "UNSIGNED_PAYER"}
Refusals == {"NOT_BONDED", "FROZEN", "SCORE_BELOW_MIN", "BOND_BELOW_MIN"}
Codes == Unusable \cup Refusals \cup {"LOOKUP_FAILED", "PASS", "raised", "none"}

ASSUME GateAssumption ==
  /\ Cached \subseteq Requests
  /\ \A h \in Headers :
       h.shape \in Broken \/
         /\ h.shape = "transaction"
         /\ h.signers \in Seq([key : Accounts, signed : BOOLEAN])
  /\ Profiles \subseteq [frozen : BOOLEAN, score : Fields, bond : Fields]
  /\ NoProfile \notin Profiles /\ NoPayer \notin Accounts
  /\ Missing \notin Int \cup {Malformed} /\ Malformed \notin Int
  /\ MinScore \in Int /\ MinBond \in Int /\ MaxChanges \in Nat

VARIABLES registry,  \* registry[a]: the profile of account a now
          past,      \* past[a]: every profile it has had
          up,        \* does the indexer answer?
          changes,   \* changes of the registry so far
          stage,     \* stage[r]: "idle", "lookup", "decide" or "answered"
          header,    \* header[r]: the header r came with
          payer,     \* payer[r]: what extract_payer returned
          profile,   \* profile[r]: what lookup_profile returned
          code,      \* code[r]: the outcome of r, "none" before
          held,      \* held[r]: profiles of the payer that r may be served
          empty      \* requests the indexer answered without an agent

vars == <<registry, past, up, changes,
          stage, header, payer, profile, code, held, empty>>
world == <<registry, past, up, changes>>

Entries == Profiles \cup {NoProfile}

Init ==
  /\ registry \in [Accounts -> Entries]
  /\ past = [a \in Accounts |-> {registry[a]}]
  /\ up = TRUE /\ changes = 0
  /\ stage = [r \in Requests |-> "idle"]
  /\ header \in [Requests -> Headers]
  /\ payer = [r \in Requests |-> NoPayer]
  /\ profile = [r \in Requests |-> NoProfile]
  /\ code = [r \in Requests |-> "none"]
  /\ held = [r \in Requests |-> {}]
  /\ empty = {}

-----------------------------------------------------------------------------
\* _try_parse_tx: the required signers with a non-zero signature, by their
\* places in the message.  The legacy and the versioned branch agree.
SignedAccounts(h) == {i \in 1 .. Len(h.signers) : h.signers[i].signed}

\* extract_payer: the first account that signed.
Payer(h) == h.signers[Min(SignedAccounts(h))].key

\* The outcome of a header no payer can be taken from.  The gate takes
\* .get() of whatever JSON value the envelope and its payload are: one that
\* is no object raises.
HeaderCode(h) ==
  CASE h.shape = "absent" -> "NO_PAYMENT"
    [] h.shape \in {"undecodable", "noTransaction", "unparsable"} -> "MALFORMED_PAYMENT"
    [] h.shape = "notAnObject" -> "raised"
    [] h.shape = "transaction" -> "UNSIGNED_PAYER"

Usable(h) == h.shape = "transaction" /\ SignedAccounts(h) # {}

\* int(profile.get(field) or 0)
Number(field) == IF field = Missing THEN 0 ELSE field

\* The policy, in the order of the checks.
DecisionFrozenToo(p) ==
  IF p = NoProfile THEN "NOT_BONDED"
  ELSE IF p.score = Malformed THEN "raised"
  ELSE IF Number(p.score) < MinScore THEN "SCORE_BELOW_MIN"
  ELSE IF p.bond = Malformed THEN "raised"
  ELSE IF Number(p.bond) < MinBond THEN "BOND_BELOW_MIN"
  ELSE "PASS"
Decision(p) ==
  IF p = NoProfile THEN "NOT_BONDED"
  ELSE IF p.frozen THEN "FROZEN"
  ELSE IF p.score = Malformed THEN "raised"
  ELSE IF Number(p.score) < MinScore THEN "SCORE_BELOW_MIN"
  ELSE IF p.bond = Malformed THEN "raised"
  ELSE IF Number(p.bond) < MinBond THEN "BOND_BELOW_MIN"
  ELSE "PASS"

\* status_for_code; an exception is the framework's 500, a pass the resource.
StatusByRefusal(c) ==
  CASE c \in Unusable \cup {"NOT_BONDED"} -> 402
    [] c = "LOOKUP_FAILED" -> 502
    [] c \in Refusals \ {"NOT_BONDED"} -> 403
    [] c = "PASS" -> 200
    [] OTHER -> 500
Status(c) ==
  CASE c \in Unusable -> 402
    [] c = "LOOKUP_FAILED" -> 502
    [] c \in Refusals -> 403
    [] c = "PASS" -> 200
    [] OTHER -> 500

Answer(r, c) ==
  /\ code' = [code EXCEPT ![r] = c]
  /\ stage' = [stage EXCEPT ![r] = "answered"]

\* apply_x402_gate up to the lookup.
Receive(r) ==
  /\ stage[r] = "idle"
  /\ IF Usable(header[r])
     THEN LET a == Payer(header[r]) IN
          /\ payer' = [payer EXCEPT ![r] = a]
          /\ stage' = [stage EXCEPT ![r] = "lookup"]
          /\ held' = [held EXCEPT ![r] = IF r \in Cached THEN past[a]
                                         ELSE {registry[a]}]
          /\ UNCHANGED code
     ELSE Answer(r, HeaderCode(header[r])) /\ UNCHANGED <<payer, held>>
  /\ UNCHANGED <<world, header, profile, empty>>

\* The lookup returns a profile, or None for an account that has none: the
\* indexer its agent or a 404, a mirror the copy it has.
Copies(r) == IF r \in Cached THEN held[r] ELSE {registry[payer[r]]}
ServedWhole(r) ==
  /\ stage[r] = "lookup" /\ (up \/ r \in Cached)
  /\ \E p \in Copies(r) : profile' = [profile EXCEPT ![r] = [agent |-> p]]
  /\ stage' = [stage EXCEPT ![r] = "decide"]
  /\ UNCHANGED <<world, header, payer, code, held, empty>>
Served(r) ==
  /\ stage[r] = "lookup" /\ (up \/ r \in Cached)
  /\ \E p \in Copies(r) : profile' = [profile EXCEPT ![r] = p]
  /\ stage' = [stage EXCEPT ![r] = "decide"]
  /\ UNCHANGED <<world, header, payer, code, held, empty>>

\* http_profile_lookup returns None for a reply 200, too, that is no object
\* or has no agent.
ServedNoAgent(r) ==
  /\ stage[r] = "lookup" /\ up /\ r \notin Cached
  /\ profile' = [profile EXCEPT ![r] = NoProfile]
  /\ stage' = [stage EXCEPT ![r] = "decide"]
  /\ empty' = empty \cup {r}
  /\ UNCHANGED <<world, header, payer, code, held>>

\* The lookup raises: a status that is not 404, or the time-out.
RaisesWhenUp(r) ==
  /\ stage[r] = "lookup" /\ up
  /\ Answer(r, "LOOKUP_FAILED")
  /\ UNCHANGED <<world, header, payer, profile, held, empty>>
NoneOnFailure(r) ==
  /\ stage[r] = "lookup"
  /\ stage' = [stage EXCEPT ![r] = "decide"]
  /\ UNCHANGED <<world, header, payer, profile, code, held, empty>>
LookupFails(r) ==
  /\ stage[r] = "lookup"
  /\ Answer(r, "LOOKUP_FAILED")
  /\ UNCHANGED <<world, header, payer, profile, held, empty>>

\* apply_x402_gate after the lookup.
Decide(r) ==
  /\ stage[r] = "decide"
  /\ Answer(r, Decision(profile[r]))
  /\ UNCHANGED <<world, header, payer, profile, held, empty>>

\* A bond is posted or withdrawn, a score moves, an agent is frozen.
Change(a, p) ==
  /\ changes < MaxChanges /\ registry[a] # p
  /\ changes' = changes + 1
  /\ registry' = [registry EXCEPT ![a] = p]
  /\ past' = [past EXCEPT ![a] = @ \cup {p}]
  /\ held' = [r \in Requests |->
                IF stage[r] = "lookup" /\ payer[r] = a THEN held[r] \cup {p}
                ELSE held[r]]
  /\ UNCHANGED <<up, stage, header, payer, profile, code, empty>>

\* The indexer goes down, and may stay down, or comes back.
Outage ==
  /\ up' = ~ up
  /\ UNCHANGED <<registry, past, changes, stage, header, payer, profile, code, held, empty>>

Gate(r) == Served(r) \/ ServedNoAgent(r) \/ LookupFails(r) \/ Decide(r)

Next ==
  \/ \E r \in Requests : Receive(r) \/ Gate(r)
  \/ \E a \in Accounts, p \in Entries : Change(a, p)
  \/ Outage

Spec == Init /\ [][Next]_vars

\* A request that is being handled goes on: the lookup returns, or its
\* time-out (timeout_s) raises.  Nobody has to send a request.
FairSpec == Spec /\ \A r \in Requests : WF_vars(Gate(r))

-----------------------------------------------------------------------------
(***************************************************************************)
(* Properties                                                              *)
(***************************************************************************)
\* Every variable keeps its shape.
TypeOK ==
  /\ registry \in [Accounts -> Entries] /\ past \in [Accounts -> SUBSET Entries]
  /\ up \in BOOLEAN /\ changes \in 0 .. MaxChanges
  /\ stage \in [Requests -> {"idle", "lookup", "decide", "answered"}]
  /\ header \in [Requests -> Headers]
  /\ payer \in [Requests -> Accounts \cup {NoPayer}]
  /\ profile \in [Requests -> Entries]
  /\ code \in [Requests -> Codes]
  /\ held \in [Requests -> SUBSET Entries] /\ empty \subseteq Requests

Meets(p) ==
  /\ p # NoProfile /\ ~ p.frozen
  /\ p.score \in Int \cup {Missing} /\ Number(p.score) >= MinScore
  /\ p.bond \in Int \cup {Missing} /\ Number(p.bond) >= MinBond

\* A pass was earned, however the registry moved under the lookup: at one
\* instant the payer met the whole policy, unfrozen, score and bond
\* together.  The instant lies within the request; behind a mirror, it may
\* lie before it.
PassWasEarned ==
  \A r \in Requests : code[r] = "PASS" => \E p \in held[r] : Meets(p)

\* A refusal was true of the payer at such an instant, and a lookup that
\* failed is never reported as the agent's failure.  The exception is a
\* reply of the indexer that carries no agent: whatever its bond, the payer
\* is told it is not registered.
Justifies(p, c) ==
  CASE c = "NOT_BONDED" -> p = NoProfile
    [] c = "FROZEN" -> p # NoProfile /\ p.frozen
    [] c = "SCORE_BELOW_MIN" ->
         /\ p # NoProfile /\ ~ p.frozen
         /\ p.score # Malformed /\ Number(p.score) < MinScore
    [] c = "BOND_BELOW_MIN" ->
         /\ p # NoProfile /\ ~ p.frozen
         /\ p.score # Malformed /\ Number(p.score) >= MinScore
         /\ p.bond # Malformed /\ Number(p.bond) < MinBond
RefusalWasTrue ==
  \A r \in Requests :
    code[r] \in Refusals =>
      \/ \E p \in held[r] : Justifies(p, code[r])
      \/ r \in empty /\ code[r] = "NOT_BONDED"

\* A 402 asks for another payment: a header that was answered with it is
\* answered with it on every other request, whatever the registry holds, and
\* one that was not, never.
PaymentRequiredIsFinal ==
  \A r, q \in Requests :
    header[r] = header[q] /\ "answered" = stage[r] /\ "answered" = stage[q] =>
      (Status(code[r]) = 402 <=> Status(code[q]) = 402)

\* "run the policy against its trust profile, and return a discriminated
\* `GateResult`" (x402.py, lines 195-196): no request ends in an exception.
ReturnsGateResult == \A r \in Requests : code[r] # "raised"

\* Every request that came in is answered, also when the indexer is down
\* for good.
EveryRequestIsAnswered ==
  \A r \in Requests : stage[r] = "lookup" ~> stage[r] = "answered"
=============================================================================
