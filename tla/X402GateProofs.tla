--------------------------- MODULE X402GateProofs ---------------------------
(***************************************************************************)
(* The gate's safety for any number of requests, accounts and changes of   *)
(* the registry.                                                           *)
(***************************************************************************)
EXTENDS X402Gate, InductionLemmas

(***************************************************************************)
(* The signer that pays.                                                   *)
(***************************************************************************)
\* The headers that name a payer are transactions, and the payer is a signer
\* of theirs.
LEMMA PayerSigned ==
  ASSUME NEW h \in Headers, Usable(h)
  PROVE  Payer(h) \in Accounts
PROOF
  <1>. DEFINE T == SignedAccounts(h)
              Signers == [key : Accounts, signed : BOOLEAN]
  <1>1. h.signers \in Seq(Signers)
    BY GateAssumption DEF Usable, Broken
  <1>2. T \in SUBSET Nat /\ T # {}
    BY <1>1 DEF SignedAccounts, Usable
  <1>3. Min(T) \in T /\ \A k \in T : Min(T) <= k
    BY <1>2, LeastNatural
  <1>4. Min(T) \in 1 .. Len(h.signers)
    BY <1>3 DEF SignedAccounts
  <1>. HIDE DEF T, Signers
  <1>5. h.signers[Min(T)] \in Signers
    BY <1>1, <1>4
  <1>6. h.signers[Min(T)].key \in Accounts
    BY <1>5 DEF Signers
  <1>. QED  BY <1>6 DEF Payer, T

(***************************************************************************)
(* The codes.                                                              *)
(***************************************************************************)
\* A header without a payer is answered with a code that no profile gets.
LEMMA HeaderCodes ==
  ASSUME NEW h \in Headers, ~ Usable(h)
  PROVE  HeaderCode(h) \in Unusable \cup {"raised"}
PROOF
  BY GateAssumption DEF HeaderCode, Broken, Unusable

\* The policy passes a profile that meets it, and refuses one for a reason.
LEMMA DecisionIsSound ==
  ASSUME NEW p \in Entries
  PROVE  /\ Decision(p) \in Refusals \cup {"PASS", "raised"}
         /\ Decision(p) = "PASS" => Meets(p)
         /\ Decision(p) \in Refusals => Justifies(p, Decision(p))
PROOF
  <1>1. CASE p = NoProfile
    BY <1>1 DEF Decision, Refusals, Justifies
  <1>2. CASE p # NoProfile
    <2>1. p.frozen \in BOOLEAN /\ p.score \in Fields /\ p.bond \in Fields
      BY <1>2, GateAssumption DEF Entries
    <2>2. \A f \in Fields : f # Malformed =>
            f \in Int \cup {Missing} /\ Number(f) \in Int
      BY GateAssumption DEF Fields, Number
    <2>3. CASE p.frozen
      BY <1>2, <2>3 DEF Decision, Refusals, Justifies
    <2>4. CASE ~ p.frozen /\ (p.score = Malformed \/ Number(p.score) < MinScore)
      BY <1>2, <2>4 DEF Decision, Refusals, Justifies
    <2>5. CASE ~ p.frozen /\ p.score # Malformed /\ ~ (Number(p.score) < MinScore)
      <3>1. Number(p.score) >= MinScore
        BY <2>1, <2>2, <2>5, GateAssumption
      <3>2. CASE p.bond = Malformed \/ Number(p.bond) < MinBond
        BY <1>2, <2>5, <3>1, <3>2 DEF Decision, Refusals, Justifies
      <3>3. CASE p.bond # Malformed /\ ~ (Number(p.bond) < MinBond)
        <4>1. Number(p.bond) >= MinBond
          BY <2>1, <2>2, <3>3, GateAssumption
        <4>. QED
          BY <1>2, <2>1, <2>2, <2>5, <3>1, <3>3, <4>1
          DEF Decision, Refusals, Justifies, Meets
      <3>. QED  BY <3>2, <3>3
    <2>. QED  BY <2>3, <2>4, <2>5
  <1>. QED  BY <1>1, <1>2

(***************************************************************************)
(* The inductive invariant.  What the properties say of an answered        *)
(* request, they cannot say of one whose lookup is under way: a profile    *)
(* that was read is one the payer had by then, and so is the registry's as *)
(* long as nothing was read.                                               *)
(***************************************************************************)
Outcomes(r) ==
  IF Usable(header[r])
  THEN {"LOOKUP_FAILED"} \cup {Decision(p) : p \in held[r]}
         \cup {c \in {"NOT_BONDED"} : r \in empty}
  ELSE {HeaderCode(header[r])}

InFlight(r) ==
  /\ code[r] = "none"
  /\ Usable(header[r]) /\ payer[r] = Payer(header[r])

RequestInv(r) ==
  /\ stage[r] = "idle" => code[r] = "none"
  /\ stage[r] = "lookup" => InFlight(r) /\ registry[payer[r]] \in held[r]
  /\ stage[r] = "decide" =>
       /\ InFlight(r)
       /\ \/ profile[r] \in held[r]
          \/ r \in empty /\ profile[r] = NoProfile
  /\ stage[r] = "answered" => code[r] \in Outcomes(r)

PastInv == \A a \in Accounts : registry[a] \in past[a]

IInv == TypeOK /\ PastInv /\ \A r \in Requests : RequestInv(r)

\* An answer is a code.
LEMMA OutcomesAreCodes ==
  ASSUME TypeOK, NEW r \in Requests
  PROVE  Outcomes(r) \subseteq Codes
PROOF
  <1>1. header[r] \in Headers /\ held[r] \subseteq Entries
    BY DEF TypeOK
  <1>. QED
    BY <1>1, HeaderCodes, DecisionIsSound DEF Outcomes, Codes, Refusals

LEMMA InitIInv == Init => IInv
PROOF
  BY GateAssumption DEF Init, IInv, TypeOK, PastInv, RequestInv, Entries, Codes

\* A step of one request leaves the others as they were.
LEMMA OthersKeep ==
  ASSUME IInv, NEW r \in Requests,
         UNCHANGED <<world, header>>,
         \A q \in Requests \ {r} :
           /\ stage'[q] = stage[q] /\ payer'[q] = payer[q]
           /\ profile'[q] = profile[q] /\ code'[q] = code[q] /\ held'[q] = held[q]
           /\ q \in empty' <=> q \in empty
  PROVE  \A q \in Requests \ {r} : RequestInv(q)'
PROOF
  BY DEF IInv, RequestInv, InFlight, Outcomes, world

LEMMA NextIInv == IInv /\ [Next]_vars => IInv'
PROOF
  <1>. SUFFICES ASSUME IInv, [Next]_vars PROVE IInv'
    OBVIOUS
  <1>. USE DEF world
  <1>0. UNCHANGED world => PastInv'
    BY DEF IInv, PastInv
  <1>1. ASSUME NEW r \in Requests, Receive(r) PROVE IInv'
    <2>1. CASE Usable(header[r])
      <3>. DEFINE a == Payer(header[r])
      <3>1. a \in Accounts
        BY <2>1, PayerSigned DEF IInv, TypeOK
      <3>2. /\ payer' = [payer EXCEPT ![r] = a]
            /\ stage' = [stage EXCEPT ![r] = "lookup"]
            /\ held' = [held EXCEPT ![r] = IF r \in Cached THEN past[a]
                                           ELSE {registry[a]}]
            /\ UNCHANGED <<code, world, header, profile, empty>>
            /\ stage[r] = "idle"
        BY <1>1, <2>1 DEF Receive
      <3>. HIDE DEF a
      <3>3. TypeOK'
        BY <3>1, <3>2 DEF IInv, TypeOK
      <3>4. RequestInv(r)'
        <4>1. registry[a] \in held'[r]
          BY <3>1, <3>2 DEF IInv, TypeOK, PastInv
        <4>. QED  BY <2>1, <3>2, <4>1 DEF IInv, TypeOK, RequestInv, InFlight, a
      <3>5. \A q \in Requests \ {r} : RequestInv(q)'
        BY <3>2, OthersKeep DEF IInv, TypeOK
      <3>. QED  BY <1>0, <3>2, <3>3, <3>4, <3>5 DEF IInv
    <2>2. CASE ~ Usable(header[r])
      <3>. DEFINE c == HeaderCode(header[r])
      <3>1. c \in Codes
        BY <2>2, HeaderCodes DEF IInv, TypeOK, Codes
      <3>2. /\ code' = [code EXCEPT ![r] = c]
            /\ stage' = [stage EXCEPT ![r] = "answered"]
            /\ UNCHANGED <<payer, held, world, header, profile, empty>>
        BY <1>1, <2>2 DEF Receive, Answer
      <3>. HIDE DEF c
      <3>3. TypeOK'
        BY <3>1, <3>2 DEF IInv, TypeOK
      <3>4. RequestInv(r)'
        BY <2>2, <3>2 DEF IInv, TypeOK, RequestInv, Outcomes, c
      <3>5. \A q \in Requests \ {r} : RequestInv(q)'
        BY <3>2, OthersKeep DEF IInv, TypeOK
      <3>. QED  BY <1>0, <3>2, <3>3, <3>4, <3>5 DEF IInv
    <2>. QED  BY <2>1, <2>2
  <1>2. ASSUME NEW r \in Requests, Served(r) PROVE IInv'
    <2>1. Copies(r) \subseteq held[r] /\ held[r] \subseteq Entries
      BY <1>2 DEF Served, Copies, IInv, TypeOK, RequestInv
    <2>2. TypeOK'
      BY <1>2, <2>1 DEF Served, IInv, TypeOK
    <2>3. RequestInv(r)'
      BY <1>2, <2>1 DEF Served, IInv, TypeOK, RequestInv, InFlight
    <2>4. \A q \in Requests \ {r} : RequestInv(q)'
      BY <1>2, OthersKeep DEF Served, IInv, TypeOK
    <2>. QED  BY <1>0, <1>2, <2>2, <2>3, <2>4 DEF IInv, Served
  <1>9. ASSUME NEW r \in Requests, ServedNoAgent(r) PROVE IInv'
    <2>1. TypeOK'
      BY <1>9 DEF ServedNoAgent, IInv, TypeOK, Entries
    <2>2. RequestInv(r)'
      BY <1>9 DEF ServedNoAgent, IInv, TypeOK, RequestInv, InFlight
    <2>3. \A q \in Requests \ {r} : RequestInv(q)'
      BY <1>9, OthersKeep DEF ServedNoAgent, IInv, TypeOK
    <2>. QED  BY <1>0, <1>9, <2>1, <2>2, <2>3 DEF IInv, ServedNoAgent
  <1>3. ASSUME NEW r \in Requests, NEW c, Answer(r, c), c \in Outcomes(r),
               UNCHANGED <<world, header, payer, profile, held, empty>>
        PROVE  IInv'
    <2>1. c \in Codes
      BY <1>3, OutcomesAreCodes DEF IInv
    <2>2. TypeOK'
      BY <1>3, <2>1 DEF Answer, IInv, TypeOK
    <2>3. RequestInv(r)'
      BY <1>3 DEF Answer, IInv, TypeOK, RequestInv, Outcomes
    <2>4. \A q \in Requests \ {r} : RequestInv(q)'
      BY <1>3, OthersKeep DEF Answer, IInv, TypeOK
    <2>. QED  BY <1>0, <1>3, <2>2, <2>3, <2>4 DEF IInv
  <1>4. ASSUME NEW r \in Requests, LookupFails(r) PROVE IInv'
    <2>1. "LOOKUP_FAILED" \in Outcomes(r)
      BY <1>4 DEF LookupFails, IInv, RequestInv, InFlight, Outcomes
    <2>. QED  BY <1>3, <1>4, <2>1 DEF LookupFails
  <1>5. ASSUME NEW r \in Requests, Decide(r) PROVE IInv'
    <2>1. Decision(profile[r]) \in Outcomes(r)
      BY <1>5 DEF Decide, Decision, IInv, RequestInv, InFlight, Outcomes
    <2>. QED  BY <1>3, <1>5, <2>1 DEF Decide
  <1>6. ASSUME NEW a \in Accounts, NEW p \in Entries, Change(a, p) PROVE IInv'
    <2>1. TypeOK'
      BY <1>6, GateAssumption DEF Change, IInv, TypeOK
    <2>2. ASSUME NEW r \in Requests PROVE RequestInv(r)'
      <3>1. /\ registry' = [registry EXCEPT ![a] = p]
            /\ held'[r] = IF stage[r] = "lookup" /\ payer[r] = a
                          THEN held[r] \cup {p} ELSE held[r]
            /\ UNCHANGED <<stage, header, payer, profile, code, empty>>
        BY <1>6 DEF Change
      <3>2. held[r] \subseteq held'[r]
        BY <3>1
      <3>3. stage[r] = "lookup" => registry'[payer[r]] \in held'[r]
        BY <3>1 DEF IInv, TypeOK, RequestInv
      <3>4. code[r] \in Outcomes(r) => code[r] \in Outcomes(r)'
        BY <3>1, <3>2 DEF Outcomes
      <3>. QED  BY <3>1, <3>2, <3>3, <3>4 DEF IInv, RequestInv, InFlight
    <2>3. PastInv'
      BY <1>6 DEF Change, IInv, TypeOK, PastInv
    <2>. QED  BY <2>1, <2>2, <2>3 DEF IInv
  <1>7. CASE Outage
    BY <1>7 DEF Outage, IInv, TypeOK, PastInv, RequestInv, InFlight, Outcomes
  <1>8. CASE UNCHANGED vars
    BY <1>8 DEF vars, IInv, TypeOK, PastInv, RequestInv, InFlight, Outcomes
  <1>. QED  BY <1>1, <1>2, <1>4, <1>5, <1>6, <1>7, <1>8, <1>9 DEF Next, Gate

LEMMA SpecIInv == Spec => []IInv
PROOF
  BY InitIInv, NextIInv, PTL DEF Spec

(***************************************************************************)
(* What follows of every reachable state.                                  *)
(***************************************************************************)
\* Requests, profiles and the registry keep their shapes.
THEOREM SpecTypeOK == Spec => []TypeOK
PROOF
  <1>1. IInv => TypeOK  BY DEF IInv
  <1>. QED  BY <1>1, SpecIInv, PTL

\* A code that is the policy's was decided on a profile the payer had, or on
\* the None of a reply without an agent.
LEMMA DecidedOnHeld ==
  ASSUME IInv, NEW r \in Requests, code[r] \in Refusals \cup {"PASS"}
  PROVE  \/ \E p \in held[r] : p \in Entries /\ code[r] = Decision(p)
         \/ r \in empty /\ code[r] = "NOT_BONDED"
PROOF
  <1>1. code[r] \in Outcomes(r)
    BY DEF IInv, TypeOK, RequestInv, InFlight, Refusals
  <1>2. header[r] \in Headers /\ held[r] \subseteq Entries
    BY DEF IInv, TypeOK
  <1>3. Usable(header[r])
    BY <1>1, <1>2, HeaderCodes DEF Outcomes, Unusable, Refusals
  <1>. QED  BY <1>1, <1>2, <1>3 DEF Outcomes, Refusals

\* apply_x402_gate passes a payer only if, at one instant of the request, or
\* before it behind a mirror, it met the whole policy.
THEOREM SpecPassWasEarned == Spec => []PassWasEarned
PROOF
  <1>1. IInv => PassWasEarned
    <2>. SUFFICES ASSUME IInv, NEW r \in Requests, code[r] = "PASS"
                  PROVE  \E p \in held[r] : Meets(p)
      BY DEF PassWasEarned
    <2>1. PICK p \in held[r] : p \in Entries /\ code[r] = Decision(p)
      BY DecidedOnHeld
    <2>. QED  BY <2>1, DecisionIsSound
  <1>. QED  BY <1>1, SpecIInv, PTL

\* It refuses a payer only for what was true of it at one such instant,
\* unless the indexer's reply carried no agent.
THEOREM SpecRefusalWasTrue == Spec => []RefusalWasTrue
PROOF
  <1>1. IInv => RefusalWasTrue
    BY DecidedOnHeld, DecisionIsSound DEF RefusalWasTrue
  <1>. QED  BY <1>1, SpecIInv, PTL

\* Whether a request is answered with 402 is a fact about its header.
THEOREM SpecPaymentRequiredIsFinal == Spec => []PaymentRequiredIsFinal
PROOF
  <1>. DEFINE Pay(h) == ~ Usable(h) /\ Status(HeaderCode(h)) = 402
  <1>1. ASSUME IInv, NEW r \in Requests, stage[r] = "answered"
        PROVE  Status(code[r]) = 402 <=> Pay(header[r])
    <2>1. code[r] \in Outcomes(r) /\ held[r] \subseteq Entries
      BY <1>1 DEF IInv, TypeOK, RequestInv
    <2>2. CASE Usable(header[r])
      <3>1. code[r] \in Refusals \cup {"PASS", "raised", "LOOKUP_FAILED"}
        BY <2>1, <2>2, DecisionIsSound DEF Outcomes, Refusals
      <3>2. Status(code[r]) # 402
        BY <3>1 DEF Status, Refusals, Unusable
      <3>. QED  BY <2>2, <3>2
    <2>3. CASE ~ Usable(header[r])
      BY <2>1, <2>3 DEF Outcomes
    <2>. QED  BY <2>2, <2>3
  <1>. HIDE DEF Pay
  <1>2. IInv => PaymentRequiredIsFinal
    BY <1>1 DEF PaymentRequiredIsFinal
  <1>. QED  BY <1>2, SpecIInv, PTL
=============================================================================
