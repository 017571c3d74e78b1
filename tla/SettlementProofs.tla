-------------------------- MODULE SettlementProofs --------------------------
(***************************************************************************)
(* The settlement calls, for any number of calls and requests, any amount  *)
(* and any size of a byte: what the builders encode is what the program    *)
(* reads, so that what executes is what was asked for.                     *)
(***************************************************************************)
EXTENDS Settlement, InductionLemmas, SequenceTheorems

-----------------------------------------------------------------------------
(***************************************************************************)
(* Integers as bytes.                                                      *)
(***************************************************************************)
LEMMA WeightDef ==
  Weight = [k \in 0 .. 8 |-> IF k = 0 THEN 1 ELSE Base * Weight[k - 1]]
PROOF
  <1>. DEFINE Eq(w, n) == w = [k \in 0 .. n |-> IF k = 0 THEN 1 ELSE Base * w[k - 1]]
              Good == {n \in Nat : \E w : Eq(w, n)}
  <1>1. 0 \in Good
    <2>1. Eq([k \in 0 .. 0 |-> 1], 0)
      OBVIOUS
    <2>. HIDE DEF Eq
    <2>. QED  BY <2>1
  <1>2. ASSUME NEW n \in Nat, n \in Good PROVE n + 1 \in Good
    <2>1. PICK w : Eq(w, n)
      BY <1>2
    <2>. DEFINE v == [k \in 0 .. n + 1 |-> IF k = 0 THEN 1 ELSE Base * w[k - 1]]
    <2>2. \A k \in 0 .. n : v[k] = w[k]
      BY <2>1
    <2>3. Eq(v, n + 1)
      <3>1. \A k \in 0 .. n + 1 : k # 0 => k - 1 \in 0 .. n /\ v[k - 1] = w[k - 1]
        BY <2>2
      <3>. QED  BY <3>1
    <2>. HIDE DEF v, Eq
    <2>. QED  BY <2>3
  <1>3. Nat \subseteq Good
    <2>. HIDE DEF Good
    <2>. QED  BY <1>1, <1>2, SetInduction
  <1>4. \E w : Eq(w, 8)
    BY <1>3
  <1>. QED  BY <1>4 DEF Weight

\* Every byte is worth Base times the one before.
LEMMA Weights ==
  /\ Weight[0] = 1
  /\ \A k \in 0 .. 7 : Weight[k + 1] = Base * Weight[k]
  /\ \A k \in 0 .. 8 : Weight[k] \in Nat \ {0}
PROOF
  <1>. DEFINE Good == {n \in Nat : n <= 8 => Weight[n] \in Nat \ {0}}
  <1>1. Weight[0] = 1 /\ \A k \in 0 .. 7 : Weight[k + 1] = Base * Weight[k]
    <2>1. Weight[0] = 1
      BY WeightDef
    <2>2. ASSUME NEW k \in 0 .. 7 PROVE Weight[k + 1] = Base * Weight[k]
      <3>1. k + 1 \in 0 .. 8 /\ k + 1 # 0 /\ (k + 1) - 1 = k
        OBVIOUS
      <3>. QED  BY <3>1, WeightDef
    <2>. QED  BY <2>1, <2>2
  <1>2. 0 \in Good
    BY <1>1
  <1>3. ASSUME NEW n \in Nat, n \in Good PROVE n + 1 \in Good
    <2>. SUFFICES ASSUME n + 1 <= 8 PROVE Weight[n + 1] \in Nat \ {0}
      OBVIOUS
    <2>1. Weight[n] \in Nat \ {0} /\ Weight[n + 1] = Base * Weight[n]
      BY <1>1, <1>3
    <2>. QED  BY <2>1, BaseAssumption
  <1>4. Nat \subseteq Good
    <2>. HIDE DEF Good
    <2>. QED  BY <1>2, <1>3, SetInduction
  <1>. QED  BY <1>1, <1>4

\* to_bytes writes as many bytes as the width.
LEMMA LittleEndianType ==
  ASSUME NEW value \in Nat, NEW width \in 0 .. 8
  PROVE  /\ LittleEndian(value, width) \in Seq(0 .. Base - 1)
         /\ Len(LittleEndian(value, width)) = width
PROOF
  <1>1. \A k \in 1 .. width : (value \div Weight[k - 1]) % Base \in 0 .. Base - 1
    <2>. TAKE k \in 1 .. width
    <2>1. Weight[k - 1] \in Nat \ {0}
      BY Weights
    <2>2. value \div Weight[k - 1] \in Nat
      BY <2>1, DivMod
    <2>. QED  BY <2>2, BaseAssumption, DivMod
  <1>. QED  BY <1>1 DEF LittleEndian

\* The program reads from such bytes the number that was written to them.
THEOREM NumberReads ==
  ASSUME NEW i, NEW first \in Nat, NEW width \in 0 .. 8, NEW value, Fits(value, width),
         \A k \in 1 .. width : i.data[first + (k - 1)] = LittleEndian(value, width)[k]
  PROVE  Number(i, first, width) = value
PROOF
  <1>. DEFINE f == [k \in 0 .. width - 1 |-> i.data[first + k] * Weight[k]]
              Sum(n) == SumFunctionOnSet(f, 0 .. n - 1)
              Good == {n \in Nat : n <= width => Sum(n) = value % Weight[n]}
  <1>1. value \in Nat /\ value < Weight[width] /\ Weight[width] \in Nat \ {0}
    BY Weights DEF Fits
  <1>2. ASSUME NEW k \in 0 .. width - 1
        PROVE  /\ k \in 0 .. 7 /\ Weight[k] \in Nat \ {0}
               /\ Weight[k + 1] = Base * Weight[k]
               /\ f[k] = ((value \div Weight[k]) % Base) * Weight[k]
               /\ f[k] \in Int
    <2>1. k \in 0 .. 7 /\ k + 1 \in 1 .. width /\ (k + 1) - 1 = k
      OBVIOUS
    <2>2. Weight[k] \in Nat \ {0} /\ Weight[k + 1] = Base * Weight[k]
      BY <2>1, Weights
    <2>3. i.data[first + ((k + 1) - 1)] = LittleEndian(value, width)[k + 1]
      BY <2>1
    <2>4. i.data[first + k] = (value \div Weight[k]) % Base
      BY <2>1, <2>3 DEF LittleEndian
    <2>5. f[k] = ((value \div Weight[k]) % Base) * Weight[k]
      BY <2>4
    <2>. HIDE DEF f
    <2>. DEFINE q == value \div Weight[k]
                digit == q % Base
    <2>6. q \in Nat
      BY <1>1, <2>2, DivMod
    <2>. HIDE DEF q
    <2>7. digit \in Int
      BY <2>6, BaseAssumption, DivMod
    <2>8. f[k] = digit * Weight[k]
      BY <2>5 DEF q
    <2>. HIDE DEF digit
    <2>9. f[k] \in Int
      BY <2>2, <2>7, <2>8
    <2>. QED  BY <2>1, <2>2, <2>5, <2>9
  <1>. HIDE DEF f
  <1>3. 0 \in Good
    <2>1. 0 .. 0 - 1 = {}
      OBVIOUS
    <2>2. Sum(0) = 0
      BY <2>1, FS_EmptySet, SumSteps
    <2>3. value % Weight[0] = 0
      BY <1>1, Weights
    <2>. QED  BY <2>2, <2>3
  <1>4. ASSUME NEW n \in Nat, n \in Good PROVE n + 1 \in Good
    <2>. SUFFICES ASSUME n + 1 <= width PROVE Sum(n + 1) = value % Weight[n + 1]
      OBVIOUS
    <2>. DEFINE S == 0 .. n - 1
    <2>1. n \in 0 .. width - 1 /\ 0 .. (n + 1) - 1 = S \cup {n} /\ n \notin S
      OBVIOUS
    <2>2. IsFiniteSet(S) /\ \A k \in S \cup {n} : f[k] \in Int
      <3>1. n - 1 \in Int
        OBVIOUS
      <3>2. IsFiniteSet(S)
        BY <3>1, FS_Interval
      <3>3. S \cup {n} \subseteq 0 .. width - 1
        BY <2>1
      <3>4. \A k \in 0 .. width - 1 : f[k] \in Int
        BY <1>2
      <3>. HIDE DEF S
      <3>. QED  BY <3>2, <3>3, <3>4
    <2>. HIDE DEF S
    <2>3. SumFunctionOnSet(f, S \cup {n}) = f[n] + SumFunctionOnSet(f, S)
      BY <2>1, <2>2, SumAdd
    <2>4. Sum(n) = value % Weight[n]
      BY <1>4
    <2>. DEFINE u == Weight[n]
    <2>5. u \in Nat \ {0} /\ Weight[n + 1] = Base * u
      BY <1>2, <2>1
    <2>6. f[n] = ((value \div u) % Base) * u /\ f[n] \in Int
      BY <1>2, <2>1
    <2>. HIDE DEF u
    <2>7. value % (Base * u) = (value % u) + ((value \div u) % Base) * u
      BY <1>1, <2>5, BaseAssumption, NextDigit
    <2>8. (value % u) \in Int
      BY <1>1, <2>5, DivMod
    <2>9. Sum(n) = value % u
      BY <2>4 DEF u
    <2>10. value % Weight[n + 1] = (value % u) + f[n]
      BY <2>5, <2>6, <2>7
    <2>11. Sum(n + 1) = f[n] + Sum(n)
      BY <2>1, <2>3 DEF S
    <2>. HIDE DEF Sum
    <2>. QED  BY <2>6, <2>8, <2>9, <2>10, <2>11
  <1>5. Nat \subseteq Good
    <2>. HIDE DEF Good
    <2>. QED  BY <1>3, <1>4, SetInduction
  <1>6. Sum(width) = value % Weight[width]
    BY <1>5
  <1>7. value % Weight[width] = value
    BY <1>1
  <1>8. Number(i, first, width) = Sum(width)
    BY DEF Number, SumFunction, f
  <1>. QED  BY <1>6, <1>7, <1>8

\* One argument after the other.
LEMMA EncodedOne ==
  ASSUME NEW value, NEW width
  PROVE  Encoded(<<<<value, width>>>>) = LittleEndian(value, width)
PROOF
  <1>. DEFINE parts == [k \in 1 .. 1 |-> LittleEndian(value, width)]
              Eq(f) == f = [i \in 1 .. 1 |-> IF i = 1 THEN parts[i] ELSE f[i - 1] \o parts[i]]
  <1>1. Encoded(<<<<value, width>>>>) = FlattenSeq(parts)
    BY DEF Encoded
  <1>2. Len(parts) = 1
    OBVIOUS
  <1>3. Eq(parts)
    OBVIOUS
  <1>4. Eq(CHOOSE f : Eq(f))
    <2>. HIDE DEF Eq
    <2>. QED  BY <1>3
  <1>5. FlattenSeq(parts) = (CHOOSE f : Eq(f))[1]
    <2>. HIDE DEF parts
    <2>. QED  BY <1>2 DEF FlattenSeq
  <1>. QED  BY <1>1, <1>4, <1>5

LEMMA EncodedTwo ==
  ASSUME NEW v, NEW m, NEW w, NEW n
  PROVE  Encoded(<<<<v, m>>, <<w, n>>>>) = LittleEndian(v, m) \o LittleEndian(w, n)
PROOF
  <1>. DEFINE args == <<<<v, m>>, <<w, n>>>>
              parts == [k \in 1 .. 2 |-> LittleEndian(args[k][1], args[k][2])]
              Eq(f) == f = [i \in 1 .. 2 |-> IF i = 1 THEN parts[i] ELSE f[i - 1] \o parts[i]]
              both == [i \in 1 .. 2 |-> IF i = 1 THEN parts[1] ELSE parts[1] \o parts[2]]
  <1>1. Encoded(args) = FlattenSeq(parts)
    BY DEF Encoded
  <1>2. Len(parts) = 2 /\ parts[1] = LittleEndian(v, m) /\ parts[2] = LittleEndian(w, n)
    OBVIOUS
  <1>. HIDE DEF parts
  <1>3. Eq(both)
    OBVIOUS
  <1>4. Eq(CHOOSE f : Eq(f))
    <2>. HIDE DEF Eq, both
    <2>. QED  BY <1>3
  <1>5. FlattenSeq(parts) = (CHOOSE f : Eq(f))[2]
    BY <1>2 DEF FlattenSeq
  <1>6. ASSUME NEW f, Eq(f) PROVE f[2] = parts[1] \o parts[2]
    <2>. DEFINE Value(k) == IF k = 1 THEN parts[k] ELSE f[k - 1] \o parts[k]
    <2>0. \A k \in 1 .. 2 : f[k] = Value(k)
      BY <1>6, Zenon
    <2>1. f[1] = parts[1]
      BY <2>0
    <2>2. f[2] = f[1] \o parts[2]
      <3>1. f[2] = Value(2)
        <4>. HIDE DEF Value
        <4>. QED  BY <2>0
      <3>2. Value(2) = f[2 - 1] \o parts[2]
        OBVIOUS
      <3>3. 2 - 1 = 1
        OBVIOUS
      <3>. QED  BY <3>1, <3>2, <3>3, Zenon
    <2>. QED  BY <2>1, <2>2
  <1>. HIDE DEF Eq
  <1>7. FlattenSeq(parts) = parts[1] \o parts[2]
    BY <1>4, <1>5, <1>6
  <1>. QED  BY <1>1, <1>2, <1>7

-----------------------------------------------------------------------------
(***************************************************************************)
(* The builders.  An instruction has the program, the accounts and the     *)
(* name it was built with, and the program reads the arguments back.       *)
(***************************************************************************)
Shaped(i, program, metas, name) ==
  /\ i.program_id = program /\ i.accounts = metas /\ i.disc = name
  /\ i.data \in Seq(0 .. Base - 1)

\* One argument, and two.
One(v, width) == <<<<v, width>>>>
Two(v, m, w, n) == <<<<v, m>>, <<w, n>>>>

\* From these bytes of i the program reads v.
Carries(i, first, width, v) == v \in Nat /\ Number(i, first, width) = v

\* i is the instruction of these arguments.
Encodes(i, program, metas, name, args) ==
  i = Instruction(program, metas, name, args) /\ i # ValueError

LEMMA InstructionOfOne ==
  ASSUME NEW program, NEW metas, NEW name, NEW v, NEW width \in 0 .. 8,
         NEW i, Encodes(i, program, metas, name, One(v, width))
  PROVE  /\ Shaped(i, program, metas, name)
         /\ Carries(i, 1, width, v)
PROOF
  <1>. DEFINE args == <<<<v, width>>>>
  <1>1. 1 \in DOMAIN args /\ args[1][1] = v /\ args[1][2] = width
    OBVIOUS
  <1>2. /\ Fits(v, width)
        /\ i = [program_id |-> program, accounts |-> metas, disc |-> name,
                data |-> Encoded(args)]
    <2>. HIDE DEF args
    <2>0. One(v, width) = args
      BY DEF One, args
    <2>. QED  BY <1>1, <2>0 DEF Instruction, Encodes
  <1>3. Encoded(args) = LittleEndian(v, width)
    BY EncodedOne
  <1>. HIDE DEF args
  <1>4. v \in Nat
    BY <1>2, Weights DEF Fits
  <1>5. LittleEndian(v, width) \in Seq(0 .. Base - 1)
    BY <1>4, LittleEndianType
  <1>6. \A k \in 1 .. width : i.data[1 + (k - 1)] = LittleEndian(v, width)[k]
    BY <1>2, <1>3
  <1>7. Number(i, 1, width) = v
    BY <1>2, <1>6, NumberReads
  <1>. QED  BY <1>2, <1>3, <1>4, <1>5, <1>7 DEF Shaped, Carries

LEMMA InstructionOfTwo ==
  ASSUME NEW program, NEW metas, NEW name,
         NEW v, NEW m \in 0 .. 8, NEW w, NEW n \in 0 .. 8,
         NEW i, Encodes(i, program, metas, name, Two(v, m, w, n))
  PROVE  /\ Shaped(i, program, metas, name)
         /\ Carries(i, 1, m, v) /\ Carries(i, m + 1, n, w)
PROOF
  <1>. DEFINE args == <<<<v, m>>, <<w, n>>>>
              head == LittleEndian(v, m)
              tail == LittleEndian(w, n)
  <1>1. /\ 1 \in DOMAIN args /\ args[1][1] = v /\ args[1][2] = m
        /\ 2 \in DOMAIN args /\ args[2][1] = w /\ args[2][2] = n
    OBVIOUS
  <1>2. /\ Fits(v, m) /\ Fits(w, n)
        /\ i = [program_id |-> program, accounts |-> metas, disc |-> name,
                data |-> Encoded(args)]
    <2>. HIDE DEF args
    <2>0. Two(v, m, w, n) = args
      BY DEF Two, args
    <2>. QED  BY <1>1, <2>0 DEF Instruction, Encodes
  <1>3. Encoded(args) = head \o tail
    <2>1. Encoded(<<<<v, m>>, <<w, n>>>>) = LittleEndian(v, m) \o LittleEndian(w, n)
      <3>. HIDE DEF args, head, tail
      <3>1. \A a, b, c, d : Encoded(<<<<a, b>>, <<c, d>>>>)
                               = LittleEndian(a, b) \o LittleEndian(c, d)
        BY EncodedTwo, Zenon
      <3>. DEFINE E(a, b, c, d) == Encoded(<<<<a, b>>, <<c, d>>>>)
                               = LittleEndian(a, b) \o LittleEndian(c, d)
      <3>2. \A a, b, c, d : E(a, b, c, d)
        BY <3>1, Zenon
      <3>3. E(v, m, w, n)
        <4>. HIDE DEF E
        <4>. QED  BY <3>2, Zenon
      <3>. QED  BY <3>3, Zenon
    <2>. QED  BY <2>1, Zenon
  <1>. HIDE DEF args
  <1>4. v \in Nat /\ w \in Nat
    BY <1>2, Weights DEF Fits
  <1>5. /\ head \in Seq(0 .. Base - 1) /\ Len(head) = m
        /\ tail \in Seq(0 .. Base - 1) /\ Len(tail) = n
    BY <1>4, LittleEndianType
  <1>. HIDE DEF head, tail
  <1>6. i.data = head \o tail
    <2>1. i.data = Encoded(args)
      BY <1>2
    <2>. QED  BY <1>3, <2>1, Zenon
  <1>7. i.data \in Seq(0 .. Base - 1)
    BY <1>5, <1>6, ConcatProperties
  <1>. DEFINE Joined(k) == IF k <= m THEN head[k] ELSE tail[k - m]
  <1>8. \A k \in 1 .. m + n : i.data[k] = Joined(k)
    <2>1. \A k \in 1 .. Len(head) + Len(tail) :
            (head \o tail)[k] = IF k <= Len(head) THEN head[k] ELSE tail[k - Len(head)]
      BY <1>5, ConcatProperties, Zenon
    <2>2. \A k \in 1 .. m + n : (head \o tail)[k] = Joined(k)
      BY <1>5, <2>1, Zenon
    <2>. QED  BY <1>6, <2>2, Zenon
  <1>9. /\ \A k \in 1 .. m : i.data[1 + (k - 1)] = head[k]
        /\ \A k \in 1 .. n : i.data[(m + 1) + (k - 1)] = tail[k]
    <2>. DEFINE d == i.data
    <2>1. \A k \in 1 .. m + n : d[k] = Joined(k)
      BY <1>8
    <2>. HIDE DEF d
    <2>2. ASSUME NEW k \in 1 .. m PROVE d[1 + (k - 1)] = head[k]
      <3>1. 1 + (k - 1) = k /\ k \in 1 .. m + n /\ k <= m
        OBVIOUS
      <3>. QED  BY <2>1, <3>1
    <2>3. ASSUME NEW k \in 1 .. n PROVE d[(m + 1) + (k - 1)] = tail[k]
      <3>1. (m + 1) + (k - 1) = m + k /\ m + k \in 1 .. m + n
        OBVIOUS
      <3>2. ~ (m + k <= m) /\ (m + k) - m = k
        OBVIOUS
      <3>. QED  BY <2>1, <3>1, <3>2
    <2>. QED  BY <2>2, <2>3 DEF d
  <1>10. Number(i, 1, m) = v
    BY <1>2, <1>9, NumberReads DEF head
  <1>11. Number(i, m + 1, n) = w
    BY <1>2, <1>9, NumberReads DEF tail
  <1>. QED  BY <1>2, <1>4, <1>7, <1>10, <1>11 DEF Shaped, Carries

\* A request whose instruction is built.
Buildable(r) == r \in Requests /\ r.client # "layer" /\ Built(r) # ValueError

\* What a slash asks the program to do with the claim.
ActionOf(r) == IF r.client = "ts" \/ r.keyword = None THEN 0 ELSE r.keyword

\* Where a premium comes from, and who signs for a credit.
SourceOf(r) == IF r.keyword = None THEN r.params.underwriter ELSE r.keyword
SignerOf(r) == IF r.keyword = None THEN r.params.agent ELSE r.keyword

LEMMA Widths == 1 \in 0 .. 8 /\ 2 \in 0 .. 8 /\ 8 \in 0 .. 8
PROOF
  OBVIOUS

LEMMA LockInstruction ==
  ASSUME NEW r, Buildable(r), r.method = "lock_collateral"
  PROVE  /\ Shaped(Built(r), ProgramOf(r), <<ReadOnly(r.params.agent)>>, "view_bond")
         /\ r.params.min_bond_atomic \in Nat /\ r.params.min_score \in Nat
         /\ Args(Built(r)) = [min_bond |-> r.params.min_bond_atomic,
                              min_score |-> r.params.min_score]
PROOF
  <1>. DEFINE i == Built(r)
              p == r.params
              program == ProgramOf(r)
              bond == p.min_bond_atomic
              score == p.min_score
  <1>1. Encodes(i, program, <<ReadOnly(p.agent)>>, "view_bond",
                        Two(bond, 8, score, 2))
    BY DEF Encodes, Buildable, Built, BuiltFor, BuiltInPython, lockCollateralIx, build_view_bond_ix, U64, U16, Two
  <1>. HIDE DEF i, program, bond, score
  <1>2. /\ Shaped(i, program, <<ReadOnly(p.agent)>>, "view_bond")
        /\ Carries(i, 1, 8, bond) /\ Carries(i, 8 + 1, 2, score)
    BY <1>1, Widths, InstructionOfTwo
  <1>3. Args(i) = [min_bond |-> bond, min_score |-> score]
    BY <1>2 DEF Args, Shaped, Carries
  <1>. QED  BY <1>2, <1>3 DEF Carries, i, program, bond, score

LEMMA SlashInstruction ==
  ASSUME NEW r, Buildable(r), r.method = "slash_collateral"
  PROVE  /\ Shaped(Built(r), ProgramOf(r),
                   <<Writable(r.params.claim),
                     Writable(r.params.agent),
                     ReadOnly(r.params.bond_mint),
                     Writable(bond_vault_pda(r.params.agent, ProgramOf(r))),
                     Writable(deposit_vault_pda(r.params.claim, ProgramOf(r))),
                     Writable(r.params.claimer_bond_ata),
                     AccountMeta(r.params.signer, TRUE, FALSE),
                     ReadOnly(TOKEN_PROGRAM_ID)>>, "resolve_claim")
         /\ ActionOf(r) \in Nat
         /\ Args(Built(r)) = [action |-> ActionOf(r)]
PROOF
  <1>. DEFINE i == Built(r)
              p == r.params
              metas == <<Writable(p.claim),
                         Writable(p.agent),
                         ReadOnly(p.bond_mint),
                         Writable(bond_vault_pda(p.agent, ProgramOf(r))),
                         Writable(deposit_vault_pda(p.claim, ProgramOf(r))),
                         Writable(p.claimer_bond_ata),
                         AccountMeta(p.signer, TRUE, FALSE),
                         ReadOnly(TOKEN_PROGRAM_ID)>>
              program == ProgramOf(r)
              action == ActionOf(r)
  <1>1. Encodes(i, program, metas, "resolve_claim", One(action, 1))
    BY DEF Encodes, Buildable, Built, BuiltFor, BuiltInPython, slashCollateralIx, build_resolve_claim_ix, U8, One,
           RESOLVE_ACCEPT, ActionOf
  <1>. HIDE DEF i, metas, program, action
  <1>2. /\ Shaped(i, program, metas, "resolve_claim")
        /\ Carries(i, 1, 1, action)
    BY <1>1, Widths, InstructionOfOne
  <1>3. Args(i) = [action |-> action]
    BY <1>2 DEF Args, Shaped, Carries
  <1>. QED  BY <1>2, <1>3 DEF Carries, i, metas, program, action

LEMMA UnlockInstruction ==
  ASSUME NEW r, Buildable(r), r.method = "unlock_collateral"
  PROVE  /\ Shaped(Built(r), ProgramOf(r),
                   <<Writable(r.params.agent),
                     ReadOnly(r.params.bond_mint),
                     Writable(bond_vault_pda(r.params.agent, ProgramOf(r))),
                     Writable(r.params.controller_bond_ata),
                     AccountMeta(r.params.controller, TRUE, FALSE),
                     ReadOnly(TOKEN_PROGRAM_ID)>>, "withdraw_bond")
         /\ r.params.amount_atomic \in Nat
         /\ Args(Built(r)) = [amount |-> r.params.amount_atomic]
PROOF
  <1>. DEFINE i == Built(r)
              p == r.params
              metas == <<Writable(p.agent),
                         ReadOnly(p.bond_mint),
                         Writable(bond_vault_pda(p.agent, ProgramOf(r))),
                         Writable(p.controller_bond_ata),
                         AccountMeta(p.controller, TRUE, FALSE),
                         ReadOnly(TOKEN_PROGRAM_ID)>>
              program == ProgramOf(r)
              amount == p.amount_atomic
  <1>1. Encodes(i, program, metas, "withdraw_bond", One(amount, 8))
    BY DEF Encodes, Buildable, Built, BuiltFor, BuiltInPython, unlockCollateralIx, build_withdraw_bond_ix, U64, One
  <1>. HIDE DEF i, metas, program, amount
  <1>2. /\ Shaped(i, program, metas, "withdraw_bond")
        /\ Carries(i, 1, 8, amount)
    BY <1>1, Widths, InstructionOfOne
  <1>3. Args(i) = [amount |-> amount]
    BY <1>2 DEF Args, Shaped, Carries
  <1>. QED  BY <1>2, <1>3 DEF Carries, i, metas, program, amount

LEMMA PremiumInstruction ==
  ASSUME NEW r, Buildable(r), r.method = "pay_premium"
  PROVE  /\ Shaped(Built(r), ProgramOf(r),
                   <<Writable(pool_config_pda(ProgramOf(r))),
                     Writable(pool_vault_pda(ProgramOf(r))),
                     Writable(SourceOf(r)),
                     AccountMeta(r.params.payer, TRUE, FALSE),
                     ReadOnly(TOKEN_PROGRAM_ID)>>, "process_pool_yield")
         /\ r.params.amount_atomic \in Nat
         /\ Args(Built(r)) = [amount |-> r.params.amount_atomic]
PROOF
  <1>. DEFINE i == Built(r)
              p == r.params
              metas == <<Writable(pool_config_pda(ProgramOf(r))),
                         Writable(pool_vault_pda(ProgramOf(r))),
                         Writable(SourceOf(r)),
                         AccountMeta(p.payer, TRUE, FALSE),
                         ReadOnly(TOKEN_PROGRAM_ID)>>
              program == ProgramOf(r)
              amount == p.amount_atomic
  <1>1. Encodes(i, program, metas, "process_pool_yield",
                        One(amount, 8))
    BY DEF Encodes, Buildable, Built, BuiltFor, BuiltInPython, payPremiumIx, build_process_pool_yield_ix, U64, One,
           SourceOf
  <1>. HIDE DEF i, metas, program, amount
  <1>2. /\ Shaped(i, program, metas, "process_pool_yield")
        /\ Carries(i, 1, 8, amount)
    BY <1>1, Widths, InstructionOfOne
  <1>3. Args(i) = [amount |-> amount]
    BY <1>2 DEF Args, Shaped, Carries
  <1>. QED  BY <1>2, <1>3 DEF Carries, i, metas, program, amount

LEMMA ReleaseInstruction ==
  ASSUME NEW r, Buildable(r), r.method = "release_principal"
  PROVE  /\ Shaped(Built(r), ProgramOf(r),
                   <<Writable(r.params.agent),
                     Writable(credit_line_pda(r.params.agent, ProgramOf(r))),
                     Writable(bond_vault_pda(r.params.agent, ProgramOf(r))),
                     Writable(pool_config_pda(ProgramOf(r))),
                     Writable(pool_vault_pda(ProgramOf(r))),
                     ReadOnly(pool_mint_auth_pda(ProgramOf(r))),
                     AccountMeta(SignerOf(r), TRUE, TRUE),
                     ReadOnly(TOKEN_PROGRAM_ID),
                     ReadOnly(SYSTEM_PROGRAM_ID)>>, "request_credit")
         /\ r.params.amount_atomic \in Nat
         /\ Args(Built(r)) = [amount |-> r.params.amount_atomic]
PROOF
  <1>. DEFINE i == Built(r)
              p == r.params
              metas == <<Writable(p.agent),
                         Writable(credit_line_pda(p.agent, ProgramOf(r))),
                         Writable(bond_vault_pda(p.agent, ProgramOf(r))),
                         Writable(pool_config_pda(ProgramOf(r))),
                         Writable(pool_vault_pda(ProgramOf(r))),
                         ReadOnly(pool_mint_auth_pda(ProgramOf(r))),
                         AccountMeta(SignerOf(r), TRUE, TRUE),
                         ReadOnly(TOKEN_PROGRAM_ID),
                         ReadOnly(SYSTEM_PROGRAM_ID)>>
              program == ProgramOf(r)
              amount == p.amount_atomic
  <1>1. Encodes(i, program, metas, "request_credit", One(amount, 8))
    BY DEF Encodes, Buildable, Built, BuiltFor, BuiltInPython, releasePrincipalIx, build_request_credit_ix, U64, One,
           CreditAccounts, SignerOf
  <1>. HIDE DEF i, metas, program, amount
  <1>2. /\ Shaped(i, program, metas, "request_credit")
        /\ Carries(i, 1, 8, amount)
    BY <1>1, Widths, InstructionOfOne
  <1>3. Args(i) = [amount |-> amount]
    BY <1>2 DEF Args, Shaped, Carries
  <1>. QED  BY <1>2, <1>3 DEF Carries, i, metas, program, amount

-----------------------------------------------------------------------------
(***************************************************************************)
(* The program.  An instruction it accepts was due, and moves what was     *)
(* asked for; one that is complete and due it accepts.                     *)
(***************************************************************************)
\* The position p of i has to hold the address key.
LEMMA Positions ==
  ASSUME NEW i, NEW s, Constrained(i) = s, NEW k \in DOMAIN s, NEW p, NEW key,
         s[k] = <<p, key>>, Accepts(i)
  PROVE  Key(i, p) = key
PROOF
  <1>1. s[k] \in ToSet(Constrained(i))
    BY DEF ToSet
  <1>2. Key(i, s[k][1]) = s[k][2]
    BY <1>1 DEF Accepts
  <1>. QED  BY <1>2

\* i makes one payment.
Pays(i, from, to, amount) ==
  \E t : /\ Transfers(i) = {t}
         /\ Key(i, t.from) = from /\ Key(i, t.to) = to /\ t.amount = amount

Payment(a, b, amount) == [from |-> a, to |-> b, amount |-> amount]

LEMMA OnePayment ==
  ASSUME NEW i, NEW a, NEW b, NEW amount, Transfers(i) = {Payment(a, b, amount)}
  PROVE  /\ Pays(i, Key(i, a), Key(i, b), amount)
         /\ Accepts(i) =>
              /\ Key(i, a) \in TokenAccounts /\ Key(i, b) \in TokenAccounts
              /\ tokens[Key(i, a)] >= amount
              /\ i.disc = "process_pool_yield" => Key(i, a) = Ata(Key(i, 4))
PROOF
  <1>. DEFINE t == Payment(a, b, amount)
  <1>1. t.from = a /\ t.to = b /\ t.amount = amount
    BY DEF Payment
  <1>2. Transfers(i) = {t}
    OBVIOUS
  <1>. HIDE DEF t
  <1>3. Pays(i, Key(i, a), Key(i, b), amount)
    BY <1>1, <1>2 DEF Pays
  <1>4. ASSUME Accepts(i)
        PROVE  /\ Key(i, a) \in TokenAccounts /\ Key(i, b) \in TokenAccounts
               /\ tokens[Key(i, a)] >= amount
               /\ i.disc = "process_pool_yield" => Key(i, a) = Ata(Key(i, 4))
    <2>1. Payable(i, t)
      BY <1>2, <1>4 DEF Accepts
    <2>. QED  BY <1>1, <2>1 DEF Payable
  <1>. QED  BY <1>3, <1>4

LEMMA LockAccepted ==
  ASSUME NEW r, Buildable(r), r.method = "lock_collateral", Accepts(Built(r))
  PROVE  Due(r) /\ Transfers(Built(r)) = {}
PROOF
  <1>. DEFINE i == Built(r)
  <1>1. i.disc = "view_bond"
    BY LockInstruction DEF Shaped
  <1>2. Policy(i)
    BY DEF Accepts
  <1>3. Args(i) = [min_bond |-> r.params.min_bond_atomic,
                   min_score |-> r.params.min_score]
    BY LockInstruction
  <1>. HIDE DEF i
  <1>4. /\ ~ barred
        /\ tokens[Bond] >= Args(i).min_bond /\ Score >= Args(i).min_score
    BY <1>1, <1>2 DEF Policy
  <1>5. Transfers(i) = {}
    BY <1>1 DEF Transfers
  <1>6. Due(r)
    BY <1>3, <1>4 DEF Due
  <1>. QED  BY <1>5, <1>6 DEF i

LEMMA SlashAccepted ==
  ASSUME NEW r, Buildable(r), r.method = "slash_collateral", Accepts(Built(r))
  PROVE  /\ Due(r)
         /\ Accepting(r) <=> ActionOf(r) = 0
         /\ IF Accepting(r) THEN Pays(Built(r), Bond, r.params.claimer_bond_ata, Claimed)
            ELSE Transfers(Built(r)) = {}
PROOF
  <1>. DEFINE i == Built(r)
              p == r.params
              metas == <<Writable(p.claim),
                         Writable(p.agent),
                         ReadOnly(p.bond_mint),
                         Writable(bond_vault_pda(p.agent, ProgramOf(r))),
                         Writable(deposit_vault_pda(p.claim, ProgramOf(r))),
                         Writable(p.claimer_bond_ata),
                         AccountMeta(p.signer, TRUE, FALSE),
                         ReadOnly(TOKEN_PROGRAM_ID)>>
              from == Key(i, 4)
              to == Key(i, 6)
  <1>1. i.disc = "resolve_claim" /\ i.accounts = metas /\ Args(i) = [action |-> ActionOf(r)]
    BY SlashInstruction DEF Shaped
  <1>2. Accepting(r) <=> ActionOf(r) = 0
    BY DEF Accepting, ActionOf, Buildable
  <1>3. Policy(i) /\ \A u \in Transfers(i) : Payable(i, u)
    BY DEF Accepts
  <1>4. metas[6] = Writable(p.claimer_bond_ata)
    OBVIOUS
  <1>5. Accepts(i)
    OBVIOUS
  <1>. HIDE DEF i, metas
  <1>6. from = Bond
    <2>. DEFINE s == <<<<1, Claim>>, <<2, Agent>>, <<4, Bond>>,
                       <<5, deposit_vault_pda(Claim, Deployed)>>, <<7, Controller>>>>
    <2>1. Constrained(i) = s
      BY <1>1 DEF Constrained
    <2>2. 3 \in DOMAIN s /\ s[3] = <<4, Bond>>
      OBVIOUS
    <2>. HIDE DEF s
    <2>. QED  BY <1>5, <2>1, <2>2, Positions
  <1>7. to = p.claimer_bond_ata
    BY <1>1, <1>4 DEF Key, Writable, AccountMeta
  <1>8. Transfers(i) = IF Accepting(r) THEN {Payment(4, 6, Claimed)} ELSE {}
    BY <1>1, <1>2 DEF Transfers, Payment
  <1>9. claim = "open"
    BY <1>1, <1>3 DEF Policy
  <1>10. Accepting(r) => Pays(i, from, to, Claimed) /\ tokens[from] >= Claimed
    BY <1>5, <1>8, OnePayment
  <1>11. Due(r)
    BY <1>6, <1>9, <1>10 DEF Due
  <1>. QED  BY <1>2, <1>6, <1>7, <1>8, <1>10, <1>11 DEF i

LEMMA UnlockAccepted ==
  ASSUME NEW r, Buildable(r), r.method = "unlock_collateral", Accepts(Built(r))
  PROVE  /\ Due(r)
         /\ Pays(Built(r), Bond, r.params.controller_bond_ata, r.params.amount_atomic)
PROOF
  <1>. DEFINE i == Built(r)
              p == r.params
              metas == <<Writable(p.agent),
                         ReadOnly(p.bond_mint),
                         Writable(bond_vault_pda(p.agent, ProgramOf(r))),
                         Writable(p.controller_bond_ata),
                         AccountMeta(p.controller, TRUE, FALSE),
                         ReadOnly(TOKEN_PROGRAM_ID)>>
              amount == p.amount_atomic
  <1>1. i.disc = "withdraw_bond" /\ i.accounts = metas /\ Args(i) = [amount |-> amount]
    BY UnlockInstruction DEF Shaped
  <1>2. Policy(i) /\ Accepts(i)
    BY DEF Accepts
  <1>3. metas[4] = Writable(p.controller_bond_ata)
    OBVIOUS
  <1>. HIDE DEF i, metas
  <1>4. Key(i, 3) = Bond
    <2>. DEFINE s == <<<<1, Agent>>, <<3, Bond>>, <<5, Controller>>>>
    <2>1. Constrained(i) = s
      BY <1>1 DEF Constrained
    <2>2. 2 \in DOMAIN s /\ s[2] = <<3, Bond>>
      OBVIOUS
    <2>. HIDE DEF s
    <2>. QED  BY <1>2, <2>1, <2>2, Positions
  <1>5. Key(i, 4) = p.controller_bond_ata
    BY <1>1, <1>3 DEF Key, Writable, AccountMeta
  <1>6. Transfers(i) = {Payment(3, 4, amount)}
    BY <1>1 DEF Transfers, Payment
  <1>7. ~ barred /\ claim # "open" /\ tokens[Bond] >= MinBond + amount
    BY <1>1, <1>2 DEF Policy
  <1>8. Due(r)
    BY <1>7 DEF Due
  <1>9. Pays(i, Bond, p.controller_bond_ata, amount)
    BY <1>4, <1>5, <1>6, OnePayment
  <1>. QED  BY <1>8, <1>9 DEF i

LEMMA PremiumAccepted ==
  ASSUME NEW r, Buildable(r), r.method = "pay_premium", Accepts(Built(r))
  PROVE  /\ Due(r)
         /\ Pays(Built(r), Ata(r.params.payer), Pool, r.params.amount_atomic)
PROOF
  <1>. DEFINE i == Built(r)
              p == r.params
              metas == <<Writable(pool_config_pda(ProgramOf(r))),
                         Writable(pool_vault_pda(ProgramOf(r))),
                         Writable(SourceOf(r)),
                         AccountMeta(p.payer, TRUE, FALSE),
                         ReadOnly(TOKEN_PROGRAM_ID)>>
              amount == p.amount_atomic
  <1>1. /\ i.disc = "process_pool_yield" /\ i.accounts = metas
        /\ Args(i) = [amount |-> amount]
    BY PremiumInstruction DEF Shaped
  <1>2. Accepts(i)
    OBVIOUS
  <1>3. metas[4] = AccountMeta(p.payer, TRUE, FALSE)
    OBVIOUS
  <1>. HIDE DEF i, metas
  <1>4. Key(i, 2) = Pool
    <2>. DEFINE s == <<<<1, pool_config_pda(Deployed)>>, <<2, Pool>>>>
    <2>1. Constrained(i) = s
      BY <1>1 DEF Constrained
    <2>2. 2 \in DOMAIN s /\ s[2] = <<2, Pool>>
      OBVIOUS
    <2>. HIDE DEF s
    <2>. QED  BY <1>2, <2>1, <2>2, Positions
  <1>5. Key(i, 4) = p.payer
    BY <1>1, <1>3 DEF Key, AccountMeta
  <1>6. Transfers(i) = {Payment(3, 2, amount)}
    BY <1>1 DEF Transfers, Payment
  <1>7. /\ Pays(i, Key(i, 3), Key(i, 2), amount)
        /\ Key(i, 3) = Ata(Key(i, 4)) /\ tokens[Key(i, 3)] >= amount
    BY <1>1, <1>2, <1>6, OnePayment
  <1>8. Due(r)
    BY <1>5, <1>7 DEF Due
  <1>9. Pays(i, Ata(p.payer), Pool, amount)
    BY <1>4, <1>5, <1>7
  <1>. QED  BY <1>8, <1>9 DEF i

LEMMA ReleaseAccepted ==
  ASSUME NEW r, Buildable(r), r.method = "release_principal", Accepts(Built(r))
  PROVE  Due(r) /\ Pays(Built(r), Pool, Bond, r.params.amount_atomic)
PROOF
  <1>. DEFINE i == Built(r)
              amount == r.params.amount_atomic
  <1>1. i.disc = "request_credit" /\ Args(i) = [amount |-> amount]
    BY ReleaseInstruction DEF Shaped
  <1>2. Policy(i) /\ Accepts(i)
    BY DEF Accepts
  <1>. HIDE DEF i
  <1>3. Key(i, 5) = Pool /\ Key(i, 3) = Bond
    <2>. DEFINE s == <<<<1, Agent>>, <<2, credit_line_pda(Agent, Deployed)>>, <<3, Bond>>,
                       <<4, pool_config_pda(Deployed)>>, <<5, Pool>>,
                       <<6, pool_mint_auth_pda(Deployed)>>, <<7, Controller>>>>
    <2>1. Constrained(i) = s
      BY <1>1 DEF Constrained
    <2>2. 3 \in DOMAIN s /\ s[3] = <<3, Bond>> /\ 5 \in DOMAIN s /\ s[5] = <<5, Pool>>
      OBVIOUS
    <2>. HIDE DEF s
    <2>. QED  BY <1>2, <2>1, <2>2, Positions
  <1>4. Transfers(i) = {Payment(5, 3, amount)}
    BY <1>1 DEF Transfers, Payment
  <1>5. Pays(i, Key(i, 5), Key(i, 3), amount) /\ tokens[Key(i, 5)] >= amount
    BY <1>2, <1>4, OnePayment
  <1>6. ~ barred /\ Score >= CreditScore
    BY <1>1, <1>2 DEF Policy
  <1>7. Due(r)
    BY <1>3, <1>5, <1>6 DEF Due
  <1>. QED  BY <1>3, <1>5, <1>7 DEF i

-----------------------------------------------------------------------------
\* What executing i does to the accounts.
Effect(i) ==
  /\ IF Transfers(i) = {} THEN UNCHANGED <<tokens, moved>>
     ELSE \E t \in Transfers(i) :
            /\ tokens' = Moving(Key(i, t.from), Key(i, t.to), t.amount)
            /\ moved' = [moved EXCEPT ![i.disc] = @ + t.amount]
  /\ claim' = IF i.disc # "resolve_claim" THEN claim
              ELSE IF Args(i).action = 0 THEN "paid" ELSE "rejected"

\* The accounts hold, and the program has moved, amounts.
AccountsOK == tokens \in [TokenAccounts -> Nat] /\ moved \in [InstructionNames -> Nat]

\* i moved amount and nothing else.
Moves(i, amount) ==
  /\ amount \in Nat
  /\ tokens' \in [TokenAccounts -> Nat]
  /\ moved' = [moved EXCEPT ![i.disc] = @ + amount]

LEMMA PaymentIsMade ==
  ASSUME NEW i, NEW from, NEW to, NEW amount \in Nat, Pays(i, from, to, amount),
         Accepts(i), Effect(i), AccountsOK
  PROVE  tokens' = Moving(from, to, amount) /\ Moves(i, amount)
PROOF
  <1>1. PICK t : /\ Transfers(i) = {t}
                 /\ Key(i, t.from) = from /\ Key(i, t.to) = to /\ t.amount = amount
    BY DEF Pays
  <1>2. /\ tokens' = Moving(from, to, amount)
        /\ moved' = [moved EXCEPT ![i.disc] = @ + amount]
    BY <1>1 DEF Effect
  <1>3. /\ from \in TokenAccounts /\ to \in TokenAccounts
        /\ tokens[from] >= amount
    BY <1>1 DEF Accepts, Payable
  <1>4. tokens' \in [TokenAccounts -> Nat]
    <2>1. tokens[from] \in Nat /\ tokens[to] \in Nat
      BY <1>3 DEF AccountsOK
    <2>. QED  BY <1>2, <1>3, <2>1 DEF Moving, AccountsOK
  <1>. QED  BY <1>2, <1>4 DEF Moves

LEMMA NothingIsMoved ==
  ASSUME NEW i, i.disc \in InstructionNames, Transfers(i) = {}, Effect(i), AccountsOK
  PROVE  tokens' = tokens /\ Moves(i, 0)
PROOF
  <1>1. tokens' = tokens /\ moved' = moved
    BY DEF Effect
  <1>2. moved = [moved EXCEPT ![i.disc] = @ + 0]
    BY DEF AccountsOK
  <1>. QED  BY <1>1, <1>2 DEF Moves, AccountsOK

\* An instruction is one the contract names for its method, and every method
\* has names of its own.
LEMMA NamedByMethod ==
  ASSUME NEW r, Buildable(r)
  PROVE  /\ r.method \in SettlementLayer
         /\ Built(r).disc \in TELARO_SETTLEMENT_MAP[r.method]
         /\ Built(r).disc \in InstructionNames
         /\ Built(r).disc = "resolve_claim" <=> r.method = "slash_collateral"
         /\ Built(r).program_id = ProgramOf(r)
         /\ Built(r).data \in Seq(0 .. Base - 1)
         /\ Worth(r) \in Nat
PROOF
  <1>1. r.method \in SettlementLayer /\ Claimed \in Nat
    BY SettlementAssumption DEF Buildable
  <1>. DEFINE name == Built(r).disc
              m == r.method
              amount == r.params.amount_atomic
  <1>2. \/ m = "lock_collateral" /\ name = "view_bond"
        \/ m = "slash_collateral" /\ name = "resolve_claim"
        \/ m = "unlock_collateral" /\ name = "withdraw_bond" /\ amount \in Nat
        \/ m = "pay_premium" /\ name = "process_pool_yield" /\ amount \in Nat
        \/ m = "release_principal" /\ name = "request_credit" /\ amount \in Nat
    BY <1>1, LockInstruction, SlashInstruction, UnlockInstruction, PremiumInstruction,
       ReleaseInstruction DEF Shaped, SettlementLayer
  <1>3. Built(r).program_id = ProgramOf(r) /\ Built(r).data \in Seq(0 .. Base - 1)
    BY <1>1, LockInstruction, SlashInstruction, UnlockInstruction, PremiumInstruction,
       ReleaseInstruction DEF Shaped, SettlementLayer
  <1>4. Worth(r) \in Nat
    BY <1>1, <1>2 DEF Worth
  <1>. HIDE DEF name, m, amount
  <1>5. name \in TELARO_SETTLEMENT_MAP[m]
    BY <1>2 DEF TELARO_SETTLEMENT_MAP
  <1>6. name \in InstructionNames
    BY <1>1, <1>5 DEF InstructionNames, m
  <1>7. name = "resolve_claim" <=> m = "slash_collateral"
    BY <1>2
  <1>. QED  BY <1>1, <1>3, <1>4, <1>5, <1>6, <1>7 DEF name, m

LEMMA Executing ==
  ASSUME NEW r, Buildable(r), AccountsOK, Accepts(Built(r)), Effect(Built(r))
  PROVE  /\ Due(r) /\ tokens' = Paid(r) /\ Moves(Built(r), Worth(r))
         /\ claim' = IF r.method # "slash_collateral" THEN claim
                     ELSE IF Accepting(r) THEN "paid" ELSE "rejected"
PROOF
  <1>. DEFINE i == Built(r)
              p == r.params
  <1>1. /\ r.method \in SettlementLayer /\ i.disc \in InstructionNames
        /\ i.disc = "resolve_claim" <=> r.method = "slash_collateral"
        /\ Worth(r) \in Nat
    BY NamedByMethod
  <1>2. Accepts(i) /\ Effect(i) /\ r.client # "layer"
    BY DEF Buildable
  <1>3. r.method # "slash_collateral" => claim' = claim
    BY <1>1, <1>2 DEF Effect
  <1>4. CASE r.method = "lock_collateral"
    <2>1. Due(r) /\ Transfers(i) = {}
      BY <1>4, LockAccepted
    <2>. HIDE DEF i
    <2>2. tokens' = tokens /\ Moves(i, 0)
      BY <1>1, <1>2, <2>1, NothingIsMoved
    <2>3. Worth(r) = 0 /\ Paid(r) = tokens
      BY <1>4 DEF Worth, Paid
    <2>. QED  BY <1>3, <1>4, <2>1, <2>2, <2>3 DEF i
  <1>5. CASE r.method = "slash_collateral"
    <2>1. /\ Due(r) /\ (Accepting(r) <=> ActionOf(r) = 0)
          /\ IF Accepting(r) THEN Pays(i, Bond, p.claimer_bond_ata, Claimed)
             ELSE Transfers(i) = {}
      BY <1>5, SlashAccepted
    <2>2. Args(i) = [action |-> ActionOf(r)]
      BY <1>5, SlashInstruction
    <2>. HIDE DEF i, p
    <2>3. claim' = IF Accepting(r) THEN "paid" ELSE "rejected"
      BY <1>1, <1>2, <1>5, <2>1, <2>2 DEF Effect
    <2>4. Worth(r) = IF Accepting(r) THEN Claimed ELSE 0
      BY <1>2, <1>5 DEF Worth
    <2>5. Claimed \in Nat
      BY SettlementAssumption
    <2>6. CASE Accepting(r)
      <3>1. tokens' = Moving(Bond, p.claimer_bond_ata, Claimed) /\ Moves(i, Claimed)
        BY <1>2, <2>1, <2>5, <2>6, PaymentIsMade
      <3>2. Paid(r) = Moving(Bond, p.claimer_bond_ata, Claimed)
        BY <1>5, <2>6 DEF Paid, p
      <3>. QED  BY <1>5, <2>1, <2>3, <2>4, <2>6, <3>1, <3>2 DEF i
    <2>7. CASE ~ Accepting(r)
      <3>1. tokens' = tokens /\ Moves(i, 0)
        BY <1>1, <1>2, <2>1, <2>7, NothingIsMoved
      <3>2. Paid(r) = tokens
        BY <1>5, <2>7 DEF Paid
      <3>. QED  BY <1>5, <2>1, <2>3, <2>4, <2>7, <3>1, <3>2 DEF i
    <2>. QED  BY <2>6, <2>7
  <1>6. CASE r.method = "unlock_collateral"
    <2>. DEFINE amount == p.amount_atomic
                to == p.controller_bond_ata
    <2>1. Due(r) /\ Pays(i, Bond, to, amount) /\ amount \in Nat
      BY <1>6, UnlockAccepted, UnlockInstruction
    <2>2. Paid(r) = Moving(Bond, to, amount) /\ Worth(r) = amount
      BY <1>2, <1>6 DEF Paid, Worth
    <2>. HIDE DEF i, amount, to
    <2>3. tokens' = Moving(Bond, to, amount) /\ Moves(i, amount)
      BY <1>2, <2>1, PaymentIsMade
    <2>. QED  BY <1>3, <1>6, <2>1, <2>2, <2>3 DEF i
  <1>7. CASE r.method = "pay_premium"
    <2>. DEFINE amount == p.amount_atomic
                from == Ata(p.payer)
    <2>1. Due(r) /\ Pays(i, from, Pool, amount) /\ amount \in Nat
      BY <1>7, PremiumAccepted, PremiumInstruction
    <2>2. Paid(r) = Moving(from, Pool, amount) /\ Worth(r) = amount
      BY <1>2, <1>7 DEF Paid, Worth
    <2>. HIDE DEF i, amount, from
    <2>3. tokens' = Moving(from, Pool, amount) /\ Moves(i, amount)
      BY <1>2, <2>1, PaymentIsMade
    <2>. QED  BY <1>3, <1>7, <2>1, <2>2, <2>3 DEF i
  <1>8. CASE r.method = "release_principal"
    <2>. DEFINE amount == p.amount_atomic
    <2>1. Due(r) /\ Pays(i, Pool, Bond, amount) /\ amount \in Nat
      BY <1>8, ReleaseAccepted, ReleaseInstruction
    <2>2. Paid(r) = Moving(Pool, Bond, amount) /\ Worth(r) = amount
      BY <1>2, <1>8 DEF Paid, Worth
    <2>. HIDE DEF i, amount
    <2>3. tokens' = Moving(Pool, Bond, amount) /\ Moves(i, amount)
      BY <1>2, <2>1, PaymentIsMade
    <2>. QED  BY <1>3, <1>8, <2>1, <2>2, <2>3 DEF i
  <1>. QED  BY <1>1, <1>4, <1>5, <1>6, <1>7, <1>8 DEF SettlementLayer

-----------------------------------------------------------------------------
(***************************************************************************)
(* The other direction: the program accepts a complete request when it is  *)
(* due.  The addresses the builders derive and those the program insists   *)
(* on are the same.                                                        *)
(***************************************************************************)
LEMMA AllPositions ==
  ASSUME NEW i, NEW s, Constrained(i) = s,
         \A k \in DOMAIN s : Key(i, s[k][1]) = s[k][2]
  PROVE  \A k \in ToSet(Constrained(i)) : Key(i, k[1]) = k[2]
PROOF
  BY DEF ToSet

LEMMA CanPay ==
  ASSUME NEW i, NEW a, NEW b, NEW amount, Transfers(i) = {Payment(a, b, amount)},
         i.accounts[a].is_writable, i.accounts[b].is_writable,
         Key(i, a) \in TokenAccounts, Key(i, b) \in TokenAccounts,
         tokens[Key(i, a)] >= amount,
         i.disc = "process_pool_yield" => Key(i, a) = Ata(Key(i, 4))
  PROVE  \A t \in Transfers(i) : Payable(i, t)
PROOF
  <1>. DEFINE t == Payment(a, b, amount)
  <1>1. t.from = a /\ t.to = b /\ t.amount = amount
    BY DEF Payment
  <1>2. Transfers(i) = {t}
    OBVIOUS
  <1>. HIDE DEF t
  <1>3. Payable(i, t)
    BY <1>1 DEF Payable
  <1>. QED  BY <1>2, <1>3

LEMMA LockDue ==
  ASSUME NEW r, Buildable(r), r.method = "lock_collateral", Complete(r), Due(r)
  PROVE  Accepts(Built(r))
PROOF
  <1>. DEFINE i == Built(r)
              p == r.params
              metas == <<ReadOnly(p.agent)>>
  <1>1. /\ i.disc = "view_bond" /\ i.accounts = metas /\ i.program_id = ProgramOf(r)
        /\ Args(i) = [min_bond |-> p.min_bond_atomic, min_score |-> p.min_score]
    BY LockInstruction DEF Shaped
  <1>2. metas[1] = ReadOnly(p.agent)
    OBVIOUS
  <1>. HIDE DEF i, metas
  <1>3. ProgramOf(r) = Deployed /\ p.agent = Agent
    BY DEF Complete
  <1>4. \A k \in ToSet(Constrained(i)) : Key(i, k[1]) = k[2]
    <2>. DEFINE s == <<<<1, Agent>>>>
    <2>1. Constrained(i) = s
      BY <1>1 DEF Constrained
    <2>2. \A k \in DOMAIN s : s[k] = <<1, Agent>>
      OBVIOUS
    <2>3. Key(i, 1) = Agent
      BY <1>1, <1>2, <1>3 DEF Key, ReadOnly, AccountMeta
    <2>. HIDE DEF s
    <2>. QED  BY <2>1, <2>2, <2>3, AllPositions
  <1>5. Signatory(i) = {} /\ Transfers(i) = {}
    BY <1>1 DEF Signatory, Transfers
  <1>6. Policy(i)
    BY <1>1 DEF Policy, Due
  <1>7. i.program_id = Deployed
    BY <1>1, <1>3
  <1>8. Accepts(i)
    BY <1>4, <1>5, <1>6, <1>7 DEF Accepts
  <1>. QED  BY <1>8 DEF i

LEMMA SlashDue ==
  ASSUME NEW r, Buildable(r), r.method = "slash_collateral", Complete(r), Due(r)
  PROVE  Accepts(Built(r))
PROOF
  <1>. DEFINE i == Built(r)
              p == r.params
              metas == <<Writable(p.claim),
                         Writable(p.agent),
                         ReadOnly(p.bond_mint),
                         Writable(bond_vault_pda(p.agent, ProgramOf(r))),
                         Writable(deposit_vault_pda(p.claim, ProgramOf(r))),
                         Writable(p.claimer_bond_ata),
                         AccountMeta(p.signer, TRUE, FALSE),
                         ReadOnly(TOKEN_PROGRAM_ID)>>
  <1>1. /\ i.disc = "resolve_claim" /\ i.accounts = metas /\ i.program_id = ProgramOf(r)
        /\ Args(i) = [action |-> ActionOf(r)]
    BY SlashInstruction DEF Shaped
  <1>2. /\ ProgramOf(r) = Deployed
        /\ p.agent = Agent /\ p.claim = Claim /\ p.signer = Controller
        /\ p.claimer_bond_ata \in TokenAccounts
        /\ Accepting(r) \/ r.keyword = 1
    BY DEF Complete
  <1>3. /\ metas[1] = Writable(Claim) /\ metas[2] = Writable(Agent)
        /\ metas[4] = Writable(Bond)
        /\ metas[5] = Writable(deposit_vault_pda(Claim, Deployed))
        /\ metas[6] = Writable(p.claimer_bond_ata)
        /\ metas[7] = AccountMeta(Controller, TRUE, FALSE)
    BY <1>2 DEF Bond
  <1>4. /\ Accepting(r) <=> ActionOf(r) = 0
        /\ ActionOf(r) \in {0, 1}
    BY <1>2 DEF Accepting, ActionOf, Buildable
  <1>. HIDE DEF i, metas
  <1>5. /\ Key(i, 1) = Claim /\ Key(i, 2) = Agent /\ Key(i, 4) = Bond
        /\ Key(i, 5) = deposit_vault_pda(Claim, Deployed)
        /\ Key(i, 6) = p.claimer_bond_ata /\ Key(i, 7) = Controller
        /\ i.accounts[4].is_writable /\ i.accounts[6].is_writable
        /\ i.accounts[7].is_signer
    BY <1>1, <1>3 DEF Key, Writable, AccountMeta
  <1>6. \A k \in ToSet(Constrained(i)) : Key(i, k[1]) = k[2]
    <2>. DEFINE s == <<<<1, Claim>>, <<2, Agent>>, <<4, Bond>>,
                       <<5, deposit_vault_pda(Claim, Deployed)>>, <<7, Controller>>>>
    <2>1. Constrained(i) = s
      BY <1>1 DEF Constrained
    <2>2. \A k \in DOMAIN s : Key(i, s[k][1]) = s[k][2]
      BY <1>5
    <2>. HIDE DEF s
    <2>. QED  BY <2>1, <2>2, AllPositions
  <1>7. claim = "open" /\ (Accepting(r) => tokens[Bond] >= Claimed)
    BY DEF Due
  <1>8. \A t \in Transfers(i) : Payable(i, t)
    <2>1. CASE Accepting(r)
      <3>1. Transfers(i) = {Payment(4, 6, Claimed)}
        BY <1>1, <1>4, <2>1 DEF Transfers, Payment
      <3>2. Bond \in TokenAccounts /\ i.disc # "process_pool_yield"
        BY <1>1 DEF TokenAccounts
      <3>. QED  BY <1>2, <1>5, <1>7, <2>1, <3>1, <3>2, CanPay
    <2>2. CASE ~ Accepting(r)
      <3>1. Transfers(i) = {}
        BY <1>1, <1>4, <2>2 DEF Transfers
      <3>. QED  BY <3>1
    <2>. QED  BY <2>1, <2>2
  <1>9. \A k \in Signatory(i) : i.accounts[k].is_signer
    BY <1>1, <1>5 DEF Signatory
  <1>10. Policy(i)
    BY <1>1, <1>4, <1>7 DEF Policy
  <1>11. Accepts(i)
    BY <1>1, <1>2, <1>6, <1>8, <1>9, <1>10 DEF Accepts
  <1>. QED  BY <1>11 DEF i

LEMMA UnlockDue ==
  ASSUME NEW r, Buildable(r), r.method = "unlock_collateral", Complete(r), Due(r),
         AccountsOK
  PROVE  Accepts(Built(r))
PROOF
  <1>. DEFINE i == Built(r)
              p == r.params
              metas == <<Writable(p.agent),
                         ReadOnly(p.bond_mint),
                         Writable(bond_vault_pda(p.agent, ProgramOf(r))),
                         Writable(p.controller_bond_ata),
                         AccountMeta(p.controller, TRUE, FALSE),
                         ReadOnly(TOKEN_PROGRAM_ID)>>
              amount == p.amount_atomic
  <1>1. /\ i.disc = "withdraw_bond" /\ i.accounts = metas /\ i.program_id = ProgramOf(r)
        /\ Args(i) = [amount |-> amount] /\ amount \in Nat
    BY UnlockInstruction DEF Shaped
  <1>2. /\ ProgramOf(r) = Deployed /\ p.agent = Agent /\ p.controller = Controller
        /\ p.controller_bond_ata \in TokenAccounts
    BY DEF Complete
  <1>3. /\ metas[1] = Writable(Agent) /\ metas[3] = Writable(Bond)
        /\ metas[4] = Writable(p.controller_bond_ata)
        /\ metas[5] = AccountMeta(Controller, TRUE, FALSE)
    BY <1>2 DEF Bond
  <1>. HIDE DEF i, metas
  <1>4. /\ Key(i, 1) = Agent /\ Key(i, 3) = Bond /\ Key(i, 4) = p.controller_bond_ata
        /\ Key(i, 5) = Controller
        /\ i.accounts[3].is_writable /\ i.accounts[4].is_writable
        /\ i.accounts[5].is_signer
    BY <1>1, <1>3 DEF Key, Writable, AccountMeta
  <1>5. \A k \in ToSet(Constrained(i)) : Key(i, k[1]) = k[2]
    <2>. DEFINE s == <<<<1, Agent>>, <<3, Bond>>, <<5, Controller>>>>
    <2>1. Constrained(i) = s
      BY <1>1 DEF Constrained
    <2>2. \A k \in DOMAIN s : Key(i, s[k][1]) = s[k][2]
      BY <1>4
    <2>. HIDE DEF s
    <2>. QED  BY <2>1, <2>2, AllPositions
  <1>6. ~ barred /\ claim # "open" /\ tokens[Bond] >= MinBond + amount
    BY DEF Due
  <1>7. \A t \in Transfers(i) : Payable(i, t)
    <2>1. Transfers(i) = {Payment(3, 4, amount)}
      BY <1>1 DEF Transfers, Payment
    <2>2. Bond \in TokenAccounts /\ i.disc # "process_pool_yield"
      BY <1>1 DEF TokenAccounts
    <2>3. tokens[Bond] >= amount
      <3>1. tokens[Bond] \in Nat /\ MinBond \in Nat
        BY <2>2, SettlementAssumption DEF AccountsOK
      <3>. HIDE DEF amount
      <3>. QED  BY <1>1, <1>6, <3>1
    <2>. QED  BY <1>2, <1>4, <2>1, <2>2, <2>3, CanPay
  <1>8. \A k \in Signatory(i) : i.accounts[k].is_signer
    BY <1>1, <1>4 DEF Signatory
  <1>9. Policy(i)
    BY <1>1, <1>6 DEF Policy
  <1>10. Accepts(i)
    BY <1>1, <1>2, <1>5, <1>7, <1>8, <1>9 DEF Accepts
  <1>. QED  BY <1>10 DEF i

LEMMA PremiumDue ==
  ASSUME NEW r, Buildable(r), r.method = "pay_premium", Complete(r), Due(r)
  PROVE  Accepts(Built(r))
PROOF
  <1>. DEFINE i == Built(r)
              p == r.params
              metas == <<Writable(pool_config_pda(ProgramOf(r))),
                         Writable(pool_vault_pda(ProgramOf(r))),
                         Writable(SourceOf(r)),
                         AccountMeta(p.payer, TRUE, FALSE),
                         ReadOnly(TOKEN_PROGRAM_ID)>>
              amount == p.amount_atomic
  <1>1. /\ i.disc = "process_pool_yield" /\ i.accounts = metas
        /\ i.program_id = ProgramOf(r) /\ Args(i) = [amount |-> amount]
    BY PremiumInstruction DEF Shaped
  <1>2. /\ ProgramOf(r) = Deployed
        /\ r.keyword = Ata(p.payer) /\ r.keyword \in TokenAccounts
    BY DEF Complete
  <1>3. SourceOf(r) = Ata(p.payer)
    BY <1>2, SettlementAssumption DEF SourceOf
  <1>4. /\ metas[1] = Writable(pool_config_pda(Deployed))
        /\ metas[2] = Writable(Pool) /\ metas[3] = Writable(Ata(p.payer))
        /\ metas[4] = AccountMeta(p.payer, TRUE, FALSE)
    BY <1>2, <1>3 DEF Pool
  <1>. HIDE DEF i, metas
  <1>5. /\ Key(i, 1) = pool_config_pda(Deployed) /\ Key(i, 2) = Pool
        /\ Key(i, 3) = Ata(p.payer) /\ Key(i, 4) = p.payer
        /\ i.accounts[2].is_writable /\ i.accounts[3].is_writable
        /\ i.accounts[4].is_signer
    BY <1>1, <1>4 DEF Key, Writable, AccountMeta
  <1>6. \A k \in ToSet(Constrained(i)) : Key(i, k[1]) = k[2]
    <2>. DEFINE s == <<<<1, pool_config_pda(Deployed)>>, <<2, Pool>>>>
    <2>1. Constrained(i) = s
      BY <1>1 DEF Constrained
    <2>2. \A k \in DOMAIN s : Key(i, s[k][1]) = s[k][2]
      BY <1>5
    <2>. HIDE DEF s
    <2>. QED  BY <2>1, <2>2, AllPositions
  <1>7. \A t \in Transfers(i) : Payable(i, t)
    <2>1. Transfers(i) = {Payment(3, 2, amount)}
      BY <1>1 DEF Transfers, Payment
    <2>2. Pool \in TokenAccounts /\ Key(i, 3) \in TokenAccounts
      BY <1>2, <1>5 DEF TokenAccounts
    <2>3. tokens[Key(i, 3)] >= amount
      BY <1>5 DEF Due
    <2>4. Key(i, 3) = Ata(Key(i, 4))
      BY <1>5
    <2>. QED  BY <1>5, <2>1, <2>2, <2>3, <2>4, CanPay
  <1>8. \A k \in Signatory(i) : i.accounts[k].is_signer
    BY <1>1, <1>5 DEF Signatory
  <1>9. Policy(i)
    BY <1>1 DEF Policy
  <1>10. Accepts(i)
    BY <1>1, <1>2, <1>6, <1>7, <1>8, <1>9 DEF Accepts
  <1>. QED  BY <1>10 DEF i

LEMMA ReleaseDue ==
  ASSUME NEW r, Buildable(r), r.method = "release_principal", Complete(r), Due(r)
  PROVE  Accepts(Built(r))
PROOF
  <1>. DEFINE i == Built(r)
              p == r.params
              metas == <<Writable(p.agent),
                         Writable(credit_line_pda(p.agent, ProgramOf(r))),
                         Writable(bond_vault_pda(p.agent, ProgramOf(r))),
                         Writable(pool_config_pda(ProgramOf(r))),
                         Writable(pool_vault_pda(ProgramOf(r))),
                         ReadOnly(pool_mint_auth_pda(ProgramOf(r))),
                         AccountMeta(SignerOf(r), TRUE, TRUE),
                         ReadOnly(TOKEN_PROGRAM_ID),
                         ReadOnly(SYSTEM_PROGRAM_ID)>>
              amount == p.amount_atomic
              line == credit_line_pda(Agent, Deployed)
              config == pool_config_pda(Deployed)
              authority == pool_mint_auth_pda(Deployed)
  <1>1. /\ i.disc = "request_credit" /\ i.accounts = metas /\ i.program_id = ProgramOf(r)
        /\ Args(i) = [amount |-> amount]
    BY ReleaseInstruction DEF Shaped
  <1>2. ProgramOf(r) = Deployed /\ p.agent = Agent /\ r.keyword = Controller
    BY DEF Complete
  <1>3. SignerOf(r) = Controller
    BY <1>2, SettlementAssumption DEF SignerOf
  <1>4. /\ metas[1] = Writable(Agent) /\ metas[2] = Writable(line)
        /\ metas[3] = Writable(Bond) /\ metas[4] = Writable(config)
        /\ metas[5] = Writable(Pool) /\ metas[6] = ReadOnly(authority)
        /\ metas[7] = AccountMeta(Controller, TRUE, TRUE)
    BY <1>2, <1>3 DEF Pool, Bond
  <1>. HIDE DEF i, metas
  <1>5. /\ Key(i, 1) = Agent /\ Key(i, 2) = line /\ Key(i, 3) = Bond
        /\ Key(i, 4) = config /\ Key(i, 5) = Pool /\ Key(i, 6) = authority
        /\ Key(i, 7) = Controller
        /\ i.accounts[3].is_writable /\ i.accounts[5].is_writable
        /\ i.accounts[7].is_signer
    BY <1>1, <1>4 DEF Key, Writable, ReadOnly, AccountMeta
  <1>6. \A k \in ToSet(Constrained(i)) : Key(i, k[1]) = k[2]
    <2>. DEFINE s == <<<<1, Agent>>, <<2, line>>, <<3, Bond>>, <<4, config>>, <<5, Pool>>,
                       <<6, authority>>, <<7, Controller>>>>
    <2>1. Constrained(i) = s
      BY <1>1 DEF Constrained
    <2>. HIDE DEF line, config, authority
    <2>2. \A k \in DOMAIN s : Key(i, s[k][1]) = s[k][2]
      BY <1>5
    <2>. HIDE DEF s
    <2>. QED  BY <2>1, <2>2, AllPositions
  <1>7. ~ barred /\ Score >= CreditScore /\ tokens[Pool] >= amount
    BY DEF Due
  <1>8. \A t \in Transfers(i) : Payable(i, t)
    <2>1. Transfers(i) = {Payment(5, 3, amount)}
      BY <1>1 DEF Transfers, Payment
    <2>2. Bond \in TokenAccounts /\ Pool \in TokenAccounts
          /\ i.disc # "process_pool_yield"
      BY <1>1 DEF TokenAccounts
    <2>. QED  BY <1>5, <1>7, <2>1, <2>2, CanPay
  <1>9. \A k \in Signatory(i) : i.accounts[k].is_signer
    BY <1>1, <1>5 DEF Signatory
  <1>10. Policy(i)
    BY <1>1, <1>7 DEF Policy
  <1>11. Accepts(i)
    BY <1>1, <1>2, <1>6, <1>8, <1>9, <1>10 DEF Accepts
  <1>. QED  BY <1>11 DEF i

LEMMA DueIsAccepted ==
  ASSUME NEW r, Buildable(r), Complete(r), Due(r), AccountsOK
  PROVE  Accepts(Built(r))
PROOF
  <1>1. r.method \in SettlementLayer
    BY NamedByMethod
  <1>. QED  BY <1>1, LockDue, SlashDue, UnlockDue, PremiumDue, ReleaseDue DEF SettlementLayer

-----------------------------------------------------------------------------
(***************************************************************************)
(* The inductive invariant.                                                *)
(***************************************************************************)
\* The domains and the ranges of the variables.
Shapes ==
  /\ stage \in [Calls -> Stages] /\ request \in [Calls -> Requests]
  /\ DOMAIN ix = Calls /\ DOMAIN intent = Calls
  /\ tx \in [Calls -> Fates]
  /\ claim \in {"open", "paid", "rejected"} /\ barred \in BOOLEAN
  /\ AccountsOK

\* How far a call is tells what there is of it: no transaction before it is
\* sent, and one of the fate that its promise reports after that.
Placed(c) ==
  /\ stage[c] = "idle" => ix[c] = <<>> /\ intent[c] = None
  /\ stage[c] \notin {"idle", "described", "unsent"} => ix[c] # <<>>
  /\ stage[c] \in {"idle", "described", "unsent", "blockhash"} => tx[c] = "none"
  /\ stage[c] = "resolved" => tx[c] = "executed"
  /\ stage[c] = "refused" => tx[c] = "failed"
  /\ tx[c] # "none" => ix[c] # <<>>

\* The sender has the instruction that the request builds.
AsBuilt(c) ==
  ix[c] # <<>> => ix[c] = <<Built(request[c])>> /\ Buildable(request[c])

\* The intent is the one of the request.
AsTold(c) ==
  intent[c] # None =>
    \/ ix[c] # <<>> /\ intent[c] = IntentOf(request[c])
    \/ /\ ix[c] = <<>> /\ intent[c] = Described(request[c])
       /\ request[c].method \in Implemented

CallOK(c) == Placed(c) /\ AsBuilt(c) /\ AsTold(c)

\* A slash that was executed decided the claim, and nothing decides it again.
Decided ==
  \A c \in Calls :
    tx[c] = "executed" /\ request[c].method = "slash_collateral" =>
      claim = IF Accepting(request[c]) THEN "paid" ELSE "rejected"

\* What was moved for a method is what its executed calls asked for.
Worths == [c \in Calls |-> Worth(request[c])]
Executed(m) == {c \in Calls : request[c].method = m /\ tx[c] = "executed"}
Booked ==
  \A m \in SettlementLayer : Moved(m) = SumFunctionOnSet(Worths, Executed(m))

IInv == Shapes /\ (\A c \in Calls : CallOK(c)) /\ Decided /\ Booked

\* A call that a step leaves alone stays as it was.
Unchanged(c) ==
  /\ stage'[c] = stage[c] /\ ix'[c] = ix[c] /\ intent'[c] = intent[c]
  /\ tx'[c] = tx[c] /\ request'[c] = request[c]

LEMMA CallStays ==
  ASSUME NEW c \in Calls, CallOK(c), Unchanged(c)
  PROVE  CallOK(c)'
PROOF
  BY DEF CallOK, Placed, AsBuilt, AsTold, Unchanged

\* The steps of a call, up to the fate of its transaction.
CallStep(c) == Call(c) \/ CallDescribes(c) \/ CallRaises(c) \/ Client(c)

LEMMA CallStepKeepsCalls ==
  ASSUME Shapes, \A c \in Calls : CallOK(c), NEW c \in Calls, CallStep(c)
  PROVE  /\ \A d \in Calls : CallOK(d)'
         /\ stage' \in [Calls -> Stages] /\ tx' \in [Calls -> Fates]
         /\ request' = request /\ DOMAIN ix' = Calls /\ DOMAIN intent' = Calls
         /\ \A d \in Calls : tx'[d] = "executed" <=> tx[d] = "executed"
         /\ UNCHANGED <<tokens, claim, moved, barred>>
PROOF
  <1>1. ASSUME NEW d \in Calls, d # c PROVE CallOK(d)'
    <2>1. Unchanged(d)
      BY <1>1 DEF Shapes, CallStep, Call, CallDescribes, CallRaises, Client, Send, SendFails,
              Resolve, ConfirmError, ConfirmExpiry, LoseConfirmation, Settles, Unchanged
    <2>. QED  BY <2>1, CallStays
  <1>2. CallOK(c)
    OBVIOUS
  <1>3. CASE Call(c)
    <2>1. CallOK(c)'
      <3>1. /\ ix'[c] = <<Built(request[c])>> /\ request' = request
            /\ stage'[c] = "blockhash" /\ tx'[c] = "none"
            /\ intent'[c] # None => intent'[c] = IntentOf(request[c])
        BY <1>2, <1>3 DEF Call, Handed, Shapes, CallOK, Placed
      <3>2. Buildable(request[c])
        BY <1>3 DEF Call, Raises, Buildable, Shapes
      <3>. QED  BY <3>1, <3>2 DEF CallOK, Placed, AsBuilt, AsTold
    <2>. QED  BY <1>1, <1>3, <2>1 DEF Call, Shapes, Stages, accounts
  <1>4. CASE CallDescribes(c)
    <2>1. CallOK(c)'
      <3>1. /\ ix'[c] = <<>> /\ request' = request
            /\ stage'[c] = "described" /\ tx'[c] = "none"
            /\ intent'[c] = Described(request[c])
            /\ request[c].method \in Implemented
        BY <1>2, <1>4 DEF CallDescribes, Raises, Shapes, CallOK, Placed
      <3>. QED  BY <3>1 DEF CallOK, Placed, AsBuilt, AsTold
    <2>. QED  BY <1>1, <1>4, <2>1 DEF CallDescribes, Shapes, Stages, accounts
  <1>5. CASE CallRaises(c)
    <2>1. CallOK(c)'
      <3>1. /\ ix' = ix /\ request' = request /\ intent' = intent
            /\ stage'[c] = "unsent" /\ tx'[c] = "none" /\ tx' = tx
        BY <1>2, <1>5 DEF CallRaises, Shapes, CallOK, Placed
      <3>. QED  BY <1>2, <3>1 DEF CallOK, Placed, AsBuilt, AsTold
    <2>. QED  BY <1>1, <1>5, <2>1 DEF CallRaises, Shapes, Stages, Rejections, accounts
  <1>6. CASE Send(c)
    <2>1. CallOK(c)'
      <3>1. /\ ix' = ix /\ request' = request /\ intent' = intent /\ ix[c] # <<>>
            /\ stage'[c] = "confirming" /\ tx'[c] = "flying"
        BY <1>2, <1>6 DEF Send, Shapes, CallOK, Placed
      <3>. QED  BY <1>2, <3>1 DEF CallOK, Placed, AsBuilt, AsTold
    <2>2. \A d \in Calls : tx'[d] = "executed" <=> tx[d] = "executed"
      BY <1>2, <1>6 DEF Send, Shapes, CallOK, Placed
    <2>. QED  BY <1>1, <1>6, <2>1, <2>2 DEF Send, Shapes, Stages, Fates, accounts
  <1>7. ASSUME NEW outcome \in Stages, Settles(c, outcome),
               outcome # "idle", outcome # "blockhash", outcome # "described",
               outcome = "unsent" => tx[c] = "none",
               outcome # "unsent" => ix[c] # <<>>,
               outcome = "resolved" => tx[c] = "executed",
               outcome = "refused" => tx[c] = "failed"
        PROVE  /\ \A d \in Calls : CallOK(d)'
               /\ stage' \in [Calls -> Stages] /\ tx' \in [Calls -> Fates]
               /\ request' = request /\ DOMAIN ix' = Calls /\ DOMAIN intent' = Calls
               /\ \A d \in Calls : tx'[d] = "executed" <=> tx[d] = "executed"
               /\ UNCHANGED <<tokens, claim, moved, barred>>
    <2>1. CallOK(c)'
      <3>1. /\ ix' = ix /\ request' = request /\ intent' = intent /\ tx' = tx
            /\ stage'[c] = outcome
        BY <1>7 DEF Settles, Shapes
      <3>. QED  BY <1>2, <1>7, <3>1 DEF CallOK, Placed, AsBuilt, AsTold
    <2>. QED  BY <1>1, <1>7, <2>1 DEF Settles, Shapes, accounts
  <1>8. CASE SendFails(c)
    BY <1>2, <1>7, <1>8 DEF SendFails, Stages, Rejections, CallOK, Placed
  <1>9. CASE Resolve(c)
    BY <1>2, <1>7, <1>9 DEF Resolve, Stages, CallOK, Placed
  <1>10. CASE ConfirmError(c)
    BY <1>2, <1>7, <1>10 DEF ConfirmError, Stages, Rejections, CallOK, Placed
  <1>11. CASE ConfirmExpiry(c) \/ LoseConfirmation(c)
    BY <1>2, <1>7, <1>11 DEF ConfirmExpiry, LoseConfirmation, Stages, Rejections,
                              CallOK, Placed
  <1>. QED  BY <1>3, <1>4, <1>5, <1>6, <1>8, <1>9, <1>10, <1>11 DEF CallStep, Client

\* The same calls executed and nothing moved, the claim decided or not: what
\* was decided and what was booked stay.
LEMMA AccountsStay ==
  ASSUME Shapes, Decided, Booked, request' = request,
         \A c \in Calls : tx'[c] = "executed" <=> tx[c] = "executed",
         moved' = moved, claim # "open" => claim' = claim
  PROVE  Decided' /\ Booked'
PROOF
  <1>1. Decided'
    BY DEF Decided, Accepting
  <1>2. Booked'
    <2>1. Worths' = Worths
      BY DEF Worths
    <2>2. \A m : Executed(m)' = Executed(m)
      BY DEF Executed
    <2>3. \A m : Moved(m)' = Moved(m)
      BY DEF Moved
    <2>. QED  BY <2>1, <2>2, <2>3 DEF Booked
  <1>. QED  BY <1>1, <1>2

\* The names of one method are no names of another.
LEMMA NamesAreDistinct ==
  ASSUME NEW m \in SettlementLayer
  PROVE  /\ IsFiniteSet(TELARO_SETTLEMENT_MAP[m])
         /\ TELARO_SETTLEMENT_MAP[m] \subseteq InstructionNames
         /\ \A n \in SettlementLayer : \A name \in TELARO_SETTLEMENT_MAP[m] :
              name \in TELARO_SETTLEMENT_MAP[n] => n = m
PROOF
  <1>. DEFINE T(n) == TELARO_SETTLEMENT_MAP[n]
  <1>1. /\ T("lock_collateral") = {"view_bond"}
        /\ T("slash_collateral") = {"resolve_claim", "arbiter_resolve"}
        /\ T("unlock_collateral") = {"withdraw_bond"}
        /\ T("pay_premium") = {"process_pool_yield", "fund_insurance"}
        /\ T("release_principal") = {"request_credit"}
    BY DEF TELARO_SETTLEMENT_MAP
  <1>. HIDE DEF T
  <1>2. IsFiniteSet(T(m))
    <2>1. ASSUME NEW S, NEW x, NEW y, S = {x} \/ S = {x, y} PROVE IsFiniteSet(S)
      <3>1. IsFiniteSet({x}) /\ {x, y} = {x} \cup {y}
        BY FS_Singleton
      <3>2. IsFiniteSet({x} \cup {y})
        BY <3>1, FS_AddElement
      <3>. QED  BY <2>1, <3>1, <3>2
    <2>2. /\ IsFiniteSet(T("lock_collateral")) /\ IsFiniteSet(T("slash_collateral"))
          /\ IsFiniteSet(T("unlock_collateral")) /\ IsFiniteSet(T("pay_premium"))
          /\ IsFiniteSet(T("release_principal"))
      BY <1>1, <2>1, Zenon
    <2>. QED  BY <2>2 DEF SettlementLayer
  <1>3. \A n \in SettlementLayer : \A name \in T(m) : name \in T(n) => n = m
    BY <1>1 DEF SettlementLayer
  <1>4. T(m) \subseteq InstructionNames
    BY DEF InstructionNames, T
  <1>. QED  BY <1>2, <1>3, <1>4 DEF T

\* Executing a call books what it asked for.
LEMMA ExecutionIsBooked ==
  ASSUME Shapes, Booked, \A d \in Calls : CallOK(d),
         NEW c \in Calls, NEW r \in Requests, request[c] = r, Buildable(r),
         request' = request, tx[c] = "flying", tx' = [tx EXCEPT ![c] = "executed"],
         Moves(Built(r), Worth(r))
  PROVE  Booked'
PROOF
  <1>. SUFFICES ASSUME NEW m \in SettlementLayer
                PROVE  Moved(m)' = SumFunctionOnSet(Worths', Executed(m)')
    BY DEF Booked
  <1>. DEFINE name == Built(r).disc
              names == TELARO_SETTLEMENT_MAP[m]
              S == Executed(m)
              before == moved
              after == moved'
              w == Worths
  <1>1. /\ Worth(r) \in Nat /\ name \in InstructionNames /\ r.method \in SettlementLayer
        /\ name \in TELARO_SETTLEMENT_MAP[r.method]
    BY NamedByMethod
  <1>2. /\ before \in [InstructionNames -> Nat]
        /\ after = [before EXCEPT ![name] = @ + Worth(r)]
    BY DEF Shapes, AccountsOK, Moves
  <1>3. IsFiniteSet(names) /\ names \subseteq InstructionNames
    BY NamesAreDistinct
  <1>4. name \in names <=> r.method = m
    BY <1>1, NamesAreDistinct
  <1>5. Worths' = w /\ Executed(m)' = IF r.method = m THEN S \cup {c} ELSE S
    BY DEF Worths, Executed, Shapes
  <1>6. Moved(m) = SumFunctionOnSet(before, names) /\ Moved(m)' = SumFunctionOnSet(after, names)
    BY DEF Moved
  <1>7. Moved(m) = SumFunctionOnSet(w, S)
    BY DEF Booked
  <1>8. /\ IsFiniteSet(S) /\ c \notin S
        /\ \A d \in S : w[d] \in Int
        /\ w[c] = Worth(r)
    <2>1. IsFiniteSet(S)
      BY SettlementAssumption, FS_Subset DEF Executed
    <2>2. ASSUME NEW d \in S PROVE w[d] \in Int
      <3>1. d \in Calls /\ Buildable(request[d])
        BY DEF Executed, CallOK, Placed, AsBuilt
      <3>2. PICK q : q = request[d]
        OBVIOUS
      <3>3. Worth(q) \in Nat
        BY <3>1, <3>2, NamedByMethod
      <3>. QED  BY <3>1, <3>2, <3>3 DEF Worths
    <2>. QED  BY <2>1, <2>2 DEF Executed, Worths
  <1>9. \A n \in names : before[n] \in Int /\ after[n] \in Int
                           /\ (n # name => before[n] = after[n])
    BY <1>1, <1>2, <1>3
  <1>10. after[name] - before[name] = Worth(r)
    BY <1>1, <1>2
  <1>11. SumFunctionOnSet(before, names) \in Int
    BY <1>3, <1>9, SumIsInt
  <1>. HIDE DEF name, names, S, before, after, w
  <1>12. CASE r.method = m
    <2>1. SumFunctionOnSet(after, names)
            = SumFunctionOnSet(before, names) + (after[name] - before[name])
      BY <1>3, <1>4, <1>9, <1>12, SumChange
    <2>2. SumFunctionOnSet(w, S \cup {c}) = w[c] + SumFunctionOnSet(w, S)
      <3>1. \A d \in S \cup {c} : w[d] \in Int
        BY <1>1, <1>8
      <3>. QED  BY <1>8, <3>1, SumAdd
    <2>. DEFINE old == SumFunctionOnSet(before, names)
                new == SumFunctionOnSet(after, names)
    <2>3. new = old + Worth(r) /\ old \in Int
      BY <1>10, <1>11, <2>1
    <2>4. SumFunctionOnSet(w, S \cup {c}) = Worth(r) + old
      BY <1>6, <1>7, <1>8, <2>2
    <2>5. Moved(m)' = new
      BY <1>6
    <2>. HIDE DEF old, new
    <2>6. new = Worth(r) + old
      BY <1>1, <2>3
    <2>. QED  BY <1>5, <1>12, <2>4, <2>5, <2>6
  <1>13. CASE r.method # m
    <2>1. \A n \in names : before[n] \in Int /\ before[n] = after[n]
      BY <1>4, <1>9, <1>13
    <2>2. SumFunctionOnSet(before, names) = SumFunctionOnSet(after, names)
      BY <1>3, <2>1, SumIsEqual
    <2>. QED  BY <1>5, <1>6, <1>7, <1>13, <2>2
  <1>. QED  BY <1>12, <1>13

-----------------------------------------------------------------------------
(***************************************************************************)
(* The invariant holds at first and every step preserves it.               *)
(***************************************************************************)
LEMMA OneInstruction ==
  ASSUME NEW i
  PROVE  ToSet(<<i>>) = {i} /\ ToSet(<<>>) = {} /\ Len(<<i>>) = 1 /\ Len(<<>>) = 0
PROOF
  BY DEF ToSet

LEMMA InitIInv == Init => IInv
PROOF
  <1>. SUFFICES ASSUME Init PROVE IInv
    OBVIOUS
  <1>1. Shapes
    <2>1. moved \in [InstructionNames -> Nat] /\ tokens \in [TokenAccounts -> Nat]
      BY SettlementAssumption DEF Init
    <2>. QED  BY <2>1 DEF Init, Shapes, Stages, Fates, AccountsOK
  <1>2. \A c \in Calls : CallOK(c)
    BY DEF Init, CallOK, Placed, AsBuilt, AsTold
  <1>3. Decided
    BY DEF Init, Decided
  <1>4. Booked
    <2>. SUFFICES ASSUME NEW m \in SettlementLayer
                  PROVE  Moved(m) = SumFunctionOnSet(Worths, Executed(m))
      BY DEF Booked
    <2>. DEFINE names == TELARO_SETTLEMENT_MAP[m]
    <2>1. IsFiniteSet(names) /\ \A n \in names : moved[n] = 0
      BY NamesAreDistinct DEF Init
    <2>2. Executed(m) = {}
      BY DEF Init, Executed
    <2>. HIDE DEF names
    <2>3. SumFunctionOnSet(moved, names) = 0
      BY <2>1, SumIsZero
    <2>4. SumFunctionOnSet(Worths, {}) = 0
      BY FS_EmptySet, SumSteps
    <2>. QED  BY <2>2, <2>3, <2>4 DEF Moved, names
  <1>. QED  BY <1>1, <1>2, <1>3, <1>4 DEF IInv

\* What executes is the instruction that the request builds.
LEMMA ExecutesWhatIsBuilt ==
  ASSUME IInv, NEW c \in Calls, NEW r \in Requests, request[c] = r, Execute(c)
  PROVE  Buildable(r) /\ Accepts(Built(r)) /\ Effect(Built(r))
PROOF
  <1>1. ix[c] = <<Built(r)>> /\ Buildable(r)
    BY DEF IInv, CallOK, Placed, AsBuilt, Execute
  <1>2. \E i \in ToSet(ix[c]) : Accepts(i) /\ Effect(i)
    BY DEF Execute, Effect
  <1>. QED  BY <1>1, <1>2, OneInstruction

LEMMA ExecuteKeepsIInv ==
  ASSUME IInv, NEW c \in Calls, Execute(c)
  PROVE  IInv'
PROOF
  <1>1. PICK r \in Requests : request[c] = r
    BY DEF IInv, Shapes
  <1>2. Buildable(r) /\ Accepts(Built(r)) /\ Effect(Built(r))
    BY <1>1, ExecutesWhatIsBuilt
  <1>3. /\ tx[c] = "flying" /\ tx' = [tx EXCEPT ![c] = "executed"]
        /\ UNCHANGED <<stage, request, ix, intent, barred>>
    BY DEF Execute
  <1>4. AccountsOK /\ Shapes
    BY DEF IInv, Shapes
  <1>5. /\ Moves(Built(r), Worth(r)) /\ Due(r)
        /\ claim' = IF r.method # "slash_collateral" THEN claim
                    ELSE IF Accepting(r) THEN "paid" ELSE "rejected"
    BY <1>2, <1>4, Executing
  <1>6. Built(r).disc \in InstructionNames /\ Worth(r) \in Nat
    BY <1>2, NamedByMethod
  <1>7. Shapes'
    <2>1. AccountsOK'
      <3>1. moved' \in [InstructionNames -> Nat]
        BY <1>4, <1>5, <1>6 DEF Moves, AccountsOK
      <3>. QED  BY <1>5, <3>1 DEF Moves, AccountsOK
    <2>2. tx' \in [Calls -> Fates] /\ claim' \in {"open", "paid", "rejected"}
      BY <1>3, <1>4, <1>5 DEF Shapes, Fates
    <2>. QED  BY <1>3, <1>4, <2>1, <2>2 DEF Shapes
  <1>8. ASSUME NEW d \in Calls PROVE CallOK(d)'
    <2>1. CallOK(d)
      BY DEF IInv
    <2>2. CASE d = c
      <3>1. tx'[c] = "executed" /\ ix[c] # <<>>
        BY <1>3, <1>4, <2>1, <2>2 DEF CallOK, Placed, Shapes
      <3>. QED  BY <1>3, <2>1, <2>2, <3>1 DEF CallOK, Placed, AsBuilt, AsTold
    <2>3. CASE d # c
      <3>1. Unchanged(d)
        BY <1>3, <1>4, <2>3 DEF Unchanged, Shapes
      <3>. QED  BY <2>1, <3>1, CallStays
    <2>. QED  BY <2>2, <2>3
  <1>9. Decided'
    <2>. SUFFICES ASSUME NEW d \in Calls, tx'[d] = "executed",
                         request'[d].method = "slash_collateral"
                  PROVE  claim' = IF Accepting(request'[d]) THEN "paid" ELSE "rejected"
      BY DEF Decided, Accepting
    <2>1. CASE d = c
      BY <1>1, <1>3, <1>5, <2>1
    <2>2. CASE d # c
      <3>1. /\ tx[d] = "executed" /\ request[d].method = "slash_collateral"
            /\ claim = IF Accepting(request[d]) THEN "paid" ELSE "rejected"
        BY <1>3, <1>4, <2>2 DEF IInv, Decided, Shapes
      <3>2. r.method # "slash_collateral"
        BY <1>5, <3>1 DEF Due
      <3>. QED  BY <1>3, <1>5, <3>1, <3>2
    <2>. QED  BY <2>1, <2>2
  <1>10. Booked'
    BY <1>1, <1>2, <1>3, <1>4, <1>5, ExecutionIsBooked DEF IInv
  <1>. QED  BY <1>7, <1>8, <1>9, <1>10 DEF IInv

LEMMA NextIInv == IInv /\ [Next]_vars => IInv'
PROOF
  <1>. SUFFICES ASSUME IInv, [Next]_vars PROVE IInv'
    OBVIOUS
  <1>1. Shapes /\ (\A c \in Calls : CallOK(c)) /\ Decided /\ Booked
    BY DEF IInv
  <1>2. ASSUME NEW c \in Calls, CallStep(c) PROVE IInv'
    <2>1. /\ \A d \in Calls : CallOK(d)'
          /\ stage' \in [Calls -> Stages] /\ tx' \in [Calls -> Fates]
          /\ request' = request /\ DOMAIN ix' = Calls /\ DOMAIN intent' = Calls
          /\ \A d \in Calls : tx'[d] = "executed" <=> tx[d] = "executed"
          /\ UNCHANGED <<tokens, claim, moved, barred>>
      BY <1>1, <1>2, CallStepKeepsCalls
    <2>2. Decided' /\ Booked'
      BY <1>1, <2>1, AccountsStay
    <2>3. Shapes'
      BY <1>1, <2>1 DEF Shapes, AccountsOK
    <2>. QED  BY <2>1, <2>2, <2>3 DEF IInv
  <1>3. ASSUME NEW c \in Calls, Execute(c) PROVE IInv'
    BY <1>3, ExecuteKeepsIInv
  <1>4. ASSUME NEW c \in Calls, Refuse(c) \/ Expire(c) PROVE IInv'
    <2>1. /\ tx[c] = "flying" /\ UNCHANGED <<stage, request, ix, intent, accounts, barred>>
          /\ \E fate \in {"failed", "expired"} : tx' = [tx EXCEPT ![c] = fate]
      BY <1>4 DEF Refuse, Expire
    <2>2. /\ UNCHANGED <<tokens, claim, moved>> /\ tx' \in [Calls -> Fates]
          /\ \A d \in Calls : tx'[d] = "executed" <=> tx[d] = "executed"
      BY <1>1, <2>1 DEF accounts, Shapes, Fates
    <2>3. Decided' /\ Booked'
      BY <1>1, <2>1, <2>2, AccountsStay
    <2>4. ASSUME NEW d \in Calls PROVE CallOK(d)'
      <3>1. CASE d = c
        <4>1. tx'[c] \in {"failed", "expired"}
          BY <1>1, <2>1 DEF Shapes
        <4>. QED  BY <1>1, <2>1, <3>1, <4>1 DEF CallOK, Placed, AsBuilt, AsTold
      <3>2. CASE d # c
        <4>1. Unchanged(d)
          BY <1>1, <2>1, <3>2 DEF Unchanged, Shapes
        <4>. QED  BY <1>1, <4>1, CallStays
      <3>. QED  BY <3>1, <3>2
    <2>5. Shapes'
      BY <1>1, <2>1, <2>2 DEF Shapes, AccountsOK
    <2>. QED  BY <2>3, <2>4, <2>5 DEF IInv
  <1>5. CASE ArbiterResolves
    <2>1. /\ UNCHANGED <<stage, request, ix, intent, tx, barred, moved>>
          /\ claim = "open" /\ claim' \in {"paid", "rejected"}
      BY <1>5 DEF ArbiterResolves
    <2>2. Decided' /\ Booked'
      BY <1>1, <2>1, AccountsStay
    <2>3. ASSUME NEW d \in Calls PROVE CallOK(d)'
      BY <1>1, <2>1, CallStays DEF Unchanged
    <2>4. tokens' \in [TokenAccounts -> Nat]
      <3>1. Bond \in TokenAccounts /\ Ata(Claimer) \in TokenAccounts
        BY DEF TokenAccounts
      <3>2. /\ tokens \in [TokenAccounts -> Nat] /\ Claimed \in Nat
            /\ tokens[Bond] \in Nat /\ tokens[Ata(Claimer)] \in Nat
        BY <1>1, <3>1, SettlementAssumption DEF Shapes, AccountsOK
      <3>. QED  BY <1>5, <3>1, <3>2 DEF ArbiterResolves, Moving
    <2>5. Shapes'
      BY <1>1, <2>1, <2>4 DEF Shapes, AccountsOK
    <2>. QED  BY <2>2, <2>3, <2>5 DEF IInv
  <1>6. CASE Reassess
    <2>1. /\ UNCHANGED <<stage, request, ix, intent, tx, tokens, claim, moved>>
          /\ barred' \in BOOLEAN
      BY <1>1, <1>6 DEF Reassess, accounts, Shapes
    <2>2. Decided' /\ Booked'
      BY <1>1, <2>1, AccountsStay
    <2>3. ASSUME NEW d \in Calls PROVE CallOK(d)'
      BY <1>1, <2>1, CallStays DEF Unchanged
    <2>4. Shapes'
      BY <1>1, <2>1 DEF Shapes, AccountsOK
    <2>. QED  BY <2>2, <2>3, <2>4 DEF IInv
  <1>7. CASE UNCHANGED vars
    <2>1. UNCHANGED <<stage, request, ix, intent, tx, tokens, claim, moved, barred>>
      BY <1>7 DEF vars, accounts
    <2>2. Decided' /\ Booked'
      BY <1>1, <2>1, AccountsStay
    <2>3. ASSUME NEW d \in Calls PROVE CallOK(d)'
      BY <1>1, <2>1, CallStays DEF Unchanged
    <2>4. Shapes'
      BY <1>1, <2>1 DEF Shapes, AccountsOK
    <2>. QED  BY <2>2, <2>3, <2>4 DEF IInv
  <1>. QED  BY <1>2, <1>3, <1>4, <1>5, <1>6, <1>7 DEF Next, CallStep, Chain

-----------------------------------------------------------------------------
(***************************************************************************)
(* The theorems.                                                           *)
(***************************************************************************)
LEMMA SpecIInv == Spec => []IInv
PROOF
  BY InitIInv, NextIInv, PTL DEF Spec

\* Every variable of the model has its type, every call at most one
\* instruction, named by the contract, whose data are bytes.
THEOREM SpecTypeOK == Spec => []TypeOK
PROOF
  <1>1. IInv => TypeOK
    <2>. SUFFICES ASSUME IInv PROVE TypeOK
      OBVIOUS
    <2>1. Shapes
      BY DEF IInv
    <2>2. ASSUME NEW c \in Calls
          PROVE  /\ Len(ix[c]) <= 1
                 /\ \A i \in ToSet(ix[c]) :
                      i.disc \in InstructionNames /\ i.data \in Seq(0 .. Base - 1)
                 /\ intent[c] # None => intent[c].method \in InstructionNames
      <3>1. AsBuilt(c) /\ AsTold(c)
        BY DEF IInv, CallOK
      <3>2. PICK r \in Requests : request[c] = r
        BY <2>1 DEF Shapes
      <3>3. /\ Len(ix[c]) <= 1
            /\ \A i \in ToSet(ix[c]) :
                 i.disc \in InstructionNames /\ i.data \in Seq(0 .. Base - 1)
        <4>1. CASE ix[c] = <<>>
          <5>1. Len(ix[c]) = 0 /\ ToSet(ix[c]) = {}
            BY <4>1, OneInstruction
          <5>. QED  BY <5>1
        <4>2. CASE ix[c] # <<>>
          <5>1. ix[c] = <<Built(r)>> /\ Buildable(r)
            BY <3>1, <3>2, <4>2 DEF AsBuilt
          <5>2. ToSet(ix[c]) = {Built(r)} /\ Len(ix[c]) = 1
            BY <5>1, OneInstruction
          <5>3. Built(r).disc \in InstructionNames /\ Built(r).data \in Seq(0 .. Base - 1)
            BY <5>1, NamedByMethod
          <5>. QED  BY <5>2, <5>3
        <4>. QED  BY <4>1, <4>2
      <3>4. ASSUME intent[c] # None PROVE intent[c].method \in InstructionNames
        <4>1. \/ intent[c] = IntentOf(r)
              \/ intent[c] = Described(r) /\ r.method \in Implemented
          BY <3>1, <3>2, <3>4 DEF AsTold
        <4>2. r.method \in SettlementLayer
          BY SettlementAssumption
        <4>3. intent[c].method \in {"view_bond", "resolve_claim", "withdraw_bond",
                                    "process_pool_yield", "request_credit"}
          <5>1. IntentOf(r).method \in {"view_bond", "resolve_claim", "withdraw_bond",
                                        "process_pool_yield", "request_credit"}
            BY <4>2 DEF SettlementLayer, IntentOf, InstructionIntent, lock_collateral_intent,
                        slash_collateral_intent, unlock_collateral_intent,
                        pay_premium_intent, release_principal_intent
          <5>2. r.method \in Implemented =>
                  Described(r).method \in {"view_bond", "process_pool_yield"}
            BY DEF Implemented, Described, lock_collateral, pay_premium, InstructionIntent,
                   lock_collateral_intent, pay_premium_intent
          <5>. QED  BY <4>1, <5>1, <5>2
        <4>4. {"view_bond", "resolve_claim", "withdraw_bond", "process_pool_yield",
               "request_credit"} \subseteq InstructionNames
          BY DEF InstructionNames, SettlementLayer, TELARO_SETTLEMENT_MAP
        <4>. QED  BY <4>3, <4>4
      <3>. QED  BY <3>3, <3>4
    <2>. QED  BY <2>1, <2>2 DEF TypeOK, Shapes, AccountsOK
  <1>. QED  BY <1>1, SpecIInv, PTL

\* A call that resolved was executed, by an instruction the contract names for
\* its method, and a resolved slash decided the claim its way.
THEOREM SpecResolvedIsDone == Spec => []ResolvedIsDone
PROOF
  <1>1. IInv => ResolvedIsDone
    <2>. SUFFICES ASSUME IInv, NEW c \in Calls, stage[c] = "resolved"
                  PROVE  /\ tx[c] = "executed"
                         /\ \E i \in ToSet(ix[c]) :
                              i.disc \in TELARO_SETTLEMENT_MAP[request[c].method]
                         /\ request[c].method = "slash_collateral" =>
                              claim = IF Accepting(request[c]) THEN "paid" ELSE "rejected"
      BY DEF ResolvedIsDone
    <2>1. tx[c] = "executed" /\ ix[c] # <<>> /\ AsBuilt(c)
      BY DEF IInv, CallOK, Placed
    <2>2. PICK r \in Requests : request[c] = r
      BY DEF IInv, Shapes
    <2>3. ix[c] = <<Built(r)>> /\ Buildable(r)
      BY <2>1, <2>2 DEF AsBuilt
    <2>4. Built(r) \in ToSet(ix[c]) /\ Built(r).disc \in TELARO_SETTLEMENT_MAP[r.method]
      BY <2>3, OneInstruction, NamedByMethod
    <2>5. request[c].method = "slash_collateral" =>
            claim = IF Accepting(request[c]) THEN "paid" ELSE "rejected"
      BY <2>1 DEF IInv, Decided
    <2>. QED  BY <2>1, <2>2, <2>4, <2>5
  <1>. QED  BY <1>1, SpecIInv, PTL

\* The money moved for a method is at least what its resolved calls asked
\* for, and at most that plus what its pending and doubtful calls asked for.
THEOREM SpecMovedWithinCalls == Spec => []MovedWithinCalls
PROOF
  <1>1. IInv => MovedWithinCalls
    <2>. SUFFICES ASSUME IInv, NEW m \in SettlementLayer
                  PROVE  /\ Asked(m, {"resolved"}) <= Moved(m)
                         /\ Moved(m) <= Asked(m, {"resolved", "confirming", "inDoubt"})
      BY DEF MovedWithinCalls
    <2>. DEFINE Of(stages) == {c \in Calls : request[c].method = m /\ stage[c] \in stages}
                few == Of({"resolved"})
                many == Of({"resolved", "confirming", "inDoubt"})
                done == Executed(m)
                w == Worths
    <2>1. few \subseteq done /\ done \subseteq many
      <3>1. \A c \in Calls : Placed(c)
        BY DEF IInv, CallOK
      <3>2. \A c \in Calls : stage[c] = "resolved" => tx[c] = "executed"
        BY <3>1 DEF Placed
      <3>3. \A c \in Calls : tx[c] = "executed" =>
              stage[c] \in {"resolved", "confirming", "inDoubt"}
        BY <3>1 DEF Placed, IInv, Shapes, Stages, Rejections
      <3>. QED  BY <3>2, <3>3 DEF Executed
    <2>2. IsFiniteSet(many) /\ IsFiniteSet(done)
      BY SettlementAssumption, FS_Subset DEF Executed
    <2>3. ASSUME NEW c \in many PROVE w[c] \in Nat
      <3>1. c \in Calls /\ ix[c] # <<>>
        <4>1. c \in Calls /\ stage[c] \in {"resolved", "confirming", "inDoubt"}
          OBVIOUS
        <4>2. Placed(c)
          BY <4>1 DEF IInv, CallOK
        <4>. QED  BY <4>1, <4>2 DEF Placed
      <3>2. PICK r \in Requests : request[c] = r
        BY <3>1 DEF IInv, Shapes
      <3>3. Buildable(r)
        BY <3>1, <3>2 DEF IInv, CallOK, AsBuilt
      <3>. QED  BY <3>1, <3>2, <3>3, NamedByMethod DEF Worths
    <2>4. Moved(m) = SumFunctionOnSet(w, done)
      BY DEF IInv, Booked
    <2>5. /\ Asked(m, {"resolved"}) = SumFunctionOnSet(w, few)
          /\ Asked(m, {"resolved", "confirming", "inDoubt"}) = SumFunctionOnSet(w, many)
      BY DEF Asked, Worths
    <2>. HIDE DEF few, many, done, w
    <2>6. SumFunctionOnSet(w, few) <= SumFunctionOnSet(w, done)
      <3>1. \A c \in done : w[c] \in Nat
        BY <2>1, <2>3
      <3>. QED  BY <2>1, <2>2, <3>1, SumOfSubset
    <2>7. SumFunctionOnSet(w, done) <= SumFunctionOnSet(w, many)
      BY <2>1, <2>2, <2>3, SumOfSubset
    <2>. QED  BY <2>4, <2>5, <2>6, <2>7
  <1>. QED  BY <1>1, SpecIInv, PTL

\* An instruction that executes does what its call asked for, to the unit.
THEOREM SpecExecutedAsAsked == Spec => ExecutedAsAsked
PROOF
  <1>1. ASSUME IInv, [Next]_vars
        PROVE  \A c \in Calls : tx[c] # "executed" /\ tx'[c] = "executed" =>
                 Due(request[c]) /\ tokens' = Paid(request[c])
    <2>. SUFFICES ASSUME NEW c \in Calls, tx[c] # "executed", tx'[c] = "executed"
                  PROVE  Due(request[c]) /\ tokens' = Paid(request[c])
      OBVIOUS
    <2>1. Execute(c)
      <3>1. Shapes /\ \A d \in Calls : CallOK(d)
        BY <1>1 DEF IInv
      <3>2. \A d \in Calls : ~ CallStep(d)
        BY <3>1, CallStepKeepsCalls
      <3>3. \A d \in Calls : ~ (Refuse(d) \/ Expire(d))
        BY <3>1 DEF Refuse, Expire, Shapes
      <3>4. ~ ArbiterResolves /\ ~ Reassess /\ ~ UNCHANGED vars
        BY DEF ArbiterResolves, Reassess, vars
      <3>5. \A d \in Calls : d # c => ~ Execute(d)
        BY <3>1 DEF Execute, Shapes
      <3>. QED  BY <1>1, <3>2, <3>3, <3>4, <3>5 DEF Next, CallStep, Chain
    <2>2. PICK r \in Requests : request[c] = r
      BY <1>1 DEF IInv, Shapes
    <2>3. Buildable(r) /\ Accepts(Built(r)) /\ Effect(Built(r))
      BY <1>1, <2>1, <2>2, ExecutesWhatIsBuilt
    <2>4. AccountsOK
      BY <1>1 DEF IInv, Shapes
    <2>5. Due(r) /\ tokens' = Paid(r)
      BY <2>3, <2>4, Executing
    <2>. QED  BY <2>2, <2>5
  <1>. QED  BY <1>1, SpecIInv, PTL DEF Spec, ExecutedAsAsked

\* A call that leaves nothing out is refused by the program only for what its
\* caller can look up.
THEOREM SpecRefusedForCause == Spec => RefusedForCause
PROOF
  <1>1. ASSUME IInv, [Next]_vars
        PROVE  \A c \in Calls :
                 tx[c] # "failed" /\ tx'[c] = "failed" /\ Complete(request[c]) =>
                   ~ Due(request[c])
    <2>. SUFFICES ASSUME NEW c \in Calls, tx[c] # "failed", tx'[c] = "failed",
                         Complete(request[c])
                  PROVE  ~ Due(request[c])
      OBVIOUS
    <2>1. Refuse(c)
      <3>1. Shapes /\ \A d \in Calls : CallOK(d)
        BY <1>1 DEF IInv
      <3>2. \A d \in Calls : ~ CallStep(d)
        BY <3>1 DEF CallStep, Call, CallDescribes, CallRaises, Client, Send, SendFails,
                    Resolve, ConfirmError, ConfirmExpiry, LoseConfirmation, Settles, Shapes
      <3>3. \A d \in Calls : ~ (Execute(d) \/ Expire(d))
        BY <3>1 DEF Execute, Expire, Shapes
      <3>4. ~ ArbiterResolves /\ ~ Reassess /\ ~ UNCHANGED vars
        BY DEF ArbiterResolves, Reassess, vars
      <3>5. \A d \in Calls : d # c => ~ Refuse(d)
        BY <3>1 DEF Refuse, Shapes
      <3>. QED  BY <1>1, <3>2, <3>3, <3>4, <3>5 DEF Next, CallStep, Chain
    <2>2. PICK r \in Requests : request[c] = r
      BY <1>1 DEF IInv, Shapes
    <2>3. ix[c] = <<Built(r)>> /\ Buildable(r)
      BY <1>1, <2>1, <2>2 DEF IInv, CallOK, Placed, AsBuilt, Refuse
    <2>4. ~ Accepts(Built(r))
      BY <2>1, <2>3, OneInstruction DEF Refuse
    <2>5. AccountsOK
      BY <1>1 DEF IInv, Shapes
    <2>. QED  BY <2>2, <2>3, <2>4, <2>5, DueIsAccepted
  <1>. QED  BY <1>1, SpecIInv, PTL DEF Spec, RefusedForCause
=============================================================================
