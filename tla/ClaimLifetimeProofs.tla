------------------------- MODULE ClaimLifetimeProofs ------------------------
(***************************************************************************)
(* The safety properties of ClaimLifetime, for every claim, every maximum  *)
(* age, every width of i64 and every way the clock may advance.            *)
(***************************************************************************)
EXTENDS ClaimLifetime, ClaimProofs

(* The claim and the maximum age never change and the clock stays in i64.  *)
LEMMA TypeCorrect == Spec => []TypeOK
<1>1. Init => TypeOK
  BY DEF Init, TypeOK
<1>2. TypeOK /\ [Next]_vars => TypeOK'
  BY DEF TypeOK, Next, Tick, vars
<1> QED BY <1>1, <1>2, PTL DEF Spec

LEMMA TypesOfInputs ==
  TypeOK => claim \in ClaimV1 /\ max_age \in 1 .. I64Max /\ now \in I64
BY InputAssumption DEF TypeOK

(* The verifier's rule and the program's rule give the same verdict in     *)
(* every state.                                                            *)
THEOREM CopiesAlwaysAgree == Spec => []CopiesAgree
<1>1. TypeOK => CopiesAgree
  <2> SUFFICES ASSUME TypeOK PROVE CopiesAgree
    OBVIOUS
  <2>1. max_age \in I64
    BY TypesOfInputs, I64Assumption DEF I64, I64Min
  <2>2. SameVerdict(core, chain)
    BY TypesOfInputs, <2>1, CopiesLemma DEF core, chain
  <2> HIDE DEF core, chain
  <2> QED BY <2>2 DEF SameVerdict, CopiesAgree, OnChainName
<1> QED BY <1>1, TypeCorrect, PTL

(* The rule computed with saturating arithmetic is the rule over the       *)
(* integers.                                                               *)
THEOREM SaturationAlwaysExact == Spec => []SaturationIsExact
<1>1. TypeOK => SaturationIsExact
  BY TypesOfInputs, ValidateClaimExact DEF SaturationIsExact, chain
<1> QED BY <1>1, TypeCorrect, PTL

(* Which verdicts mean that a claim has outlived its window.               *)
LEMMA StaleMeaning ==
  ASSUME NEW c \in ClaimV1, NEW t \in I64, NEW age \in 1 .. I64Max
  PROVE  validate_claim(c, t, age) \in {"Expired", "TooOld"} <=>
           /\ WellFormed(c)
           /\ c.issued_at < c.expires_at
           /\ \/ t > c.expires_at
              \/ age # I64Max /\ t - c.issued_at > age
<1> DEFINE Future == c.issued_at <= saturating_add(t, 30)
           Age == saturating_sub(t, c.issued_at) <= age
<1>1. /\ c.issued_at \in Int
      /\ c.expires_at \in Int
      /\ t \in Int
      /\ age \in Nat
      /\ c.issued_at \in I64
      /\ len[c.source_host] \in Nat
      /\ len[c.claim_key] \in Nat
      /\ len[c.claim_value] \in Nat
  BY StringAssumption, I64Assumption DEF ClaimV1, I64, I64Min
<1>2. /\ Future <=> c.issued_at - 30 <= t
      /\ Age <=> (age = I64Max \/ t - c.issued_at <= age)
  BY <1>1, SaturationLemma
<1>3. WellFormed(c) <=>
        /\ c.version = 1
        /\ len[c.source_host] # 0 /\ len[c.source_host] <= 128
        /\ len[c.claim_key] # 0 /\ len[c.claim_key] <= 128
        /\ len[c.claim_value] # 0 /\ len[c.claim_value] <= 256
  BY <1>1 DEF WellFormed
<1>4. validate_claim(c, t, age) \in {"Expired", "TooOld"} <=>
        /\ c.version = 1
        /\ len[c.source_host] # 0 /\ len[c.source_host] <= 128
        /\ len[c.claim_key] # 0 /\ len[c.claim_key] <= 128
        /\ len[c.claim_value] # 0 /\ len[c.claim_value] <= 256
        /\ c.expires_at > c.issued_at
        /\ \/ ~(t <= c.expires_at)
           \/ Future /\ ~Age
  BY DEF validate_claim, FUTURE_SKEW
<1>5. (~(t <= c.expires_at) \/ (Future /\ ~Age)) <=>
        (t > c.expires_at \/ (age # I64Max /\ t - c.issued_at > age))
  <2> HIDE DEF Future, Age
  <2> QED BY <1>1, <1>2, I64Assumption
<1>6. c.expires_at > c.issued_at <=> c.issued_at < c.expires_at
  BY <1>1
<1> QED
  <2> HIDE DEF Future, Age
  <2> QED BY <1>3, <1>4, <1>5, <1>6

(* Once a claim has expired or grown too old it stays rejected for one of  *)
(* these two reasons: later readings of the clock cannot revive it.        *)
THEOREM StaleStaysStale == Spec => StaleForever
<1>1. TypeOK /\ TypeOK' /\ [Next]_vars => [Stale => Stale']_vars
  <2> SUFFICES ASSUME TypeOK, TypeOK', Tick, Stale
               PROVE  Stale'
    BY DEF Next, Tick
  <2>1. /\ claim \in ClaimV1 /\ max_age \in 1 .. I64Max /\ now \in I64
        /\ now' \in I64 /\ now' > now
        /\ claim' = claim /\ max_age' = max_age
    BY InputAssumption DEF TypeOK, Tick
  <2>2. /\ WellFormed(claim)
        /\ claim.issued_at < claim.expires_at
        /\ now > claim.expires_at \/ (max_age # I64Max /\ now - claim.issued_at > max_age)
    BY <2>1, StaleMeaning DEF Stale, chain
  <2>3. /\ claim.issued_at \in Int /\ claim.expires_at \in Int
        /\ now \in Int /\ now' \in Int /\ max_age \in Nat
    BY <2>1, I64Assumption DEF ClaimV1, I64, I64Min
  <2>4. now' > claim.expires_at \/ (max_age # I64Max /\ now' - claim.issued_at > max_age)
    BY <2>1, <2>2, <2>3
  <2>5. validate_claim(claim, now', max_age) \in {"Expired", "TooOld"}
    BY <2>1, <2>2, <2>4, StaleMeaning
  <2> QED BY <2>1, <2>5 DEF Stale, chain
<1> QED BY <1>1, TypeCorrect, PTL DEF Spec, StaleForever
=============================================================================
