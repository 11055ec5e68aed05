---------------------------- MODULE ClaimProofs -----------------------------
(***************************************************************************)
(* Facts about the two copies of the validation rule, for every width of   *)
(* i64, every claim and every instant.                                     *)
(***************************************************************************)
EXTENDS Claim, TLAPS

(* i64::saturating_add(now, 30) admits the same issue times as the exact   *)
(* sum, and i64::saturating_sub(now, issued_at) the same ages, unless the  *)
(* maximum age is i64::MAX, which no saturated age exceeds.                *)
LEMMA SaturationLemma ==
  ASSUME NEW issued \in I64, NEW t \in I64, NEW max_age \in 1 .. I64Max
  PROVE  /\ issued <= saturating_add(t, 30) <=> issued - 30 <= t
         /\ saturating_sub(t, issued) <= max_age <=>
              (max_age = I64Max \/ t - issued <= max_age)
<1>1. issued <= saturating_add(t, 30) <=> issued - 30 <= t
  BY I64Assumption DEF I64, I64Min, saturate, saturating_add
<1>2. saturating_sub(t, issued) <= max_age <=>
        (max_age = I64Max \/ t - issued <= max_age)
  BY I64Assumption DEF I64, I64Min, saturate, saturating_sub
<1> QED BY <1>1, <1>2

(* validate_claim accepts exactly the usable claims: no arithmetic edge at *)
(* either end of i64 lets a stale claim in or keeps a fresh one out.       *)
LEMMA ValidateClaimExact ==
  ASSUME NEW c \in ClaimV1, NEW t \in I64, NEW max_age \in 1 .. I64Max
  PROVE  validate_claim(c, t, max_age) = "Ok" <=> Usable(c, t, max_age)
<1> DEFINE Fields == WellFormed(c) /\ c.issued_at < c.expires_at
           Future == c.issued_at <= saturating_add(t, 30)
           Age == saturating_sub(t, c.issued_at) <= max_age
<1>1. /\ c.issued_at \in I64
      /\ c.expires_at \in I64
      /\ len[c.source_host] \in Nat
      /\ len[c.claim_key] \in Nat
      /\ len[c.claim_value] \in Nat
  BY StringAssumption DEF ClaimV1
<1>2. /\ Future <=> c.issued_at - 30 <= t
      /\ Age <=> (max_age = I64Max \/ t - c.issued_at <= max_age)
  BY <1>1, SaturationLemma
<1>3. validate_claim(c, t, max_age) = "Ok" <=>
        Fields /\ t <= c.expires_at /\ Future /\ Age
  <2>1. validate_claim(c, t, max_age) = "Ok" <=>
          /\ c.version = 1
          /\ len[c.source_host] # 0 /\ len[c.source_host] <= 128
          /\ len[c.claim_key] # 0 /\ len[c.claim_key] <= 128
          /\ len[c.claim_value] # 0 /\ len[c.claim_value] <= 256
          /\ c.expires_at > c.issued_at
          /\ t <= c.expires_at
          /\ Future
          /\ Age
    BY DEF validate_claim, FUTURE_SKEW
  <2>2. WellFormed(c) <=>
          /\ c.version = 1
          /\ len[c.source_host] # 0 /\ len[c.source_host] <= 128
          /\ len[c.claim_key] # 0 /\ len[c.claim_key] <= 128
          /\ len[c.claim_value] # 0 /\ len[c.claim_value] <= 256
    BY <1>1 DEF WellFormed
  <2>3. c.expires_at > c.issued_at <=> c.issued_at < c.expires_at
    BY <1>1, I64Assumption DEF I64, I64Min
  <2> HIDE DEF Future, Age
  <2> QED BY <2>1, <2>2, <2>3
<1>4. Usable(c, t, max_age) <=>
        /\ Fields
        /\ c.issued_at - 30 <= t
        /\ t <= c.expires_at
        /\ max_age = I64Max \/ t - c.issued_at <= max_age
  BY <1>1, I64Assumption DEF Usable, I64, I64Min
<1> QED
  <2> HIDE DEF Fields, Future, Age
  <2> QED BY <1>2, <1>3, <1>4

(* The verdict of webproof-core under the program's names.                 *)
SameVerdict(core, chain) ==
  \/ core = "Version" /\ chain = "InvalidVersion"
  \/ core = "Length" /\ chain = "InvalidLength"
  \/ core = "TimeWindow" /\ chain = "InvalidTimeWindow"
  \/ core = chain /\ chain \in {"Expired", "Future", "TooOld", "Ok"}

(* The two copies of the rule, written for different crates, report the    *)
(* same verdict on every claim.                                            *)
LEMMA CopiesLemma ==
  ASSUME NEW c \in ClaimV1, NEW t \in I64, NEW max_age \in I64
  PROVE  SameVerdict(validate(c, t, max_age), validate_claim(c, t, max_age))
<1>1. /\ c.issued_at \in Int
      /\ c.expires_at \in Int
      /\ len[c.source_host] \in Nat
      /\ len[c.claim_key] \in Nat
      /\ len[c.claim_value] \in Nat
  BY StringAssumption, I64Assumption DEF ClaimV1, I64, I64Min
<1>2. /\ saturating_add(t, 30) \in Int
      /\ saturating_sub(t, c.issued_at) \in Int
      /\ t \in Int
      /\ max_age \in Int
  BY <1>1, I64Assumption DEF saturate, saturating_add, saturating_sub, I64, I64Min
<1> QED
  BY <1>1, <1>2
  DEF SameVerdict, validate, validate_claim, bounded, VERSION, MAX_SOURCE_HOST,
      MAX_CLAIM_KEY, MAX_CLAIM_VALUE, MAX_FUTURE_SKEW_SECONDS, FUTURE_SKEW
=============================================================================
