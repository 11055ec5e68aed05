------------------------------- MODULE Claim --------------------------------
(***************************************************************************)
(* The claim that the verifier signs and the Solana program stores, and    *)
(* the two copies of the rule that decides whether a claim is acceptable:  *)
(* `ClaimV1::validate` (crates/webproof-core), used before signing, and    *)
(* `validate_claim` (programs/webproof), used before storing.              *)
(*                                                                         *)
(* Strings are atoms with a byte length; 32-byte arrays are atoms; i64 has *)
(* its two ends and saturates at them.                                     *)
(***************************************************************************)
EXTENDS Integers

CONSTANTS
  I64Max,    (* i64::MAX; scaled down for TLC, arbitrary in the proofs      *)
  Strings,   (* UTF-8 strings that occur in claims                          *)
  len,       (* their lengths in bytes                                      *)
  Bytes32    (* values of type [u8; 32]                                     *)

ASSUME I64Assumption == I64Max \in Nat
ASSUME StringAssumption == len \in [Strings -> Nat]

I64Min == -I64Max - 1
I64 == I64Min .. I64Max
U8 == 0 .. 255

(* What a wrapping addition or subtraction would return.                   *)
WrapI64(x) == ((x - I64Min) % (2 * (I64Max + 1))) + I64Min

(* Rust's i64::saturating_add and i64::saturating_sub.                     *)
saturate(x) == IF x > I64Max THEN I64Max ELSE IF x < I64Min THEN I64Min ELSE x
saturating_add(a, b) == saturate(a + b)
saturating_sub(a, b) == saturate(a - b)

VERSION == 1
DOMAIN_SEPARATOR == "WEBPROOF_SOLANA_CLAIM_V1"
MAX_SOURCE_HOST == 128
MAX_CLAIM_KEY == 128
MAX_CLAIM_VALUE == 256
MAX_FUTURE_SKEW_SECONDS == 30

ClaimV1 ==
  [version: U8, source_host: Strings, request_path_hash: Bytes32,
   claim_key: Strings, claim_value: Strings, issued_at: I64, expires_at: I64,
   nonce: Bytes32, provenance_hash: Bytes32]

(* SHA-256 without collisions: a free constructor.                         *)
sha256(x) == <<"sha256", x>>

(* Borsh writes the fields one after the other, strings with their length: *)
(* the encoding determines every field, and nothing else is in it.         *)
canonical_bytes(c) ==
  <<c.version, c.source_host, c.request_path_hash, c.claim_key, c.claim_value,
    c.issued_at, c.expires_at, c.nonce, c.provenance_hash>>

claim_id(c) == sha256(canonical_bytes(c))

signing_message(c) == <<DOMAIN_SEPARATOR, canonical_bytes(c)>>

-----------------------------------------------------------------------------
(* crates/webproof-core: the rule the signer applies.                      *)

bounded(value, max) == len[value] > 0 /\ len[value] <= max

validate(c, now, max_age) ==
  IF c.version # VERSION THEN "Version"
  ELSE IF ~bounded(c.source_host, MAX_SOURCE_HOST) THEN "Length"
  ELSE IF ~bounded(c.claim_key, MAX_CLAIM_KEY) THEN "Length"
  ELSE IF ~bounded(c.claim_value, MAX_CLAIM_VALUE) THEN "Length"
  ELSE IF c.expires_at <= c.issued_at THEN "TimeWindow"
  ELSE IF now > c.expires_at THEN "Expired"
  ELSE IF c.issued_at > saturating_add(now, MAX_FUTURE_SKEW_SECONDS) THEN "Future"
  ELSE IF saturating_sub(now, c.issued_at) > max_age THEN "TooOld"
  ELSE "Ok"

-----------------------------------------------------------------------------
(* programs/webproof: the program's own copy of the rule.                  *)

FUTURE_SKEW == 30

(* validate_claim with its expiry check left out.                          *)
validate_claim_never_expires(c, now, max_age) ==
  IF c.version # 1 THEN "InvalidVersion"
  ELSE IF ~bounded(c.source_host, 128) THEN "InvalidLength"
  ELSE IF ~bounded(c.claim_key, 128) THEN "InvalidLength"
  ELSE IF ~bounded(c.claim_value, 256) THEN "InvalidLength"
  ELSE IF ~(c.expires_at > c.issued_at) THEN "InvalidTimeWindow"
  ELSE IF ~(c.issued_at <= saturating_add(now, FUTURE_SKEW)) THEN "Future"
  ELSE IF ~(saturating_sub(now, c.issued_at) <= max_age) THEN "TooOld"
  ELSE "Ok"

(* validate_claim rejecting a claim in the very second it expires.         *)
validate_claim_early_expiry(c, now, max_age) ==
  IF now = c.expires_at THEN "Expired"
  ELSE validate_claim_never_expires(c, now, max_age)

validate_claim(c, now, max_age) ==
  IF c.version # 1 THEN "InvalidVersion"
  ELSE IF ~(len[c.source_host] # 0 /\ len[c.source_host] <= 128) THEN "InvalidLength"
  ELSE IF ~(len[c.claim_key] # 0 /\ len[c.claim_key] <= 128) THEN "InvalidLength"
  ELSE IF ~(len[c.claim_value] # 0 /\ len[c.claim_value] <= 256) THEN "InvalidLength"
  ELSE IF ~(c.expires_at > c.issued_at) THEN "InvalidTimeWindow"
  ELSE IF ~(now <= c.expires_at) THEN "Expired"
  ELSE IF ~(c.issued_at <= saturating_add(now, FUTURE_SKEW)) THEN "Future"
  ELSE IF ~(saturating_sub(now, c.issued_at) <= max_age) THEN "TooOld"
  ELSE "Ok"

-----------------------------------------------------------------------------
(* What the two copies are meant to compute, stated over the integers:     *)
(* lengths in range, and the instants at which the claim may be used form  *)
(* one interval, from FUTURE_SKEW before its issue to the earlier of its   *)
(* expiry and its maximum age.  A maximum age of i64::MAX means no limit:  *)
(* an age that saturates still passes the test.                            *)

WellFormed(c) ==
  /\ c.version = 1
  /\ len[c.source_host] \in 1 .. 128
  /\ len[c.claim_key] \in 1 .. 128
  /\ len[c.claim_value] \in 1 .. 256

Usable(c, now, max_age) ==
  /\ WellFormed(c)
  /\ c.issued_at < c.expires_at
  /\ now \in (c.issued_at - 30) .. c.expires_at
  /\ max_age = I64Max \/ now - c.issued_at <= max_age
=============================================================================
