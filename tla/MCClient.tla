------------------------------ MODULE MCClient ------------------------------
(***************************************************************************)
(* Two instances.  Racing commands: two claims signed by two verifiers,    *)
(* and a file that names the wrong key.  Single commands: also files that  *)
(* do not match their id, were altered within the rounding of a number,    *)
(* hold an instant that a JSON number cannot carry, a claim of another     *)
(* version, or one at or beyond the size of a transaction.  Doubles have 6 *)
(* bits and i64 has 9.                                                     *)
(***************************************************************************)
EXTENDS Client

CONSTANTS k1, k2, b1

MCI64Max == 255
MCStrings == {"host", "key", "v", "w", "text", "long"}
MCLen == [s \in MCStrings |->
            CASE s = "host" -> 100 [] s = "text" -> 129 [] s = "long" -> 130 [] OTHER -> 4]

Claim1 == [version |-> 1, source_host |-> "host", request_path_hash |-> b1,
           claim_key |-> "key", claim_value |-> "v", issued_at |-> 30,
           expires_at |-> 64, nonce |-> b1, provenance_hash |-> b1]
Claim2 == [Claim1 EXCEPT !.claim_value = "w"]
Fits == [Claim1 EXCEPT !.claim_value = "text"]      (* 1231 bytes            *)
TooLong == [Claim1 EXCEPT !.claim_value = "long"]   (* 1233 bytes            *)

MCFiles ==
  {SignedClaim(Claim1, k1), SignedClaim(Claim2, k2),
   [SignedClaim(Claim1, k1) EXCEPT !.verifier_public_key = k2]}
MCAllFiles ==
  MCFiles \cup
  {SignedClaim(c, k1) : c \in {[Claim1 EXCEPT !.expires_at = t] : t \in 63 .. 255}}
    \cup {SignedClaim(c, k1) : c \in {[Claim1 EXCEPT !.issued_at = t] : t \in -256 .. -60}}
    \cup {SignedClaim(Fits, k1), SignedClaim(TooLong, k1),
          SignedClaim([Claim1 EXCEPT !.version = 2], k1),
          [SignedClaim(Claim2, k2) EXCEPT !.claim_id = claim_id(Claim1)]}
    \cup {[SignedClaim([Claim1 EXCEPT !.expires_at = 66], k1) EXCEPT
             !.claim.expires_at = 65 + d] : d \in {0, 1, 2}}
=============================================================================
