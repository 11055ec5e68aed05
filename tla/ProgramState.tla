---------------------------- MODULE ProgramState ----------------------------
(***************************************************************************)
(* The accounts of programs/webproof: what they hold and how they are      *)
(* addressed.  A program-derived address is a function of its seeds, so    *)
(* the config account is one variable and the claim accounts are indexed   *)
(* by claim_id; the bumps are left out.                                    *)
(***************************************************************************)
EXTENDS Claim

CONSTANTS
  Claims,     (* the claims somebody may build                              *)
  Keys,       (* Ed25519 public keys                                        *)
  Accounts,   (* wallets that sign and pay for transactions                 *)
  Messages,   (* byte strings that get signed                               *)
  Times,      (* values of Clock::unix_timestamp                            *)
  NoConfig,   (* the config account does not exist                          *)
  NoClaim     (* the claim account does not exist                           *)

Ids == {claim_id(c) : c \in Claims}

WebProofConfig ==
  [authority: Accounts, verifier_pubkey: Keys, max_claim_age_seconds: I64]

(* The version and the nonce of a claim are not stored.                    *)
VerifiedClaim ==
  [claim_id: Ids, source_host: Strings, request_path_hash: Bytes32,
   claim_key: Strings, claim_value: Strings, issued_at: I64, expires_at: I64,
   provenance_hash: Bytes32, submitted_by: Accounts, created_at: Times]

ASSUME StateAssumption ==
  /\ Claims \subseteq ClaimV1
  /\ Times \subseteq I64
  /\ NoConfig \notin WebProofConfig
  /\ NoClaim \notin VerifiedClaim
=============================================================================
