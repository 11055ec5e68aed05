-------------------------------- MODULE Sdk ---------------------------------
(***************************************************************************)
(* The pure part of the TypeScript SDK: reading signed-claim.json, its own *)
(* copy of the claim's encoding, the size of the transaction that carries  *)
(* a claim, and the decoding of claim accounts.                            *)
(*                                                                         *)
(* An encoding is the sequence of the fields it writes.  JSON numbers are  *)
(* doubles: integers beyond MaxSafe are rounded to a multiple of a power   *)
(* of two, ties to the even one.                                           *)
(***************************************************************************)
EXTENDS Presentation, FiniteSetsExt

CONSTANT MaxSafe   (* 2^53; scaled down with I64Max                         *)

ASSUME MaxSafeAssumption ==
  MaxSafe \in Nat \ {0} /\ MaxSafe % 2 = 0 /\ I64Max < 1024 * MaxSafe

(* The distance of the doubles around the natural number m.                *)
Spacings == {1, 2, 4, 8, 16, 32, 64, 128, 256, 512, 1024}
ulp(m) == Min({u \in Spacings : m < MaxSafe * u \/ u = 1024})

RoundNat(m) ==
  LET u == ulp(m)
      q == m \div u
      r == m % u
  IN IF 2 * r < u \/ (2 * r = u /\ q % 2 = 0) THEN q * u ELSE (q + 1) * u

(* An i64 that serde_json writes and JSON.parse reads.                     *)
json_number(n) == IF n < 0 THEN -RoundNat(-n) ELSE RoundNat(n)

-----------------------------------------------------------------------------
(* serializeClaim with the two instants in the wrong order.                *)
serializeClaim_swapped(c) ==
  <<c.version, c.source_host, c.request_path_hash, c.claim_key, c.claim_value,
    c.expires_at, c.issued_at, c.nonce, c.provenance_hash>>

serializeClaim(c) ==
  <<c.version, c.source_host, c.request_path_hash, c.claim_key, c.claim_value,
    c.issued_at, c.expires_at, c.nonce, c.provenance_hash>>

claimId(c) == sha256(serializeClaim(c))
signingMessage(c) == <<DOMAIN_SEPARATOR, serializeClaim(c)>>

(* The claim as the SDK reads it from the file.                            *)
parsed(file) ==
  [file.claim EXCEPT !.issued_at = json_number(@), !.expires_at = json_number(@)]

(* The parsed claim, or nothing when the file is refused: an instant that  *)
(* rounding has pushed out of i64 cannot be serialized, and any other      *)
(* change shows in the identifier.                                         *)
parseSignedClaim(file) ==
  {c \in {parsed(file)} : /\ {c.issued_at, c.expires_at} \subseteq I64
                          /\ claimId(c) = file.claim_id}

-----------------------------------------------------------------------------
(* Sizes in bytes.  Borsh: a length of 4 bytes before each string.         *)
BorshSize(c) ==
  1 + 4 + len[c.source_host] + 32 + 4 + len[c.claim_key] + 4 + len[c.claim_value]
    + 8 + 8 + 32 + 32

(* createInstructionWithPublicKey: header, key, signature, message.        *)
VerifyData(c) == 16 + 32 + 64 + 24 + BorshSize(c)
(* Discriminator, claim and identifier.                                    *)
SubmitData(c) == 8 + BorshSize(c) + 32

(* One signature, the message header, seven account keys, the blockhash,   *)
(* and the two instructions with their indices and 2-byte lengths.         *)
transaction_size(c) ==
  (1 + 64) + 3 + (1 + 7 * 32) + 32
    + 1 + (1 + 1 + 2 + VerifyData(c)) + (1 + (1 + 5) + 2 + SubmitData(c))

PACKET_DATA_SIZE == 1232

-----------------------------------------------------------------------------
(* The data of a claim account, in the order of the program's struct.      *)
account_data(c, id, submitter) ==
  <<"account:VerifiedClaim", id, c.source_host, c.request_path_hash, c.claim_key,
    c.claim_value, c.issued_at, c.expires_at, c.provenance_hash, submitter>>

(* decodeVerifiedClaim that reads the instants in the wrong order.         *)
decodeVerifiedClaim_swapped(data) ==
  [claimId |-> data[2], sourceHost |-> data[3], requestPathHash |-> data[4],
   claimKey |-> data[5], claimValue |-> data[6], issuedAt |-> data[8],
   expiresAt |-> data[7], provenanceHash |-> data[9], submittedBy |-> data[10]]

(* Reader: one field after the other.                                      *)
decodeVerifiedClaim(data) ==
  [claimId |-> data[2], sourceHost |-> data[3], requestPathHash |-> data[4],
   claimKey |-> data[5], claimValue |-> data[6], issuedAt |-> data[7],
   expiresAt |-> data[8], provenanceHash |-> data[9], submittedBy |-> data[10]]
=============================================================================
