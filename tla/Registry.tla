------------------------------ MODULE Registry ------------------------------
(***************************************************************************)
(* What the program promises to those who read its accounts: a write-once  *)
(* configuration and an append-only table of claims.  Every entry was      *)
(* attested by the configured verifier, as a WebProof claim and as nothing *)
(* else, sits under the hash of the claim it records, and was usable at    *)
(* the instant it was created.                                             *)
(*                                                                         *)
(* Signatures, instructions, transactions and saturating arithmetic are    *)
(* absent here: WebProof is shown to implement this specification.         *)
(***************************************************************************)
EXTENDS ProgramState

VARIABLES
  config,   (* the configuration, or NoConfig                               *)
  claims,   (* the claim recorded under each id, or NoClaim                 *)
  now,      (* unix time                                                    *)
  signed    (* pairs <<key, message>> for which a signature exists          *)

vars == <<config, claims, now, signed>>

Init ==
  /\ config = NoConfig
  /\ claims = [id \in Ids |-> NoClaim]
  /\ now \in Times
  /\ signed = {}

(* Somebody signs a message.                                               *)
Attest ==
  /\ \E k \in Keys, m \in Messages : signed' = signed \cup {<<k, m>>}
  /\ UNCHANGED <<config, claims, now>>

Advance ==
  /\ now' \in Times
  /\ now' > now
  /\ UNCHANGED <<config, claims, signed>>

(* Entry e may be added under id when the configuration is cfg.            *)
MayRecord(id, e, cfg) ==
  \E c \in Claims :
    /\ id = claim_id(c)
    /\ cfg # NoConfig
    /\ <<cfg.verifier_pubkey, signing_message(c)>> \in signed
    /\ Usable(c, now, cfg.max_claim_age_seconds)
    /\ \E s \in Accounts :
         e = [claim_id |-> id, source_host |-> c.source_host,
              request_path_hash |-> c.request_path_hash,
              claim_key |-> c.claim_key, claim_value |-> c.claim_value,
              issued_at |-> c.issued_at, expires_at |-> c.expires_at,
              provenance_hash |-> c.provenance_hash,
              submitted_by |-> s, created_at |-> now]

(* One transaction: all of its effects or none.                            *)
Publish ==
  /\ config' # config => /\ config = NoConfig
                         /\ config' \in WebProofConfig
                         /\ config'.max_claim_age_seconds > 0
  /\ claims' \in [Ids -> VerifiedClaim \cup {NoClaim}]
  /\ \A id \in Ids : claims'[id] # claims[id] =>
       claims[id] = NoClaim /\ MayRecord(id, claims'[id], config')
  /\ UNCHANGED <<now, signed>>

Next == Attest \/ Advance \/ Publish

Spec == Init /\ [][Next]_vars
=============================================================================
