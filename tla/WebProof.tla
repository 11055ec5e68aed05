------------------------------ MODULE WebProof ------------------------------
(***************************************************************************)
(* The Anchor program programs/webproof, executed by the Solana runtime.   *)
(*                                                                         *)
(* A transaction is a list of instructions of which all take effect or     *)
(* none.  `work` is what the running transaction has written so far, `pre` *)
(* is the instruction at index current - 1 as the instructions sysvar      *)
(* shows it, and `inner` says that the current top-level instruction       *)
(* belongs to another program, which may invoke this one: the sysvar then  *)
(* still reports the index of the outer instruction.                       *)
(*                                                                         *)
(* Transactions that write the same account are serialised by the runtime  *)
(* and the Clock is fixed while one runs, so transactions do not overlap.  *)
(***************************************************************************)
EXTENDS ProgramState, FiniteSets

CONSTANTS
  MaxAges,    (* values passed to initialize_config                         *)
  Headers,    (* Ed25519 instruction headers somebody may build             *)
  NoIx,       (* there is no instruction before the current one             *)
  OtherIx,    (* that instruction is not for the Ed25519 program            *)
  MaxSigned   (* bound on the number of signatures in existence             *)

(* A header names, for signature, key and message, the instruction whose   *)
(* data holds it: u16::MAX ("this") or an index ("other").                 *)
Places == {"this", "other"}
Header == [num: 0 .. 2, sig_ix: Places, key_ix: Places, msg_ix: Places]

(* An Ed25519 instruction: its header, and the bytes of its own data to    *)
(* which the key offset and the message offset point.                      *)
Ed25519Ix == [header: Headers, key: Keys, msg: Messages]

ASSUME IxAssumption ==
  /\ MaxAges \subseteq I64
  /\ Headers \subseteq Header
  /\ NoIx \notin Ed25519Ix
  /\ OtherIx \notin Ed25519Ix
  /\ NoIx # OtherIx

VARIABLES
  config,   (* committed state of the config account                        *)
  claims,   (* committed state of the claim accounts                        *)
  now,      (* Clock::unix_timestamp                                        *)
  signed,   (* pairs <<key, message>> for which a signature exists          *)
  work,     (* [config, claims] as seen by the running transaction          *)
  pre,      (* the instruction before the current one                       *)
  inner     (* inside an instruction of another program                     *)

chainVars == <<config, claims>>
txVars == <<work, pre, inner>>
vars == <<config, claims, now, signed, work, pre, inner>>

Init ==
  /\ config = NoConfig
  /\ claims = [id \in Ids |-> NoClaim]
  /\ now \in Times
  /\ signed = {}
  /\ work = [config |-> config, claims |-> claims]
  /\ pre = NoIx
  /\ inner = FALSE

Idle == pre = NoIx /\ ~inner

-----------------------------------------------------------------------------
(* The environment: holders of keys sign what they like, time passes       *)
(* between transactions.                                                   *)

Sign(k, m) ==
  /\ Cardinality(signed \cup {<<k, m>>}) <= MaxSigned
  /\ signed' = signed \cup {<<k, m>>}
  /\ UNCHANGED <<chainVars, now, txVars>>

Tick ==
  /\ Idle
  /\ now' \in Times
  /\ now' > now
  /\ UNCHANGED <<chainVars, signed, txVars>>

-----------------------------------------------------------------------------
(* The runtime.                                                            *)

(* A failing instruction undoes the whole transaction.                     *)
Abort ==
  /\ work' = [config |-> config, claims |-> claims]
  /\ pre' = NoIx
  /\ inner' = FALSE
  /\ UNCHANGED <<chainVars, now, signed>>

(* The transaction stops early, for a reason outside this program.         *)
Fail == ~Idle /\ Abort

Commit ==
  /\ pre # NoIx
  /\ ~inner
  /\ config' = work.config
  /\ claims' = work.claims
  /\ pre' = NoIx
  /\ UNCHANGED <<now, signed, work, inner>>

(* A top-level instruction becomes the preceding one; an inner one leaves  *)
(* the sysvar as it is.                                                    *)
Advance ==
  /\ pre' = IF inner THEN pre ELSE OtherIx
  /\ UNCHANGED <<chainVars, now, signed, inner>>

(* An instruction of another program starts, and returns.                  *)
Enter ==
  /\ ~inner
  /\ inner' = TRUE
  /\ UNCHANGED <<chainVars, now, signed, work, pre>>

Return ==
  /\ inner
  /\ inner' = FALSE
  /\ pre' = OtherIx
  /\ UNCHANGED <<chainVars, now, signed, work>>

(* The native Ed25519 program checks what the header points to.  Key and   *)
(* message are those of its own data only where the header says so, and a  *)
(* header that counts no signature asks for no check at all.               *)
Verified(ix) ==
  \/ ix.header.num = 0
  \/ \E s \in signed : /\ ix.header.key_ix = "this" => s[1] = ix.key
                       /\ ix.header.msg_ix = "this" => s[2] = ix.msg

Ed25519(ix) ==
  /\ ~inner
  /\ \/ /\ Verified(ix)
        /\ pre' = ix
        /\ UNCHANGED <<chainVars, now, signed, work, inner>>
     \/ ~Verified(ix) /\ Abort

-----------------------------------------------------------------------------
(* The program.                                                            *)

PROGRAM_DOMAIN == "WEBPROOF_SOLANA_CLAIM_V1"

(* initialize_config with init_if_needed: it runs again on an existing     *)
(* account.                                                                *)
initialize_config_again(authority, key, max_age) ==
  /\ max_age > 0
  /\ work' = [work EXCEPT !.config =
                [authority |-> authority, verifier_pubkey |-> key,
                 max_claim_age_seconds |-> max_age]]
  /\ Advance

initialize_config(authority, key, max_age) ==
  \/ /\ work.config = NoConfig
     /\ max_age > 0
     /\ work' = [work EXCEPT !.config =
                   [authority |-> authority, verifier_pubkey |-> key,
                    max_claim_age_seconds |-> max_age]]
     /\ Advance
  \/ /\ work.config # NoConfig \/ max_age <= 0
     /\ Abort

(* verify_preceding_ed25519 without the check of the index fields.         *)
verify_preceding_ed25519_unpinned(key, message) ==
  IF pre \notin Ed25519Ix THEN "MissingSignature"
  ELSE IF pre.header.num # 1 THEN "MalformedEd25519"
  ELSE IF pre.key # key THEN "WrongVerifier"
  ELSE IF pre.msg # message THEN "MessageMismatch"
  ELSE "Ok"

(* The offsets of an accepted header lie inside the instruction's data:    *)
(* the native program has read the same ranges.                            *)
verify_preceding_ed25519(key, message) ==
  IF pre \notin Ed25519Ix THEN "MissingSignature"
  ELSE IF pre.header.num # 1 THEN "MalformedEd25519"
  ELSE IF ~(/\ pre.header.sig_ix = "this"
            /\ pre.header.key_ix = "this"
            /\ pre.header.msg_ix = "this") THEN "MalformedEd25519"
  ELSE IF pre.key # key THEN "WrongVerifier"
  ELSE IF pre.msg # message THEN "MessageMismatch"
  ELSE "Ok"

(* submit_claim with init_if_needed: an occupied claim account passes.     *)
submit_result_init_if_needed(claim, id) ==
  LET cfg == work.config
      verdict == validate_claim(claim, now, cfg.max_claim_age_seconds)
  IN IF cfg = NoConfig THEN "AccountNotInitialized"
     ELSE IF verdict # "Ok" THEN verdict
     ELSE IF id # claim_id(claim) THEN "ClaimIdMismatch"
     ELSE verify_preceding_ed25519(cfg.verifier_pubkey,
                                   <<PROGRAM_DOMAIN, canonical_bytes(claim)>>)

(* The outcome of submit_claim: account constraints first, then the        *)
(* handler's checks in their order.                                        *)
submit_result(claim, id) ==
  LET cfg == work.config
      bytes == canonical_bytes(claim)
      verdict == validate_claim(claim, now, cfg.max_claim_age_seconds)
  IN IF cfg = NoConfig THEN "AccountNotInitialized"
     ELSE IF work.claims[id] # NoClaim THEN "AlreadyInUse"
     ELSE IF verdict # "Ok" THEN verdict
     ELSE IF id # sha256(bytes) THEN "ClaimIdMismatch"
     ELSE verify_preceding_ed25519(cfg.verifier_pubkey, <<PROGRAM_DOMAIN, bytes>>)

(* verified_claim that takes created_at from the claim, not the Clock.     *)
verified_claim_backdated(claim, id, submitter) ==
  [claim_id |-> id, source_host |-> claim.source_host,
   request_path_hash |-> claim.request_path_hash, claim_key |-> claim.claim_key,
   claim_value |-> claim.claim_value, issued_at |-> claim.issued_at,
   expires_at |-> claim.expires_at, provenance_hash |-> claim.provenance_hash,
   submitted_by |-> submitter, created_at |-> claim.issued_at]

verified_claim(claim, id, submitter) ==
  [claim_id |-> id, source_host |-> claim.source_host,
   request_path_hash |-> claim.request_path_hash, claim_key |-> claim.claim_key,
   claim_value |-> claim.claim_value, issued_at |-> claim.issued_at,
   expires_at |-> claim.expires_at, provenance_hash |-> claim.provenance_hash,
   submitted_by |-> submitter, created_at |-> now]

submit_claim(submitter, claim, id) ==
  \/ /\ submit_result(claim, id) = "Ok"
     /\ work' = [work EXCEPT !.claims[id] = verified_claim(claim, id, submitter)]
     /\ Advance
  \/ /\ submit_result(claim, id) # "Ok"
     /\ Abort

-----------------------------------------------------------------------------
Next ==
  \/ \E k \in Keys, m \in Messages : Sign(k, m)
  \/ Tick
  \/ Enter
  \/ Return
  \/ Commit
  \/ Fail
  \/ \E ix \in Ed25519Ix : Ed25519(ix)
  \/ \E a \in Accounts, k \in Keys, age \in MaxAges : initialize_config(a, k, age)
  \/ \E s \in Accounts, c \in Claims, id \in Ids : submit_claim(s, c, id)

Spec == Init /\ [][Next]_vars

-----------------------------------------------------------------------------
(* The accounts hold values of their declared types, and the runtime's     *)
(* bookkeeping is what the instructions sysvar can show.                   *)
TypeOK ==
  /\ config \in WebProofConfig \cup {NoConfig}
  /\ claims \in [Ids -> VerifiedClaim \cup {NoClaim}]
  /\ now \in Times
  /\ signed \subseteq Keys \X Messages
  /\ work \in [config: WebProofConfig \cup {NoConfig},
               claims: [Ids -> VerifiedClaim \cup {NoClaim}]]
  /\ pre \in Ed25519Ix \cup {NoIx, OtherIx}
  /\ inner \in BOOLEAN

(* Entry e under id records claim c.                                       *)
Records(e, id, c) ==
  /\ id = claim_id(c)
  /\ e.claim_id = id
  /\ e.source_host = c.source_host
  /\ e.request_path_hash = c.request_path_hash
  /\ e.claim_key = c.claim_key
  /\ e.claim_value = c.claim_value
  /\ e.issued_at = c.issued_at
  /\ e.expires_at = c.expires_at
  /\ e.provenance_hash = c.provenance_hash

(* A stored claim carries a signature of the configured verifier over this *)
(* very claim under WebProof's domain: not a signature of another key, not *)
(* one made for another protocol, not one the Ed25519 program never        *)
(* checked.                                                                *)
StoredClaimsSigned ==
  \A id \in Ids : claims[id] # NoClaim =>
    /\ config # NoConfig
    /\ \E c \in Claims :
         /\ Records(claims[id], id, c)
         /\ <<config.verifier_pubkey, signing_message(c)>> \in signed

(* A stored claim was well formed, issued, unexpired and young enough at   *)
(* the instant recorded in created_at, under the configured maximum age.   *)
StoredClaimsFresh ==
  \A id \in Ids : claims[id] # NoClaim =>
    /\ claims[id].created_at <= now
    /\ \E c \in Claims :
         /\ Records(claims[id], id, c)
         /\ Usable(c, claims[id].created_at, config.max_claim_age_seconds)

(* The instruction pair the SDK builds succeeds whenever it should: after  *)
(* an Ed25519 instruction holding its own key, message and signature, a    *)
(* usable claim that is not stored yet is accepted.                        *)
HonestSubmissionAccepted ==
  \A c \in Claims :
    (/\ config # NoConfig
     /\ work.claims[claim_id(c)] = NoClaim
     /\ Usable(c, now, config.max_claim_age_seconds)
     /\ pre \in Ed25519Ix
     /\ pre.header = [num |-> 1, sig_ix |-> "this", key_ix |-> "this", msg_ix |-> "this"]
     /\ pre.key = config.verifier_pubkey
     /\ pre.msg = signing_message(c))
    => submit_result(c, claim_id(c)) = "Ok"

(* The program implements the registry: through every mix of instructions, *)
(* inner invocations and aborted transactions, readers see a write-once    *)
(* configuration and an append-only table of vouched-for claims.           *)
R == INSTANCE Registry WITH
       config <- config, claims <- claims, now <- now, signed <- signed
ImplementsRegistry == R!Spec

(* The program implements the ledger that clients rely on: the key is set  *)
(* once, and an identifier is added only when that key has signed the one  *)
(* claim that has it, whatever the accounts hold besides.                  *)
L == INSTANCE Ledger WITH
       NoKey <- NoConfig,
       key <- IF config = NoConfig THEN NoConfig ELSE config.verifier_pubkey,
       entries <- {id \in Ids : claims[id] # NoClaim},
       attested <- {ki \in Keys \X Ids : \E c \in Claims :
                      ki[2] = claim_id(c) /\ <<ki[1], signing_message(c)>> \in signed}
ImplementsLedger == L!Spec

-----------------------------------------------------------------------------
(* The inductive invariant behind these properties: what holds in the      *)
(* middle of a transaction.                                                *)

MaxAgePositive(cfg) == cfg # NoConfig => cfg.max_claim_age_seconds > 0

(* Between transactions there is nothing to write, and during one nothing  *)
(* that is committed is overwritten.                                       *)
WorkExtendsCommitted ==
  /\ Idle => work = [config |-> config, claims |-> claims]
  /\ config # NoConfig => work.config = config
  /\ \A id \in Ids : claims[id] # NoClaim => work.claims[id] = claims[id]

(* What the transaction adds may be recorded at the instant it runs.       *)
AdditionsVouched ==
  \A id \in Ids : work.claims[id] # claims[id] =>
    \E c \in Claims, s \in Accounts :
      /\ id = claim_id(c)
      /\ work.claims[id] = verified_claim(c, id, s)
      /\ work.config # NoConfig
      /\ <<work.config.verifier_pubkey, signing_message(c)>> \in signed
      /\ Usable(c, now, work.config.max_claim_age_seconds)

(* An Ed25519 instruction seen in the sysvar was checked by the runtime.   *)
PrecedingVerified == pre \in Ed25519Ix => Verified(pre)

Invariant ==
  /\ TypeOK
  /\ MaxAgePositive(config)
  /\ MaxAgePositive(work.config)
  /\ WorkExtendsCommitted
  /\ AdditionsVouched
  /\ PrecedingVerified
  /\ StoredClaimsSigned
  /\ StoredClaimsFresh
=============================================================================
