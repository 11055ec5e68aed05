---------------------------- MODULE Presentation ----------------------------
(***************************************************************************)
(* TLSNotary presentations: what webproof-tlsn discloses in one            *)
(* (present.rs), what it demands of one (verify.rs), and the claim that    *)
(* webproof-verifier signs over what was disclosed.                        *)
(*                                                                         *)
(* TLSNotary itself is outside the repository.  A presentation is the      *)
(* session it speaks of, the key that is said to have attested it, whether *)
(* its signature, certificate chain and transcript proofs check out, and   *)
(* which parts it discloses.                                               *)
(***************************************************************************)
EXTENDS Claim

CONSTANTS
  Sessions,     (* TLS sessions:                                            *)
                (* [notary, root, host, path, headers, response]            *)
  NotaryKeys,   (* notary verifying keys                                    *)
  NoBody,       (* a response without a body                                *)
  NotJson,      (* a response whose body is not JSON                        *)
  Absent        (* a JSON pointer that leads nowhere                        *)

(* shown: the request headers whose values are disclosed.                  *)
IsArtifact(a) ==
  /\ a.session \in Sessions
  /\ a.key \in NotaryKeys
  /\ a.shown \subseteq a.session.headers
  /\ {a.genuine, a.identity, a.transcript, a.request_line, a.response, a.tail}
       \subseteq BOOLEAN

-----------------------------------------------------------------------------
(* present.rs                                                              *)

SECRET_HEADERS == {"authorization", "cookie", "proxy-authorization"}

(* build_presentation that reveals only the structure of the response.     *)
build_presentation_structure_only(s) ==
  [session |-> s, key |-> s.notary, genuine |-> TRUE, identity |-> TRUE,
   transcript |-> TRUE, request_line |-> TRUE,
   shown |-> s.headers \ SECRET_HEADERS, response |-> FALSE, tail |-> FALSE]

(* The request line with its target, every header (secret ones by name     *)
(* only), the complete response and the identity proof are disclosed.      *)
(* Header names are compared, and represented, in lower case.              *)
build_presentation(s) ==
  [session |-> s, key |-> s.notary, genuine |-> TRUE, identity |-> TRUE,
   transcript |-> TRUE, request_line |-> TRUE,
   shown |-> s.headers \ SECRET_HEADERS, response |-> TRUE, tail |-> FALSE]

-----------------------------------------------------------------------------
(* verify.rs                                                               *)

with_mozilla_roots(keys) == [server_roots |-> {}, trusted_notary_keys |-> keys]
with_custom_roots(roots, keys) == [server_roots |-> roots, trusted_notary_keys |-> keys]

(* The roots a verifier's provider trusts: without any of its own, those   *)
(* of the default provider.                                                *)
crypto_provider(v) == IF v.server_roots = {} THEN {"mozilla"} ELSE v.server_roots

(* Presentation::verify: the notary's signature, the server's certificate  *)
(* chain up to the given roots and the transcript proofs.                  *)
presentation_verify(a, roots) == a.genuine /\ a.session.root \in roots

(* TlsnPresentationVerifier::verify.  Bytes that are not authenticated     *)
(* either fail to parse or fail the coverage check; both are "Coverage".   *)
(* bincode ignores what follows the presentation, so a tail is accepted.   *)
verify(v, a) ==
  IF a.key \notin v.trusted_notary_keys THEN "UntrustedNotary"
  ELSE IF ~presentation_verify(a, crypto_provider(v)) THEN "Verification"
  ELSE IF ~a.identity THEN "MissingServerName"
  ELSE IF ~a.transcript THEN "MissingTranscript"
  ELSE IF ~a.request_line THEN "Coverage"
  ELSE IF ~a.response THEN "Coverage"
  ELSE IF a.session.response = NoBody THEN "Coverage"
  ELSE IF a.session.response = NotJson THEN "Json"
  ELSE "Ok"

-----------------------------------------------------------------------------
(* webproof-verifier                                                       *)

(* VerifiedTlsData, for an artifact that verify accepts.                   *)
from_verified_presentation(a) ==
  [host |-> a.session.host, path |-> a.session.path,
   response |-> a.session.response, artifact |-> a]

Scalars == {"string", "number", "bool", "null"}

(* The claimed text of a JSON scalar.                                      *)
claim_text(v) == IF v.kind = "null" THEN "null" ELSE v.text

(* unsigned_claim that adds the ttl without saturation.                    *)
unsigned_claim_overflowing(data, field, now, ttl, nonce) ==
  [version |-> VERSION, source_host |-> data.host,
   request_path_hash |-> sha256(data.path), claim_key |-> field,
   claim_value |-> claim_text(data.response[field]),
   issued_at |-> now, expires_at |-> now + ttl,
   nonce |-> nonce, provenance_hash |-> sha256(data.artifact)]

unsigned_claim(data, field, now, ttl, nonce) ==
  [version |-> VERSION,
   source_host |-> data.host,
   request_path_hash |-> sha256(data.path),
   claim_key |-> field,
   claim_value |-> claim_text(data.response[field]),
   issued_at |-> now,
   expires_at |-> saturating_add(now, ttl),
   nonce |-> nonce,
   provenance_hash |-> sha256(data.artifact)]

(* sign_verified without its comparison of hosts.                          *)
sign_verified_any_host(data, url, field, now, ttl, nonce) ==
  IF url.scheme # "https" THEN "Host"
  ELSE IF data.response[field] = Absent THEN "Field"
  ELSE IF data.response[field].kind \notin Scalars THEN "Field"
  ELSE validate(unsigned_claim(data, field, now, ttl, nonce), now, ttl)

(* ClaimSigner::sign_verified: "Ok", or why it refuses to sign.            *)
sign_verified(data, url, field, now, ttl, nonce) ==
  IF url.scheme # "https" \/ url.host # data.host THEN "Host"
  ELSE IF data.response[field] = Absent THEN "Field"
  ELSE IF data.response[field].kind \notin Scalars THEN "Field"
  ELSE validate(unsigned_claim(data, field, now, ttl, nonce), now, ttl)

(* A signature of key over a message, unforgeable: a free constructor.     *)
Signature(key, message) == <<"ed25519", key, message>>

SignedClaim(c, key) ==
  [claim |-> c, claim_id |-> claim_id(c),
   signature |-> Signature(key, signing_message(c)),
   verifier_public_key |-> key, tlsn_artifact_hash |-> c.provenance_hash]
=============================================================================
